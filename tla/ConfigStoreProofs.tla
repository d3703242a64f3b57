-------------------------- MODULE ConfigStoreProofs --------------------------
(***************************************************************************)
(* Theorems about ConfigStore, for every set of goroutines, libraries,     *)
(* passwords, secrets and request bodies and for every bound.              *)
(***************************************************************************)
EXTENDS ConfigStore, TLAPS

-----------------------------------------------------------------------------
(* The configurations the operators build are configurations.              *)

LEMMA DefaultIsConfig == DefaultAppConfig \in Config /\ Normalizes(DefaultAppConfig)
  BY ConfigAssumption DEF DefaultAppConfig, Config, Normalizes

LEMMA NoJobIsJob == NoJob \in Job
  BY DefaultIsConfig DEF NoJob, Job, NoBody, Body, Ops

LEMMA MergeIsConfig ==
  ASSUME NEW cur \in Config, NEW body \in Body
  PROVE  Merge(cur, body) \in Config
  <1>1. body.val \in Config
    BY DEF Body
  <1>2. Decode(body) \in Config
    BY <1>1 DEF Decode, Config
  <1>3. cur.secret \in Secrets \cup ShortSecrets \cup {None} /\ cur.hash \in Passwords \cup {None}
    BY DEF Config
  <1> DEFINE req == Decode(body)
             secret == IF req.secret = None THEN cur.secret ELSE req.secret
             hash == IF req.plain = None THEN cur.hash ELSE None
  <1>4. /\ secret \in Secrets \cup ShortSecrets \cup {None}
        /\ hash \in Passwords \cup {None}
    BY <1>2, <1>3 DEF Config
  <1>5. Merge(cur, body) = [req EXCEPT !.secret = secret, !.hash = hash]
    BY DEF Merge
  <1> HIDE DEF req, secret, hash
  <1>6. req \in Config
    BY <1>2 DEF req
  <1> QED BY <1>4, <1>5, <1>6 DEF Config

LEMMA HashedIsConfig ==
  ASSUME NEW cfg \in Config
  PROVE  /\ Hashed(cfg) \in Config
         /\ Hashed(cfg).plain = None
         /\ Hashed(cfg).secret = cfg.secret
         /\ Hashed(cfg).libs = cfg.libs
         /\ Hashed(cfg).html = cfg.html
         /\ Hashed(cfg).listen = cfg.listen
  BY DEF Hashed, Config

LEMMA HashedAndRequiredIsConfig ==
  ASSUME NEW cfg \in Config
  PROVE  /\ HashedAndRequired(cfg) \in Config
         /\ HashedAndRequired(cfg).plain = None
         /\ HashedAndRequired(cfg).secret = cfg.secret
         /\ HashedAndRequired(cfg).libs = cfg.libs
         /\ HashedAndRequired(cfg).html = cfg.html
         /\ HashedAndRequired(cfg).listen = cfg.listen
  <1>1. CASE cfg.plain = None
    BY <1>1 DEF HashedAndRequired
  <1>2. CASE cfg.plain # None
    BY <1>2, HashedIsConfig DEF HashedAndRequired, Config
  <1> QED BY <1>1, <1>2

\* What Bootstrap may go on with: never without a secret, never with a
\* plaintext password, and the row's own content unless it was the default.
LEMMA BootstrapConfigsAre ==
  ASSUME NEW cur \in Config, NEW manifest \in Config,
         NEW cfg \in BootstrapConfigs(cur, manifest)
  PROVE  /\ cfg \in Config
         /\ cfg.secret # None
         /\ cfg.plain = None
         /\ cur # DefaultAppConfig => /\ cfg.libs = cur.libs
                                      /\ cfg.html = cur.html
                                      /\ cfg.listen = cur.listen
  <1> DEFINE seeded == IF cur = DefaultAppConfig THEN HashedAndRequired(manifest) ELSE cur
             keyed  == IF seeded.secret # None THEN {seeded}
                       ELSE {[seeded EXCEPT !.secret = s] : s \in Secrets}
  <1>1. seeded \in Config /\ (cur # DefaultAppConfig => seeded = cur)
    BY HashedAndRequiredIsConfig
  <1>2. PICK k \in keyed : cfg = HashedAndRequired(k)
    BY DEF BootstrapConfigs
  <1>3. /\ k \in Config
        /\ k.secret # None
        /\ k.libs = seeded.libs /\ k.html = seeded.html /\ k.listen = seeded.listen
    <2> HIDE DEF seeded
    <2> QED BY <1>1, <1>2, ConfigAssumption DEF Config
  <1> QED BY <1>1, <1>2, <1>3, HashedAndRequiredIsConfig

-----------------------------------------------------------------------------
(* Every variable keeps its type.                                          *)

LEMMA RetireTyped ==
  ASSUME TypeOK, NEW p \in Procs, Retire(p)
  PROVE  /\ pc' \in [Procs -> PCs]
         /\ job' \in [Procs -> Job]
         /\ snap' \in [Procs -> Config]
         /\ snapVer' \in [Procs -> Nat]
         /\ draft' \in [Procs -> Config]
         /\ wrote' \in [Procs -> Nat]
  BY DefaultIsConfig, NoJobIsJob DEF TypeOK, Retire, PCs

\* The type invariant: every variable stays in its set.
THEOREM Typing == Spec => []TypeOK
<1>1. Init => TypeOK
  <2> SUFFICES ASSUME Init PROVE TypeOK
    OBVIOUS
  <2>1. row \in Config /\ present \in BOOLEAN
    BY DefaultIsConfig, ConfigAssumption DEF Init
  <2>2. row.libs \in SUBSET Libraries
    BY <2>1 DEF Config
  <2> QED BY <2>1, <2>2, DefaultIsConfig, NoJobIsJob DEF Init, TypeOK, PCs
<1>2. TypeOK /\ [Next]_vars => TypeOK'
  <2> SUFFICES ASSUME TypeOK, [Next]_vars PROVE TypeOK'
    OBVIOUS
  <2> USE DEF bounds, locals
  <2>1. ASSUME NEW p \in Procs, StartBootstrap(p) \/ StartGet(p) \/ StartWrite(p)
        PROVE  TypeOK'
    <3>1. PICK op \in Ops, body \in Body, pw \in Passwords \cup {None},
               page \in Pages \cup {None} : Begin(p, op, body, pw, page)
      <4>1. \A m \in Manifests : [sent |-> Fields, val |-> m] \in Body
        BY ConfigAssumption DEF Body
      <4>2. NoBody \in Body
        BY NoJobIsJob DEF NoJob, Job
      <4> QED BY <2>1, <4>1, <4>2, ConfigAssumption DEF StartBootstrap, StartGet, StartWrite, Ops
    <3>2. [op |-> op, body |-> body, pw |-> pw, page |-> page] \in Job
      BY DEF Job
    <3>3. writes' \in Nat /\ UNCHANGED <<starts, faults, legacy>>
      <4>1. writes' = writes \/ writes' = writes + 1
        BY <2>1 DEF StartBootstrap, StartGet, StartWrite
      <4> QED BY <2>1, <4>1 DEF StartBootstrap, StartGet, StartWrite, TypeOK
    <3> QED BY <3>1, <3>2, <3>3 DEF Begin, TypeOK, PCs
  <2>4. ASSUME NEW p \in Procs, GetConfig(p) PROVE TypeOK'
    <3>1. CASE SelectMissing(p)
      BY <3>1 DEF SelectMissing, TypeOK, PCs
    <3>2. CASE EnsureRow(p)
      BY <3>2 DEF EnsureRow, TypeOK, PCs
    <3>3. CASE SelectRow(p) /\ Normalizes(row)
      BY <3>3 DEF SelectRow, TypeOK, PCs
    <3>4. CASE SelectRow(p) /\ ~Normalizes(row)
      BY <3>4, RetireTyped DEF SelectRow, TypeOK
    <3> QED BY <2>4, <3>1, <3>2, <3>3, <3>4 DEF GetConfig
  <2>5. ASSUME NEW p \in Procs, Return(p) PROVE TypeOK'
    <3>1. ASSUME Reply(p), UNCHANGED <<present, row, ver, saved, bounds>>,
                 ready' \in BOOLEAN
          PROVE  TypeOK'
      BY <3>1, RetireTyped DEF Reply, Installs, SetPublicLibraryIDs, TypeOK, Config
    <3>2. ASSUME NEW cfg \in Config, Submit(p, cfg), ready' \in BOOLEAN,
                 UNCHANGED <<present, row, ver, saved, bounds>>
          PROVE  TypeOK'
      BY <3>2 DEF Submit, Installs, SetPublicLibraryIDs, TypeOK, Config, PCs
    <3>3. CASE GetReturns(p)
      BY <3>3, <3>1 DEF GetReturns, TypeOK
    <3>4. CASE HtmlReturns(p)
      <4>1. [snap[p] EXCEPT !.html = job[p].page] \in Config
        BY DEF TypeOK, Config, Job
      <4> QED BY <3>4, <4>1, <3>2 DEF HtmlReturns, TypeOK
    <3>5. CASE ClearReturns(p)
      <4>1. [snap[p] EXCEPT !.hash = None, !.plain = None, !.required = FALSE] \in Config
        BY DEF TypeOK, Config
      <4> QED BY <3>5, <4>1, <3>2 DEF ClearReturns, TypeOK
    <3>6. CASE RehashReturns(p)
      <4>1. [snap[p] EXCEPT !.hash = job[p].pw, !.plain = None] \in Config
        BY DEF TypeOK, Config, Job
      <4> QED BY <3>6, <4>1, <3>2 DEF RehashReturns, TypeOK
    <3>7. CASE LoginReturns(p)
      <4>1. CASE Reply(p)
        BY <3>7, <4>1, <3>1 DEF LoginReturns, TypeOK
      <4>2. CASE ~Reply(p)
        <5>1. [job[p] EXCEPT !.op = "rehash"] \in Job
          BY DEF TypeOK, Job, Ops
        <5>2. /\ Installs(p)
              /\ pc' = [pc EXCEPT ![p] = "select"]
              /\ job' = [job EXCEPT ![p] = [job[p] EXCEPT !.op = "rehash"]]
              /\ UNCHANGED <<snap, snapVer, draft, wrote>>
              /\ UNCHANGED <<present, row, ver, saved, ready, bounds>>
          BY <3>7, <4>2 DEF LoginReturns
        <5> QED BY <5>1, <5>2 DEF Installs, SetPublicLibraryIDs, TypeOK, Config, PCs
      <4> QED BY <4>1, <4>2
    <3>8. CASE PatchReturns(p)
      <4>1. Merge(snap[p], job[p].body) \in Config
        BY MergeIsConfig DEF TypeOK, Job
      <4> QED BY <3>8, <4>1, <3>1, <3>2 DEF PatchReturns, TypeOK
    <3>9. CASE BootstrapReturns(p)
      <4>1. job[p].body.val \in Config
        BY DEF TypeOK, Job, Body
      <4>2. PICK cfg \in BootstrapConfigs(snap[p], job[p].body.val) :
              IF cfg # snap[p]
              THEN Submit(p, cfg) /\ UNCHANGED ready
              ELSE Reply(p) /\ ready' = TRUE
        BY <3>9 DEF BootstrapReturns
      <4>3. cfg \in Config
        BY <4>1, <4>2, BootstrapConfigsAre DEF TypeOK
      <4> QED BY <3>9, <4>2, <4>3, <3>1, <3>2 DEF BootstrapReturns, TypeOK
    <3>10. CASE RereadReturns(p)
      BY <3>10, RetireTyped DEF RereadReturns, SetPublicLibraryIDs, TypeOK, Config
    <3> QED BY <2>5, <3>3, <3>4, <3>5, <3>6, <3>7, <3>8, <3>9, <3>10 DEF Return
  <2>6. ASSUME NEW p \in Procs, Commit(p)
        PROVE  /\ present' \in BOOLEAN /\ row' \in Config /\ ver' \in Nat
               /\ saved' \in SUBSET SUBSET Libraries
    <3>1. Hashed(draft[p]) \in Config
      BY HashedIsConfig DEF TypeOK
    <3>2. Hashed(draft[p]).libs \in SUBSET Libraries
      BY <3>1 DEF Config
    <3> QED BY <2>6, <3>1, <3>2 DEF Commit, TypeOK
  <2>7. ASSUME NEW p \in Procs, UpdateConfig(p) PROVE TypeOK'
    <3>1. CASE Normalizes(draft[p]) /\ job[p].op \in {"patch", "bootstrap"}
      BY <2>6, <2>7, <3>1 DEF UpdateConfig, TypeOK, PCs
    <3>2. CASE Normalizes(draft[p]) /\ job[p].op \notin {"patch", "bootstrap"}
      BY <2>6, <2>7, <3>2, RetireTyped DEF UpdateConfig, TypeOK
    <3>3. CASE ~Normalizes(draft[p])
      BY <2>7, <3>3, RetireTyped DEF UpdateConfig, TypeOK
    <3> QED BY <3>1, <3>2, <3>3
  <2>8. ASSUME NEW p \in Procs, DatabaseError(p) PROVE TypeOK'
    BY <2>8, RetireTyped DEF DatabaseError, Fail, TypeOK
  <2>9. ASSUME NEW p \in Procs, AnswerLost(p) PROVE TypeOK'
    BY <2>6, <2>9, RetireTyped DEF AnswerLost, Fail, TypeOK
  <2>10. CASE Restart
    <3>1. floor' \in SUBSET Libraries
      BY <2>10 DEF Restart
    <3>3. ready' \in BOOLEAN
      BY <2>10 DEF Restart
    <3>4. starts' \in Nat
      <4>1. starts' = starts + 1
        BY <2>10 DEF Restart
      <4> QED BY <4>1 DEF TypeOK
    <3>2. /\ pc' \in [Procs -> PCs] /\ job' \in [Procs -> Job]
          /\ snap' \in [Procs -> Config] /\ snapVer' \in [Procs -> Nat]
          /\ draft' \in [Procs -> Config] /\ wrote' \in [Procs -> Nat]
      BY <2>10, DefaultIsConfig, NoJobIsJob DEF Restart, PCs
    <3> QED BY <2>10, <3>1, <3>2, <3>3, <3>4 DEF Restart, TypeOK
  <2>11. CASE WriteLegacyPassword
    <3>1. \A pw \in Passwords : [row EXCEPT !.plain = pw] \in Config
      BY DEF TypeOK, Config
    <3>2. row' \in Config
      BY <2>11, <3>1 DEF WriteLegacyPassword
    <3> QED BY <2>11, <3>2 DEF WriteLegacyPassword, TypeOK
  <2>12. CASE UNCHANGED vars
    BY <2>12 DEF vars, TypeOK
  <2> QED
    BY <2>1, <2>4, <2>5, <2>7, <2>8, <2>9, <2>10, <2>11, <2>12 DEF Next, Step
<1> QED BY <1>1, <1>2, PTL DEF Spec

-----------------------------------------------------------------------------
(* What a goroutine's return from its first GetConfig does to the state the *)
(* goroutines share, whatever the operation.                               *)

LEMMA ReturnShape ==
  ASSUME TypeOK, NEW p \in Procs, Return(p)
  PROVE  /\ floor' = snap[p].libs
         /\ UNCHANGED <<present, row, ver, saved, bounds>>
         /\ snap' = snap \/ snap' = [snap EXCEPT ![p] = DefaultAppConfig]
         /\ snapVer' = snapVer \/ snapVer' = [snapVer EXCEPT ![p] = 0]
         /\ wrote' = wrote \/ wrote' = [wrote EXCEPT ![p] = 0]
         /\ pc[p] \in {"install", "reinstall"}
         /\ pc' \in {[pc EXCEPT ![p] = "idle"], [pc EXCEPT ![p] = "write"],
                     [pc EXCEPT ![p] = "select"]}
         /\ \/ pc' = [pc EXCEPT ![p] = "idle"]
            \/ job' = job
            \/ job' = [job EXCEPT ![p].op = "rehash"]
  <1> USE DEF Reply, Submit, Installs, SetPublicLibraryIDs, Retire
  <1>1. CASE GetReturns(p) BY <1>1 DEF GetReturns
  <1>2. CASE HtmlReturns(p) BY <1>2 DEF HtmlReturns
  <1>3. CASE ClearReturns(p) BY <1>3 DEF ClearReturns
  <1>4. CASE RehashReturns(p) BY <1>4 DEF RehashReturns
  <1>5. CASE LoginReturns(p) BY <1>5 DEF LoginReturns
  <1>6. CASE PatchReturns(p) BY <1>6 DEF PatchReturns
  <1>7. CASE BootstrapReturns(p) BY <1>7 DEF BootstrapReturns
  <1>8. CASE RereadReturns(p) BY <1>8 DEF RereadReturns
  <1> QED BY <1>1, <1>2, <1>3, <1>4, <1>5, <1>6, <1>7, <1>8 DEF Return

LEMMA StartShape ==
  ASSUME NEW p \in Procs, StartBootstrap(p) \/ StartGet(p) \/ StartWrite(p)
  PROVE  /\ UNCHANGED <<present, row, ver, floor, saved, ready, snap, snapVer,
                        draft, wrote, legacy>>
         /\ pc[p] = "idle"
         /\ pc' = [pc EXCEPT ![p] = "select"]
  BY DEF StartBootstrap, StartGet, StartWrite, Begin, bounds

-----------------------------------------------------------------------------
(* The floor.                                                              *)

\* Every allowlist in memory, in the floor or in a goroutine, was stored.
FloorInv ==
    /\ row.libs \in saved
    /\ FloorWasSaved
    /\ \A p \in Procs : snap[p].libs \in saved \cup {{}}

\* The floor is always an allowlist that was stored, or empty.
THEOREM FloorIsSaved == Spec => []FloorWasSaved
<1>1. Init => FloorInv
  BY DEF Init, FloorInv, FloorWasSaved, DefaultAppConfig
<1>2. TypeOK /\ FloorInv /\ [Next]_vars => FloorInv'
  <2> SUFFICES ASSUME TypeOK, FloorInv, [Next]_vars PROVE FloorInv'
    OBVIOUS
  <2> USE DEF FloorInv, FloorWasSaved
  <2>0. DefaultAppConfig.libs = {}
    BY DEF DefaultAppConfig
  <2>1. ASSUME NEW p \in Procs, StartBootstrap(p) \/ StartGet(p) \/ StartWrite(p)
        PROVE  FloorInv'
    BY <2>1, StartShape
  <2>2. ASSUME NEW p \in Procs, Retire(p), UNCHANGED <<row, floor, saved>>
        PROVE  FloorInv'
    BY <2>0, <2>2 DEF Retire, TypeOK
  <2>3. ASSUME NEW p \in Procs, GetConfig(p) PROVE FloorInv'
    <3>1. CASE SelectMissing(p) \/ EnsureRow(p)
      BY <3>1 DEF SelectMissing, EnsureRow, locals
    <3>2. CASE SelectRow(p) /\ Normalizes(row)
      BY <3>2 DEF SelectRow, TypeOK
    <3>3. CASE SelectRow(p) /\ ~Normalizes(row)
      BY <2>2, <3>3 DEF SelectRow
    <3> QED BY <2>3, <3>1, <3>2, <3>3 DEF GetConfig
  <2>4. ASSUME NEW p \in Procs, Return(p) PROVE FloorInv'
    <3>1. \A q \in Procs : snap'[q] = snap[q] \/ snap'[q] = DefaultAppConfig
      BY <2>4, ReturnShape DEF TypeOK
    <3> QED BY <2>0, <2>4, <3>1, ReturnShape
  <2>5. ASSUME NEW p \in Procs, Commit(p)
        PROVE  row'.libs \in saved' /\ saved \subseteq saved'
    BY <2>5 DEF Commit
  <2>6. ASSUME NEW p \in Procs, UpdateConfig(p) PROVE FloorInv'
    <3>1. CASE Normalizes(draft[p]) /\ job[p].op \in {"patch", "bootstrap"}
      BY <2>5, <2>6, <3>1 DEF UpdateConfig
    <3>2. CASE Normalizes(draft[p]) /\ job[p].op \notin {"patch", "bootstrap"}
      BY <2>0, <2>5, <2>6, <3>2 DEF UpdateConfig, Retire, TypeOK
    <3>3. CASE ~Normalizes(draft[p])
      BY <2>2, <2>6, <3>3 DEF UpdateConfig
    <3> QED BY <3>1, <3>2, <3>3
  <2>7. ASSUME NEW p \in Procs, DatabaseError(p) PROVE FloorInv'
    BY <2>2, <2>7 DEF DatabaseError, Fail
  <2>8. ASSUME NEW p \in Procs, AnswerLost(p) PROVE FloorInv'
    BY <2>0, <2>5, <2>8 DEF AnswerLost, Fail, Retire, TypeOK
  <2>9. CASE Restart
    BY <2>0, <2>9 DEF Restart
  <2>10. CASE WriteLegacyPassword
    BY <2>10 DEF WriteLegacyPassword, locals, TypeOK, Config
  <2>11. CASE UNCHANGED vars
    BY <2>11 DEF vars
  <2> QED
    BY <2>1, <2>3, <2>4, <2>6, <2>7, <2>8, <2>9, <2>10, <2>11 DEF Next, Step
<1>3. FloorInv => FloorWasSaved
  BY DEF FloorInv
<1> QED BY <1>1, <1>2, <1>3, Typing, PTL DEF Spec

-----------------------------------------------------------------------------
(* The second read of a PATCH.                                             *)

\* No version is newer than the row's, and a goroutine that read after its
\* own write read that write or a later one.
VersionInv ==
    /\ \A p \in Procs : wrote[p] <= ver
    /\ PatchSeesItsWrite

\* A PATCH answers with a configuration at least as new as its own write.
THEOREM PatchReadsItsWrite == Spec => []PatchSeesItsWrite
<1>1. Init => VersionInv
  BY DEF Init, VersionInv, PatchSeesItsWrite
<1>2. TypeOK /\ VersionInv /\ [Next]_vars => VersionInv'
  <2> SUFFICES ASSUME TypeOK, VersionInv, [Next]_vars PROVE VersionInv'
    OBVIOUS
  <2> USE DEF VersionInv, PatchSeesItsWrite
  <2>1. ASSUME NEW p \in Procs, StartBootstrap(p) \/ StartGet(p) \/ StartWrite(p)
        PROVE  VersionInv'
    BY <2>1, StartShape DEF TypeOK
  <2>2. ASSUME NEW p \in Procs, Retire(p), ver' = ver \/ ver' = ver + 1
        PROVE  VersionInv'
    BY <2>2 DEF Retire, TypeOK
  <2>3. ASSUME NEW p \in Procs, GetConfig(p) PROVE VersionInv'
    <3>1. CASE SelectMissing(p) \/ EnsureRow(p)
      BY <3>1 DEF SelectMissing, EnsureRow, locals, TypeOK
    <3>2. CASE SelectRow(p) /\ Normalizes(row)
      BY <3>2 DEF SelectRow, TypeOK
    <3>3. CASE SelectRow(p) /\ ~Normalizes(row)
      BY <2>2, <3>3 DEF SelectRow
    <3> QED BY <2>3, <3>1, <3>2, <3>3 DEF GetConfig
  <2>4. ASSUME NEW p \in Procs, Return(p) PROVE VersionInv'
    <3>1. pc'[p] # "reinstall" /\ \A q \in Procs \ {p} : pc'[q] = pc[q]
      BY <2>4, ReturnShape DEF TypeOK
    <3>2. \A q \in Procs \ {p} : snapVer'[q] = snapVer[q] /\ wrote'[q] = wrote[q]
      BY <2>4, ReturnShape DEF TypeOK
    <3>3. wrote'[p] = wrote[p] \/ wrote'[p] = 0
      BY <2>4, ReturnShape DEF TypeOK
    <3>4. ver' = ver
      BY <2>4, ReturnShape
    <3> QED BY <3>1, <3>2, <3>3, <3>4 DEF TypeOK
  <2>5. ASSUME NEW p \in Procs, UpdateConfig(p) PROVE VersionInv'
    <3>1. CASE Normalizes(draft[p]) /\ job[p].op \in {"patch", "bootstrap"}
      BY <2>5, <3>1 DEF UpdateConfig, Commit, TypeOK
    <3>2. CASE ~(Normalizes(draft[p]) /\ job[p].op \in {"patch", "bootstrap"})
      BY <2>2, <2>5, <3>2 DEF UpdateConfig, Commit
    <3> QED BY <3>1, <3>2
  <2>6. ASSUME NEW p \in Procs, DatabaseError(p) PROVE VersionInv'
    BY <2>2, <2>6 DEF DatabaseError, Fail
  <2>7. ASSUME NEW p \in Procs, AnswerLost(p) PROVE VersionInv'
    BY <2>2, <2>7 DEF AnswerLost, Fail, Commit
  <2>8. CASE Restart
    BY <2>8 DEF Restart, TypeOK
  <2>9. CASE WriteLegacyPassword
    BY <2>9 DEF WriteLegacyPassword, locals, TypeOK
  <2>10. CASE UNCHANGED vars
    BY <2>10 DEF vars
  <2> QED
    BY <2>1, <2>3, <2>4, <2>5, <2>6, <2>7, <2>8, <2>9, <2>10 DEF Next, Step
<1>3. VersionInv => PatchSeesItsWrite
  BY DEF VersionInv
<1> QED BY <1>1, <1>2, <1>3, Typing, PTL DEF Spec

-----------------------------------------------------------------------------
(* Plugin starts and what they hand over to the handlers.                  *)

\* Until the plugin is ready one goroutine runs, and it runs Bootstrap.
Lone ==
    ~ready => \A p \in Procs : pc[p] # "idle" =>
                 /\ job[p].op = "bootstrap"
                 /\ \A q \in Procs : pc[q] # "idle" => q = p

\* Once it is ready nobody runs Bootstrap.
Handlers == ready => \A p \in Procs : pc[p] # "idle" => job[p].op # "bootstrap"

\* Bootstrap decides on the row as it is, and writes nothing but a secret, a
\* hash and, over the defaults, the manifest.
BootSteps ==
    ~ready => \A p \in Procs :
        /\ pc[p] = "install" => snap[p] = row
        /\ pc[p] = "write" =>
              /\ draft[p].secret # None
              /\ row # DefaultAppConfig => /\ draft[p].libs = row.libs
                                           /\ draft[p].html = row.html
                                           /\ draft[p].listen = row.listen
        /\ pc[p] \in {"reselect", "reinstall"} => row.secret # None /\ row.plain = None

\* The handlers' row has a secret and no plaintext, and so has every copy of
\* it a handler works on; every copy agrees with it on the listener.
ReadyRow == SecretKept /\ NoPlaintextPersisted

Copies ==
    ready => \A p \in Procs :
        /\ pc[p] = "install" => snap[p].secret # None /\ snap[p].listen = row.listen
        /\ pc[p] = "write" => draft[p].secret # None /\ draft[p].listen = row.listen

StartInv == Lone /\ Handlers /\ BootSteps /\ ReadyRow /\ Copies

\* A handler's configuration keeps the secret and the listener of the copy it
\* was made from.
LEMMA SubmitKeeps ==
  ASSUME TypeOK, StartInv, ready, NEW p \in Procs, Return(p), pc'[p] = "write"
  PROVE  draft'[p].secret # None /\ draft'[p].listen = row.listen
  <1> USE DEF Reply, Submit, Installs, Retire
  <1>0. /\ pc[p] \in {"install", "reinstall"}
        /\ job[p].op # "bootstrap"
    BY ReturnShape DEF StartInv, Handlers
  <1>1. pc[p] = "install" => snap[p].secret # None /\ snap[p].listen = row.listen
    BY DEF StartInv, Copies
  <1>2. CASE GetReturns(p) BY <1>2 DEF GetReturns, TypeOK
  <1>3. CASE HtmlReturns(p)
    BY <1>1, <1>3 DEF HtmlReturns, TypeOK, Config
  <1>4. CASE ClearReturns(p)
    BY <1>1, <1>4 DEF ClearReturns, TypeOK, Config
  <1>5. CASE RehashReturns(p)
    BY <1>1, <1>5 DEF RehashReturns, TypeOK, Config
  <1>6. CASE LoginReturns(p)
    BY <1>6 DEF LoginReturns, TypeOK
  <1>7. CASE PatchReturns(p)
    <2> DEFINE next == Merge(snap[p], job[p].body)
    <2>1. /\ ~LiveListenerChange(snap[p], next)
          /\ Submit(p, next)
      BY <1>7 DEF PatchReturns, TypeOK
    <2>2. snap[p].listen = next.listen
      BY <2>1 DEF LiveListenerChange
    <2>3. next.secret = IF Decode(job[p].body).secret = None
                        THEN snap[p].secret ELSE Decode(job[p].body).secret
      BY DEF Merge, Decode
    <2> HIDE DEF next
    <2> QED BY <1>1, <2>1, <2>2, <2>3 DEF TypeOK
  <1>8. CASE BootstrapReturns(p) BY <1>0, <1>8 DEF BootstrapReturns
  <1>9. CASE RereadReturns(p) BY <1>9 DEF RereadReturns, TypeOK
  <1> QED BY <1>2, <1>3, <1>4, <1>5, <1>6, <1>7, <1>8, <1>9 DEF Return

\* Bootstrap's return from its first read: the write it prepares, or ready.
LEMMA BootstrapKeeps ==
  ASSUME TypeOK, StartInv, ~ready, NEW p \in Procs, BootstrapReturns(p)
  PROVE  \/ /\ ready' = TRUE
            /\ pc' = [pc EXCEPT ![p] = "idle"]
            /\ row.secret # None /\ row.plain = None
         \/ /\ ready' = FALSE
            /\ pc' = [pc EXCEPT ![p] = "write"]
            /\ UNCHANGED <<job, snap>>
            /\ draft'[p].secret # None
            /\ row # DefaultAppConfig => /\ draft'[p].libs = row.libs
                                         /\ draft'[p].html = row.html
                                         /\ draft'[p].listen = row.listen
  <1>1. PICK cfg \in BootstrapConfigs(snap[p], job[p].body.val) :
           IF cfg # snap[p] THEN Submit(p, cfg) /\ UNCHANGED ready
           ELSE Reply(p) /\ ready' = TRUE
    BY DEF BootstrapReturns
  <1>2. /\ cfg.secret # None /\ cfg.plain = None
        /\ snap[p] # DefaultAppConfig => /\ cfg.libs = snap[p].libs
                                         /\ cfg.html = snap[p].html
                                         /\ cfg.listen = snap[p].listen
    <2>1. snap[p] \in Config /\ job[p].body.val \in Config
      BY DEF TypeOK, Job, Body
    <2> QED BY <1>1, <2>1, BootstrapConfigsAre
  <1>3. pc[p] = "install"
    BY <1>1 DEF Submit, Reply, Installs
  <1>4. snap[p] = row
    BY <1>3 DEF StartInv, BootSteps
  <1>5. CASE cfg = snap[p]
    BY <1>1, <1>2, <1>4, <1>5 DEF Reply, Retire
  <1>6. CASE cfg # snap[p]
    BY <1>1, <1>2, <1>4, <1>6 DEF Submit, TypeOK
  <1> QED BY <1>5, <1>6

LEMMA StartInvInit == Init => StartInv
  BY DEF Init, StartInv, Lone, Handlers, BootSteps, ReadyRow, SecretKept,
         NoPlaintextPersisted, Copies

\* A goroutine that ends disturbs nothing, whatever it held.
LEMMA RetireKeepsStart ==
  ASSUME TypeOK, StartInv, NEW p \in Procs, Retire(p),
         UNCHANGED <<row, ready, legacy>>
  PROVE  StartInv'
  BY DEF StartInv, Lone, Handlers, BootSteps, ReadyRow, SecretKept,
         NoPlaintextPersisted, Copies, Retire, TypeOK

LEMMA StartInvStep == TypeOK /\ StartInv /\ [Next]_vars => StartInv'
<1> SUFFICES ASSUME TypeOK, StartInv, [Next]_vars PROVE StartInv'
  OBVIOUS
<1> USE DEF StartInv, Lone, Handlers, BootSteps, ReadyRow, SecretKept,
            NoPlaintextPersisted, Copies
<1>1. ASSUME NEW p \in Procs, StartBootstrap(p) PROVE StartInv'
  <2>1. ~ready /\ Idle
    BY <1>1 DEF StartBootstrap
  <2>2. job'[p].op = "bootstrap"
    BY <1>1 DEF StartBootstrap, Begin, TypeOK
  <2> QED BY <1>1, <2>1, <2>2, StartShape DEF Idle, TypeOK
<1>2. ASSUME NEW p \in Procs, StartGet(p) \/ StartWrite(p) PROVE StartInv'
  <2>1. ready
    BY <1>2 DEF StartGet, StartWrite
  <2>2. job'[p].op # "bootstrap" /\ \A q \in Procs \ {p} : job'[q] = job[q]
    <3>1. PICK op, body, pw, page : Begin(p, op, body, pw, page) /\ op # "bootstrap"
      BY <1>2 DEF StartGet, StartWrite
    <3> QED BY <3>1 DEF Begin, TypeOK
  <2>3. UNCHANGED <<row, ready, snap, draft, legacy>>
    BY <1>2, StartShape
  <2>4. \A q \in Procs : pc'[q] = IF q = p THEN "select" ELSE pc[q]
    BY <1>2, StartShape DEF TypeOK
  <2>5. Lone' /\ BootSteps'
    BY <2>1, <2>3
  <2>6. Handlers'
    BY <2>1, <2>2, <2>4
  <2>7. ReadyRow'
    BY <2>3
  <2>8. Copies'
    BY <2>3, <2>4
  <2> QED BY <2>5, <2>6, <2>7, <2>8
<1>3. ASSUME NEW p \in Procs, GetConfig(p) PROVE StartInv'
  <2>1. CASE SelectMissing(p) \/ EnsureRow(p)
    BY <2>1 DEF SelectMissing, EnsureRow, locals, bounds, TypeOK
  <2>2. CASE SelectRow(p) /\ Normalizes(row)
    BY <2>2 DEF SelectRow, bounds, TypeOK
  <2>3. CASE SelectRow(p) /\ ~Normalizes(row)
    BY <2>3, RetireKeepsStart DEF SelectRow, bounds
  <2> QED BY <1>3, <2>1, <2>2, <2>3 DEF GetConfig
<1>4. ASSUME NEW p \in Procs, Return(p) PROVE StartInv'
  <2>0. UNCHANGED <<row, legacy>>
    BY <1>4, ReturnShape DEF bounds
  <2>1. CASE ready
    <3>1. ready'
      BY <1>4, <2>1 DEF Return, GetReturns, HtmlReturns, ClearReturns, RehashReturns,
            LoginReturns, PatchReturns, BootstrapReturns, RereadReturns
    <3>2. job'[p].op # "bootstrap" \/ pc'[p] = "idle"
      <4>1. job[p].op # "bootstrap"
        BY <1>4, <2>1, ReturnShape
      <4>2. CASE pc' = [pc EXCEPT ![p] = "idle"] \/ job' = job
        BY <4>1, <4>2 DEF TypeOK
      <4>3. CASE job' = [job EXCEPT ![p].op = "rehash"]
        <5>1. job' = [job EXCEPT ![p] = [job[p] EXCEPT !.op = "rehash"]]
          BY <4>3
        <5> QED BY <5>1 DEF TypeOK, Job
      <4> QED BY <1>4, <4>2, <4>3, ReturnShape
    <3>3. \A q \in Procs \ {p} : job'[q] = job[q] /\ snap'[q] = snap[q] /\ draft'[q] = draft[q]
                                 /\ pc'[q] = pc[q]
      BY <1>4
         DEF Return, GetReturns, HtmlReturns, ClearReturns, RehashReturns, LoginReturns,
             PatchReturns, BootstrapReturns, RereadReturns, Reply, Submit, Retire, TypeOK
    <3>4. pc'[p] = "write" => draft'[p].secret # None /\ draft'[p].listen = row.listen
      BY <1>4, <2>1, SubmitKeeps
    <3>5. pc'[p] # "install"
      BY <1>4, ReturnShape DEF TypeOK
    <3> QED BY <2>0, <2>1, <3>1, <3>2, <3>3, <3>4, <3>5
  <2>2. CASE ~ready
    <3>1. job[p].op = "bootstrap" /\ \A q \in Procs \ {p} : pc[q] = "idle"
      BY <1>4, <2>2, ReturnShape
    <3>2. BootstrapReturns(p) \/ RereadReturns(p)
      BY <1>4, <3>1 DEF Return, GetReturns, HtmlReturns, ClearReturns, RehashReturns,
            LoginReturns, PatchReturns
    <3>3. CASE RereadReturns(p)
      BY <2>0, <2>2, <3>1, <3>3 DEF RereadReturns, Retire, TypeOK
    <3>4. CASE BootstrapReturns(p)
      <4>1. CASE ready' = TRUE /\ pc' = [pc EXCEPT ![p] = "idle"]
                 /\ row.secret # None /\ row.plain = None
        BY <2>0, <3>1, <4>1 DEF TypeOK
      <4>2. CASE /\ ready' = FALSE
                 /\ pc' = [pc EXCEPT ![p] = "write"]
                 /\ UNCHANGED <<job, snap>>
                 /\ draft'[p].secret # None
                 /\ row # DefaultAppConfig => /\ draft'[p].libs = row.libs
                                              /\ draft'[p].html = row.html
                                              /\ draft'[p].listen = row.listen
        BY <2>0, <3>1, <4>2 DEF TypeOK
      <4> QED BY <2>2, <3>4, <4>1, <4>2, BootstrapKeeps
    <3> QED BY <3>2, <3>3, <3>4
  <2> QED BY <2>1, <2>2
<1>5. ASSUME NEW p \in Procs, Commit(p)
      PROVE  /\ row'.plain = None
             /\ row'.secret = draft[p].secret
             /\ row'.listen = draft[p].listen
  BY <1>5, HashedIsConfig DEF Commit, TypeOK
<1>6. ASSUME NEW p \in Procs, UpdateConfig(p) PROVE StartInv'
  <2>0. UNCHANGED <<ready, legacy>>
    BY <1>6 DEF UpdateConfig, bounds
  <2>1. CASE Normalizes(draft[p]) /\ job[p].op \in {"patch", "bootstrap"}
    BY <1>5, <1>6, <2>0, <2>1 DEF UpdateConfig, TypeOK
  <2>2. CASE Normalizes(draft[p]) /\ job[p].op \notin {"patch", "bootstrap"}
    BY <1>5, <1>6, <2>0, <2>2 DEF UpdateConfig, Retire, TypeOK
  <2>3. CASE ~Normalizes(draft[p])
    BY <1>6, <2>0, <2>3, RetireKeepsStart DEF UpdateConfig
  <2> QED BY <2>1, <2>2, <2>3
<1>7. ASSUME NEW p \in Procs, DatabaseError(p) PROVE StartInv'
  BY <1>7, RetireKeepsStart DEF DatabaseError, Fail
<1>8. ASSUME NEW p \in Procs, AnswerLost(p) PROVE StartInv'
  BY <1>5, <1>8 DEF AnswerLost, Fail, Retire, TypeOK
<1>9. CASE Restart
  BY <1>9 DEF Restart
<1>10. CASE WriteLegacyPassword
  BY <1>10 DEF WriteLegacyPassword, locals, TypeOK, Config
<1>11. CASE UNCHANGED vars
  BY <1>11 DEF vars
<1> QED
  BY <1>1, <1>2, <1>3, <1>4, <1>6, <1>7, <1>8, <1>9, <1>10, <1>11 DEF Next, Step

LEMMA StartInvAlways == Spec => []StartInv
  BY StartInvInit, StartInvStep, Typing, PTL DEF Spec

\* While the plugin runs the stored configuration has a token secret.
THEOREM SecretIsKept == Spec => []SecretKept
<1>1. StartInv => SecretKept
  BY DEF StartInv, ReadyRow
<1> QED BY <1>1, StartInvAlways, PTL

\* A running plugin's row holds no plaintext password of its own making.
THEOREM NoPlaintextIsPersisted == Spec => []NoPlaintextPersisted
<1>1. StartInv => NoPlaintextPersisted
  BY DEF StartInv, ReadyRow
<1> QED BY <1>1, StartInvAlways, PTL

\* Steps of the handlers leave the listener alone, and a plugin start leaves
\* every operator setting alone, because nothing but Commit and the external
\* write touches the row.
LEMMA RowChanges ==
  ASSUME [Next]_vars
  PROVE  \/ row' = row
         \/ WriteLegacyPassword
         \/ \E p \in Procs : pc[p] = "write" /\ Commit(p)
  <1>1. ASSUME NEW p \in Procs, StartBootstrap(p) \/ StartGet(p) \/ StartWrite(p)
        PROVE  row' = row
    BY <1>1, StartShape
  <1>2. ASSUME NEW p \in Procs, GetConfig(p) PROVE row' = row
    BY <1>2 DEF GetConfig, SelectMissing, EnsureRow, SelectRow
  <1>3. ASSUME NEW p \in Procs, Return(p) PROVE row' = row
    BY <1>3 DEF Return, GetReturns, HtmlReturns, ClearReturns, RehashReturns, LoginReturns,
          PatchReturns, BootstrapReturns, RereadReturns
  <1>4. ASSUME NEW p \in Procs, UpdateConfig(p) \/ DatabaseError(p) \/ AnswerLost(p)
        PROVE  row' = row \/ (pc[p] = "write" /\ Commit(p))
    BY <1>4 DEF UpdateConfig, DatabaseError, AnswerLost
  <1>5. CASE Restart
    BY <1>5 DEF Restart
  <1>6. CASE UNCHANGED vars
    BY <1>6 DEF vars
  <1> QED BY <1>1, <1>2, <1>3, <1>4, <1>5, <1>6 DEF Next, Step

\* A step that ends a goroutine and changes the row is a write.
LEMMA RowWriters ==
  ASSUME TypeOK, [Next]_vars, row' # row, NEW p \in Procs, pc'[p] # pc[p]
  PROVE  \E q \in Procs : pc[q] = "write" /\ (UpdateConfig(q) \/ AnswerLost(q)) /\ Commit(q)
  <1>1. ASSUME NEW q \in Procs
        PROVE  ~(StartBootstrap(q) \/ StartGet(q) \/ StartWrite(q) \/ DatabaseError(q))
    BY StartShape DEF DatabaseError
  <1>2. ASSUME NEW q \in Procs PROVE ~GetConfig(q)
    BY DEF GetConfig, SelectMissing, EnsureRow, SelectRow
  <1>3. ASSUME NEW q \in Procs PROVE ~Return(q)
    BY ReturnShape
  <1>4. ~Restart /\ ~WriteLegacyPassword /\ ~(UNCHANGED vars)
    BY DEF Restart, WriteLegacyPassword, vars
  <1>5. PICK q \in Procs : UpdateConfig(q) \/ AnswerLost(q)
    BY <1>1, <1>2, <1>3, <1>4 DEF Next, Step
  <1> QED
    BY <1>5 DEF UpdateConfig, AnswerLost

LEMMA CommitKeeps ==
  ASSUME TypeOK, NEW p \in Procs, Commit(p)
  PROVE  /\ row'.libs = draft[p].libs
         /\ row'.html = draft[p].html
         /\ row'.listen = draft[p].listen
  BY HashedIsConfig DEF Commit, TypeOK

LEMMA LegacyKeeps ==
  ASSUME TypeOK, WriteLegacyPassword
  PROVE  ready /\ row'.listen = row.listen
  BY DEF WriteLegacyPassword, TypeOK, Config

\* No request changes the stored listener of a running plugin.
THEOREM ListenerIsFixed == Spec => ListenerFixed
<1>1. TypeOK /\ StartInv /\ [Next]_vars => [ready => row'.listen = row.listen]_vars
  <2> SUFFICES ASSUME TypeOK, StartInv, [Next]_vars, ready
               PROVE  row'.listen = row.listen
    OBVIOUS
  <2>1. ASSUME NEW p \in Procs, pc[p] = "write", Commit(p)
        PROVE  row'.listen = row.listen
    BY <2>1, CommitKeeps DEF StartInv, Copies
  <2> QED BY <2>1, RowChanges, LegacyKeeps
<1> QED BY <1>1, Typing, StartInvAlways, PTL DEF Spec, ListenerFixed

\* A plugin start imports manifest values over a default row only.
THEOREM ManifestSeedsDefaultsOnly == Spec => ManifestSeedsOnlyDefaults
<1> DEFINE Kept == ~ready /\ row # DefaultAppConfig =>
                      /\ row'.libs = row.libs
                      /\ row'.html = row.html
                      /\ row'.listen = row.listen
<1>1. TypeOK /\ StartInv /\ [Next]_vars => [Kept]_vars
  <2> SUFFICES ASSUME TypeOK, StartInv, [Next]_vars, ~ready, row # DefaultAppConfig
               PROVE  Kept
    OBVIOUS
  <2>1. ASSUME NEW p \in Procs, pc[p] = "write", Commit(p) PROVE Kept
    BY <2>1, CommitKeeps DEF StartInv, BootSteps
  <2> QED BY <2>1, RowChanges, LegacyKeeps
<1> QED BY <1>1, Typing, StartInvAlways, PTL DEF Spec, ManifestSeedsOnlyDefaults

-----------------------------------------------------------------------------
(* What the code does not keep holds of goroutines that take turns.        *)

OneAtATime == \A p, q \in Procs : pc[p] # "idle" /\ pc[q] # "idle" => p = q

\* What a goroutine alone has read is still so, and what it writes back without
\* a second read has the libraries that it read; the floor waits for a second
\* read only.
TurnsInv ==
    /\ Normalizes(row)
    /\ \A p \in Procs :
          /\ pc[p] \in {"install", "reinstall"} => snap[p].libs = row.libs
          /\ pc[p] = "write" /\ job[p].op \notin {"patch", "bootstrap"} => draft[p].libs = row.libs
    /\ \/ ready => floor = row.libs
       \/ \E p \in Procs : pc[p] \in {"reselect", "reinstall"}

\* Which operations write without a second read, and what.
LEMMA WriteShape ==
  ASSUME TypeOK, NEW p \in Procs, Return(p), pc'[p] = "write",
         job'[p].op \notin {"patch", "bootstrap"}
  PROVE  pc[p] = "install" /\ draft'[p].libs = snap[p].libs
  <1> USE DEF Reply, Submit, Installs, Retire
  <1>1. CASE GetReturns(p) \/ LoginReturns(p) \/ RereadReturns(p)
    BY <1>1 DEF GetReturns, LoginReturns, RereadReturns, TypeOK
  <1>2. CASE HtmlReturns(p)
    BY <1>2 DEF HtmlReturns, TypeOK, Config
  <1>3. CASE ClearReturns(p)
    BY <1>3 DEF ClearReturns, TypeOK, Config
  <1>4. CASE RehashReturns(p)
    BY <1>4 DEF RehashReturns, TypeOK, Config
  <1>5. CASE PatchReturns(p)
    BY <1>5 DEF PatchReturns, TypeOK
  <1>6. CASE BootstrapReturns(p)
    BY <1>6 DEF BootstrapReturns, TypeOK
  <1> QED
    BY <1>1, <1>2, <1>3, <1>4, <1>5, <1>6 DEF Return

\* A goroutine that returns from its read leaves the others where they were.
LEMMA ReturnsAlone ==
  ASSUME TypeOK, NEW p \in Procs, Return(p), NEW q \in Procs \ {p}
  PROVE  pc'[q] = pc[q] /\ job'[q] = job[q] /\ snap'[q] = snap[q] /\ draft'[q] = draft[q]
  BY DEF Return, GetReturns, HtmlReturns, ClearReturns, RehashReturns, LoginReturns,
         PatchReturns, BootstrapReturns, RereadReturns, Reply, Submit, Retire, TypeOK

LEMMA TurnsStep ==
  ASSUME TypeOK, TurnsInv, OneAtATime, [Next]_vars, faults' = 0
  PROVE  TurnsInv'
<1> USE DEF TurnsInv
<1>1. ASSUME NEW p \in Procs, StartBootstrap(p) \/ StartGet(p) \/ StartWrite(p) PROVE TurnsInv'
  <2>1. /\ UNCHANGED <<row, floor, ready, snap, draft>>
        /\ pc[p] = "idle" /\ \A q \in Procs : pc'[q] = IF q = p THEN "select" ELSE pc[q]
    BY <1>1, StartShape DEF TypeOK
  <2>2. \A q \in Procs \ {p} : job'[q] = job[q]
    BY <1>1 DEF StartBootstrap, StartGet, StartWrite, Begin, TypeOK
  <2> QED
    BY <2>1, <2>2
<1>2. ASSUME NEW p \in Procs, GetConfig(p) PROVE TurnsInv'
  <2>1. CASE SelectMissing(p) \/ EnsureRow(p)
    BY <2>1 DEF SelectMissing, EnsureRow, locals, TypeOK
  <2>2. CASE SelectRow(p)
    <3>1. /\ pc[p] \in {"select", "reselect"}
          /\ pc' = [pc EXCEPT ![p] = IF pc[p] = "select" THEN "install" ELSE "reinstall"]
          /\ snap' = [snap EXCEPT ![p] = row]
          /\ UNCHANGED <<row, floor, ready, job, draft>>
      BY <2>2 DEF SelectRow
    <3> QED
      BY <3>1 DEF TypeOK
  <2> QED
    BY <1>2, <2>1, <2>2 DEF GetConfig
<1>3. ASSUME NEW p \in Procs, Return(p) PROVE TurnsInv'
  <2>1. /\ floor' = snap[p].libs /\ snap[p].libs = row.libs /\ UNCHANGED row
        /\ pc'[p] \notin {"install", "reinstall"}
    BY <1>3, ReturnShape DEF TypeOK
  <2>2. pc[p] = "install" /\ pc'[p] = "write" /\ job'[p].op \notin {"patch", "bootstrap"}
           => draft'[p].libs = row.libs
    BY <1>3, <2>1, WriteShape
  <2>3. pc'[p] = "write" => pc[p] = "install"
    BY <1>3 DEF Return, GetReturns, HtmlReturns, ClearReturns, RehashReturns, LoginReturns,
                PatchReturns, BootstrapReturns, RereadReturns, Reply, Submit, Installs, Retire, TypeOK
  <2> QED
    BY <1>3, <2>1, <2>2, <2>3, ReturnsAlone
<1>4. ASSUME NEW p \in Procs, UpdateConfig(p) PROVE TurnsInv'
  <2>1. /\ pc[p] = "write" /\ \A q \in Procs \ {p} : pc[q] = "idle"
        /\ UNCHANGED <<floor, ready>> /\ (ready => floor = row.libs)
    BY <1>4 DEF UpdateConfig, OneAtATime
  <2>2. CASE ~Normalizes(draft[p])
    BY <1>4, <2>1, <2>2 DEF UpdateConfig, Retire, TypeOK
  <2>3. CASE Normalizes(draft[p])
    <3>1. Commit(p)
      BY <1>4, <2>3 DEF UpdateConfig
    <3>2. Normalizes(row')
      BY <2>3, <3>1, HashedIsConfig DEF Commit, Normalizes, TypeOK
    <3>3. CASE job[p].op \in {"patch", "bootstrap"}
      BY <1>4, <2>1, <2>3, <3>2, <3>3 DEF UpdateConfig, TypeOK
    <3>4. CASE job[p].op \notin {"patch", "bootstrap"}
      <4>1. row'.libs = row.libs
        BY <2>1, <3>1, <3>4, CommitKeeps
      <4>2. pc' = [pc EXCEPT ![p] = "idle"]
        BY <1>4, <2>3, <3>4 DEF UpdateConfig, Retire
      <4> QED
        BY <2>1, <3>2, <4>1, <4>2 DEF TypeOK
    <3> QED
      BY <3>3, <3>4
  <2> QED
    BY <2>2, <2>3
<1>5. ASSUME NEW p \in Procs PROVE ~DatabaseError(p) /\ ~AnswerLost(p)
  BY DEF DatabaseError, AnswerLost, Fail, TypeOK
<1>6. CASE Restart
  BY <1>6 DEF Restart
<1>7. CASE WriteLegacyPassword
  BY <1>7 DEF WriteLegacyPassword, locals, Normalizes, TypeOK, Config
<1>8. CASE UNCHANGED vars
  BY <1>8 DEF vars
<1> QED
  BY <1>1, <1>2, <1>3, <1>4, <1>5, <1>6, <1>7, <1>8 DEF Next, Step

\* If configuration calls take turns and none fails halfway, the floor is the
\* stored allowlist whenever none is in flight: a reader that is overtaken and
\* an answer that is lost are the only ways behind (config.go:43-46, 76-94).
THEOREM FloorLagsByOvertaking ==
  Spec => ([](OneAtATime /\ faults = 0) => []FloorExactWhenIdle)
<1>1. Init => TurnsInv
  BY DefaultIsConfig, ConfigAssumption DEF Init, TurnsInv
<1>2. TypeOK /\ TurnsInv /\ OneAtATime /\ (faults = 0)' /\ [Next]_vars => TurnsInv'
  BY TurnsStep
<1>3. TurnsInv => FloorExactWhenIdle
  BY DEF TurnsInv, FloorExactWhenIdle, Idle
<1> QED BY <1>1, <1>2, <1>3, Typing, PTL DEF Spec

\* A rehash of goroutines that take turns writes the password that the row has.
RehashInv ==
    \A p \in Procs :
        /\ pc[p] = "install" => snap[p] = row
        /\ pc[p] # "idle" /\ job[p].op = "rehash" =>
              /\ row.plain = job[p].pw
              /\ pc[p] = "write" => draft[p].hash = job[p].pw /\ draft[p].plain = None

\* Nobody writes to the row from outside while a goroutine is at it.
OutsideWhenIdle == legacy' # legacy => Idle

\* A login that becomes a rehash has found the password that the row has.
LEMMA RehashReturn ==
  ASSUME TypeOK, RehashInv, NEW p \in Procs, Return(p), pc'[p] # "idle",
         job'[p].op = "rehash"
  PROVE  /\ row.plain = job'[p].pw
         /\ pc'[p] = "write" => draft'[p].hash = job'[p].pw /\ draft'[p].plain = None
  <1> USE DEF Reply, Submit, Installs, Retire
  <1>1. CASE RehashReturns(p)
    BY <1>1 DEF RehashReturns, RehashInv, TypeOK, Config
  <1>2. CASE LoginReturns(p)
    <2>1. /\ pc[p] = "install" /\ pc' = [pc EXCEPT ![p] = "select"]
          /\ job' = [job EXCEPT ![p] = [job[p] EXCEPT !.op = "rehash"]]
          /\ VerifyCatalogPassword(snap[p], job[p].pw) = "rehash"
      BY <1>2 DEF LoginReturns, TypeOK
    <2>2. snap[p] = row /\ snap[p].plain = job[p].pw
      BY <2>1 DEF VerifyCatalogPassword, RehashInv
    <2> QED
      BY <2>1, <2>2 DEF TypeOK, Job
  <1>3. CASE GetReturns(p) \/ RereadReturns(p)
    BY <1>3 DEF GetReturns, RereadReturns, TypeOK
  <1>4. CASE HtmlReturns(p) \/ ClearReturns(p) \/ PatchReturns(p) \/ BootstrapReturns(p)
    BY <1>4 DEF HtmlReturns, ClearReturns, PatchReturns, BootstrapReturns, TypeOK
  <1> QED
    BY <1>1, <1>2, <1>3, <1>4 DEF Return

LEMMA RehashStep ==
  ASSUME TypeOK, RehashInv, OneAtATime, [Next]_vars, OutsideWhenIdle
  PROVE  RehashInv'
<1>1. ASSUME NEW p \in Procs, StartBootstrap(p) \/ StartGet(p) \/ StartWrite(p) PROVE RehashInv'
  <2>1. /\ UNCHANGED <<row, snap, draft>>
        /\ \A q \in Procs : pc'[q] = IF q = p THEN "select" ELSE pc[q]
    BY <1>1, StartShape DEF TypeOK
  <2>2. job'[p].op # "rehash" /\ \A q \in Procs \ {p} : job'[q] = job[q]
    <3>1. PICK op, body, pw, page : Begin(p, op, body, pw, page) /\ op # "rehash"
      <4>1. CASE StartBootstrap(p)
        BY <4>1 DEF StartBootstrap
      <4>2. CASE StartGet(p) \/ StartWrite(p)
        BY <4>2 DEF StartGet, StartWrite
      <4> QED BY <1>1, <4>1, <4>2
    <3> QED
      BY <3>1 DEF Begin, TypeOK
  <2> QED
    BY <2>1, <2>2 DEF RehashInv
<1>2. ASSUME NEW p \in Procs, GetConfig(p) PROVE RehashInv'
  <2>1. CASE SelectMissing(p) \/ EnsureRow(p)
    BY <2>1 DEF SelectMissing, EnsureRow, locals, TypeOK, RehashInv
  <2>2. CASE SelectRow(p) /\ Normalizes(row)
    <3>1. /\ pc[p] # "idle" /\ snap' = [snap EXCEPT ![p] = row]
          /\ \E next \in {"install", "reinstall"} : pc' = [pc EXCEPT ![p] = next]
          /\ UNCHANGED <<row, job, draft>>
      BY <2>2 DEF SelectRow
    <3> QED
      BY <3>1 DEF TypeOK, RehashInv
  <2>3. CASE SelectRow(p) /\ ~Normalizes(row)
    BY <2>3 DEF SelectRow, Retire, TypeOK, RehashInv
  <2> QED
    BY <1>2, <2>1, <2>2, <2>3 DEF GetConfig
<1>3. ASSUME NEW p \in Procs, Return(p) PROVE RehashInv'
  <2>1. UNCHANGED row /\ pc'[p] # "install"
    BY <1>3, ReturnShape DEF TypeOK
  <2>2. pc'[p] # "idle" /\ job'[p].op = "rehash" =>
           /\ row.plain = job'[p].pw
           /\ pc'[p] = "write" => draft'[p].hash = job'[p].pw /\ draft'[p].plain = None
    BY <1>3, RehashReturn
  <2> QED
    BY <1>3, <2>1, <2>2, ReturnsAlone DEF RehashInv
<1>4. ASSUME NEW p \in Procs, UpdateConfig(p) \/ DatabaseError(p) \/ AnswerLost(p)
      PROVE  RehashInv'
  <2>1. pc[p] # "idle" /\ \A q \in Procs \ {p} : pc[q] = "idle"
    BY <1>4 DEF UpdateConfig, DatabaseError, AnswerLost, OneAtATime
  <2>2. /\ \A q \in Procs \ {p} : pc'[q] = pc[q]
        /\ pc'[p] \in {"idle", "reselect"}
        /\ pc'[p] = "reselect" => job' = job /\ job[p].op \in {"patch", "bootstrap"}
    BY <1>4 DEF UpdateConfig, DatabaseError, AnswerLost, Fail, Retire, TypeOK
  <2> QED
    BY <2>1, <2>2 DEF RehashInv
<1>5. CASE Restart
  BY <1>5 DEF Restart, RehashInv
<1>6. CASE WriteLegacyPassword
  <2>1. Idle /\ pc' = pc
    BY <1>6 DEF WriteLegacyPassword, OutsideWhenIdle, TypeOK
  <2> QED
    BY <2>1 DEF Idle, RehashInv
<1>7. CASE UNCHANGED vars
  BY <1>7 DEF vars, RehashInv
<1> QED
  BY <1>1, <1>2, <1>3, <1>4, <1>5, <1>6, <1>7 DEF Next, Step

\* If goroutines take turns and outside writes wait for them, a rehash changes
\* no password: what puts an old one back is a write between the login and the
\* rehash's own (config.go:177-193, handlers_auth.go:79-86).
THEOREM RehashRevertsByOvertaking ==
  Spec => ([]OneAtATime /\ [][OutsideWhenIdle]_vars => RehashKeepsPassword)
<1> DEFINE Kept == \A p \in Procs :
                      pc[p] = "write" /\ pc'[p] = "idle" /\ job[p].op = "rehash" =>
                         Opens(row') \subseteq Opens(row)
<1>1. Init => RehashInv
  BY DEF Init, RehashInv
<1>2. TypeOK /\ RehashInv /\ OneAtATime /\ [Next]_vars /\ [OutsideWhenIdle]_vars => RehashInv'
  <2>1. UNCHANGED vars /\ RehashInv => RehashInv'
    BY DEF vars, RehashInv
  <2> QED BY <2>1, RehashStep
<1>3. TypeOK /\ RehashInv /\ [Next]_vars => [Kept]_vars
  <2> SUFFICES ASSUME TypeOK, RehashInv, [Next]_vars, NEW p \in Procs,
                      pc[p] = "write", pc'[p] = "idle", job[p].op = "rehash",
                      NEW pw \in Opens(row')
               PROVE  pw \in Opens(row)
    BY DEF Kept
  <2>1. /\ pw \in Passwords /\ row.plain = job[p].pw
        /\ draft[p].hash = job[p].pw /\ draft[p].plain = None
    BY DEF Opens, RehashInv
  <2>2. CASE row' = row
    BY <2>2
  <2>3. CASE row' # row
    <3>1. Commit(p)
      <4>1. PICK q \in Procs : pc[q] = "write" /\ (UpdateConfig(q) \/ AnswerLost(q)) /\ Commit(q)
        BY <2>3, RowWriters
      <4>2. q = p
        BY <4>1 DEF UpdateConfig, AnswerLost, Fail, Retire, TypeOK
      <4> QED BY <4>1, <4>2
    <3>2. row'.hash = job[p].pw /\ row'.plain = None
      BY <2>1, <3>1 DEF Commit, Hashed
    <3>3. pw = job[p].pw
      BY <2>1, <3>2, ConfigAssumption DEF Opens, VerifyCatalogPassword
    <3> QED
      BY <2>1, <3>3 DEF Opens, VerifyCatalogPassword
  <2> QED BY <2>2, <2>3
<1> HIDE DEF Kept
<1>4. RehashKeepsPassword <=> [][Kept]_vars
  BY DEF RehashKeepsPassword, Kept
<1> QED BY <1>1, <1>2, <1>3, <1>4, Typing, PTL DEF Spec
=============================================================================
