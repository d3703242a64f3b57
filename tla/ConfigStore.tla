---------------------------- MODULE ConfigStore ----------------------------
(***************************************************************************)
(* The singleton app_config row, the in-memory library floor that mirrors  *)
(* one of its fields, and everything that reads or writes them:            *)
(* internal/store/config.go, the allowlist half of internal/store/store.go,*)
(* the configuration handlers of internal/server/handlers_admin_api.go and *)
(* the login handler's use of the row (internal/server/handlers_auth.go).  *)
(*                                                                         *)
(* A process is one goroutine: a plugin start (Bootstrap), an HTTP request,*)
(* or the background rehash that a login leaves behind.  No lock spans a   *)
(* read and the write that follows it, so every database round trip and    *)
(* every installation of the floor is a step of its own.                   *)
(***************************************************************************)
EXTENDS Naturals, FiniteSets

CONSTANTS
    Procs,         \* goroutines that can be in flight at once
    Libraries,     \* host library ids
    Passwords,     \* catalog passwords
    Secrets,       \* token secrets of at least 32 characters
    ShortSecrets,  \* token secrets the normaliser refuses
    Pages,         \* landing page HTML
    Listeners,     \* standalone listener addresses
    None,          \* the empty string of a configuration field
    Manifests,     \* configurations the host may pass to Configure
    Patches,       \* bodies of PATCH /api/admin/config
    FirstRows,     \* rows the plugin may find at its very first start
    MaxWrites,     \* bound: write requests started
    MaxStarts,     \* bound: plugin starts
    MaxFaults,     \* bound: database errors
    MaxLegacy      \* bound: external writes of a plaintext password

Fields == {"libs", "required", "plain", "secret", "html", "listen"}

(***************************************************************************)
(* runtime.Config.  "plain" is CatalogPassword and "hash" the bcrypt hash  *)
(* of a password, written as the password it verifies.  "html" stands for  *)
(* published_html and for the other fields no code here branches on.       *)
(***************************************************************************)
Config ==
    [libs     : SUBSET Libraries,
     required : BOOLEAN,
     hash     : Passwords \cup {None},
     plain    : Passwords \cup {None},
     secret   : Secrets \cup ShortSecrets \cup {None},
     html     : Pages \cup {None},
     listen   : Listeners \cup {None}]

DefaultAppConfig ==
    [libs |-> {}, required |-> FALSE, hash |-> None, plain |-> None,
     secret |-> None, html |-> None, listen |-> None]

\* A JSON body names some fields; the others decode to their zero value.
Body == [sent : SUBSET Fields, val : Config]

NoBody == [sent |-> {}, val |-> DefaultAppConfig]

\* Mutant of Decode: a missing boolean stays null.
DecodeKeepsNull(body) ==
    [body.val EXCEPT !.required = IF "required" \in body.sent THEN @ ELSE None]

Decode(body) ==
    [libs     |-> IF "libs" \in body.sent THEN body.val.libs ELSE {},
     required |-> "required" \in body.sent /\ body.val.required,
     hash     |-> None,
     plain    |-> IF "plain" \in body.sent THEN body.val.plain ELSE None,
     secret   |-> IF "secret" \in body.sent THEN body.val.secret ELSE None,
     html     |-> IF "html" \in body.sent THEN body.val.html ELSE None,
     listen   |-> IF "listen" \in body.sent THEN body.val.listen ELSE None]

\* NormalizeAppConfig accepts the configuration.
Normalizes(cfg) == cfg.secret \notin ShortSecrets

ASSUME ConfigAssumption ==
    /\ None \notin Passwords \cup Secrets \cup ShortSecrets \cup Pages \cup Listeners
    /\ Secrets \cap ShortSecrets = {}
    /\ Secrets # {}
    /\ Patches \subseteq Body
    /\ Manifests \subseteq {m \in Config : Normalizes(m) /\ m.hash = None}
    /\ FirstRows \subseteq {r \in Config : Normalizes(r)}
    /\ {MaxWrites, MaxStarts, MaxFaults, MaxLegacy} \subseteq Nat

Ops == {"get", "patch", "html", "clear", "login", "rehash", "bootstrap"}

PCs == {"idle", "select", "ensure", "install", "write", "reselect", "reinstall"}

Job == [op : Ops, body : Body, pw : Passwords \cup {None}, page : Pages \cup {None}]

NoJob == [op |-> "get", body |-> NoBody, pw |-> None, page |-> None]

VARIABLES
    present,   \* the row exists
    row,       \* its decoded content
    ver,       \* how many times it was written (history)
    floor,     \* Store.publicLibraryIDs
    saved,     \* every allowlist the row has held (history)
    ready,     \* Bootstrap has returned and the handlers are installed
    pc, job,   \* per process: where it is and what it does
    snap, snapVer,  \* per process: the row it last read, and its version
    draft,     \* per process: the configuration it is about to write
    wrote,     \* per process: the version its own write produced (history)
    writes, starts, faults, legacy   \* counters of the bounds

vars == <<present, row, ver, floor, saved, ready, pc, job, snap, snapVer,
          draft, wrote, writes, starts, faults, legacy>>

bounds == <<writes, starts, faults, legacy>>
locals == <<job, snap, snapVer, draft, wrote>>

Idle == \A p \in Procs : pc[p] = "idle"

TypeOK ==
    /\ present \in BOOLEAN
    /\ row \in Config
    /\ ver \in Nat
    /\ floor \in SUBSET Libraries
    /\ saved \in SUBSET SUBSET Libraries
    /\ ready \in BOOLEAN
    /\ pc \in [Procs -> PCs]
    /\ job \in [Procs -> Job]
    /\ snap \in [Procs -> Config]
    /\ snapVer \in [Procs -> Nat]
    /\ draft \in [Procs -> Config]
    /\ wrote \in [Procs -> Nat]
    /\ writes \in Nat /\ starts \in Nat /\ faults \in Nat /\ legacy \in Nat

Init ==
    /\ \/ present = FALSE /\ row = DefaultAppConfig
       \/ present = TRUE /\ row \in FirstRows
    /\ ver = 0
    /\ floor = {}
    /\ saved = {row.libs}
    /\ ready = FALSE
    /\ pc = [p \in Procs |-> "idle"]
    /\ job = [p \in Procs |-> NoJob]
    /\ snap = [p \in Procs |-> DefaultAppConfig]
    /\ snapVer = [p \in Procs |-> 0]
    /\ draft = [p \in Procs |-> DefaultAppConfig]
    /\ wrote = [p \in Procs |-> 0]
    /\ writes = 0 /\ starts = 0 /\ faults = 0 /\ legacy = 0

-----------------------------------------------------------------------------
(* Arrival of work. *)

Begin(p, op, body, pw, page) ==
    /\ pc[p] = "idle"
    /\ pc' = [pc EXCEPT ![p] = "select"]
    /\ job' = [job EXCEPT ![p] = [op |-> op, body |-> body, pw |-> pw, page |-> page]]
    /\ UNCHANGED <<present, row, ver, floor, saved, ready, snap, snapVer, draft, wrote>>

\* The goroutine ends; what it held is gone.
Retire(p) ==
    /\ pc' = [pc EXCEPT ![p] = "idle"]
    /\ job' = [job EXCEPT ![p] = NoJob]
    /\ snap' = [snap EXCEPT ![p] = DefaultAppConfig]
    /\ snapVer' = [snapVer EXCEPT ![p] = 0]
    /\ draft' = [draft EXCEPT ![p] = DefaultAppConfig]
    /\ wrote' = [wrote EXCEPT ![p] = 0]

\* The host calls Configure and applyConfig runs Bootstrap on a fresh Store.
StartBootstrap(p) ==
    /\ ~ready /\ Idle
    /\ \E m \in Manifests :
          Begin(p, "bootstrap", [sent |-> Fields, val |-> m], None, None)
    /\ UNCHANGED bounds

\* A request that only reads: GET /api/admin/config, publishedHTML, and the
\* open-catalog check of a request that carries neither token nor cookie.
StartGet(p) ==
    /\ ready
    /\ Begin(p, "get", NoBody, None, None)
    /\ UNCHANGED bounds

\* A request that may end in a write.
StartWrite(p) ==
    /\ ready
    /\ writes < MaxWrites
    /\ writes' = writes + 1
    /\ \/ \E body \in Patches : Begin(p, "patch", body, None, None)
       \/ \E page \in Pages : Begin(p, "html", NoBody, None, page)
       \/ Begin(p, "clear", NoBody, None, None)
       \/ \E pw \in Passwords : Begin(p, "login", NoBody, pw, None)
    /\ UNCHANGED <<starts, faults, legacy>>

-----------------------------------------------------------------------------
(* Store.GetConfig: SELECT, creating the row when it is missing, and then  *)
(* the installation of the floor.                                          *)

\* The SELECT finds no row: INSERT ... DO NOTHING comes next, then a retry.
SelectMissing(p) ==
    /\ pc[p] = "select"
    /\ ~present
    /\ pc' = [pc EXCEPT ![p] = "ensure"]
    /\ UNCHANGED <<present, row, ver, floor, saved, ready, locals, bounds>>

EnsureRow(p) ==
    /\ pc[p] = "ensure"
    /\ present' = TRUE
    /\ pc' = [pc EXCEPT ![p] = "select"]
    /\ UNCHANGED <<row, ver, floor, saved, ready, locals, bounds>>

\* The SELECT returns the row.  A row the normaliser refuses fails the call.
SelectRow(p) ==
    /\ pc[p] \in {"select", "reselect"}
    /\ present
    /\ IF Normalizes(row)
       THEN /\ pc' = [pc EXCEPT ![p] = IF pc[p] = "select" THEN "install" ELSE "reinstall"]
            /\ snap' = [snap EXCEPT ![p] = row]
            /\ snapVer' = [snapVer EXCEPT ![p] = ver]
            /\ UNCHANGED <<job, draft, wrote>>
       ELSE Retire(p)
    /\ UNCHANGED <<present, row, ver, floor, saved, ready, bounds>>

\* Mutants of SetPublicLibraryIDs: the ids are added to the floor; the floor
\* is only installed while it is empty.
FloorGrows(p) == floor' = floor \cup snap[p].libs

FloorSetOnce(p) == floor' = IF floor = {} THEN snap[p].libs ELSE floor

\* SetPublicLibraryIDs with the configuration just read.
SetPublicLibraryIDs(p) == floor' = snap[p].libs

\* The first GetConfig of an operation returns: install the floor, then run
\* the caller up to its next database call or its reply.
Installs(p) ==
    /\ pc[p] = "install"
    /\ SetPublicLibraryIDs(p)

Reply(p) == Installs(p) /\ Retire(p)

Submit(p, cfg) ==
    /\ Installs(p)
    /\ pc' = [pc EXCEPT ![p] = "write"]
    /\ draft' = [draft EXCEPT ![p] = cfg]
    /\ UNCHANGED <<job, snap, snapVer, wrote>>

GetReturns(p) ==
    /\ job[p].op = "get"
    /\ Reply(p)
    /\ UNCHANGED <<present, row, ver, saved, ready, bounds>>

\* hSaveHTMLSection.
HtmlReturns(p) ==
    /\ job[p].op = "html"
    /\ Submit(p, [snap[p] EXCEPT !.html = job[p].page])
    /\ UNCHANGED <<present, row, ver, saved, ready, bounds>>

\* ClearCatalogPassword.
ClearReturns(p) ==
    /\ job[p].op = "clear"
    /\ Submit(p, [snap[p] EXCEPT !.hash = None, !.plain = None, !.required = FALSE])
    /\ UNCHANGED <<present, row, ver, saved, ready, bounds>>

\* RehashCatalogPassword.
RehashReturns(p) ==
    /\ job[p].op = "rehash"
    /\ Submit(p, [snap[p] EXCEPT !.hash = job[p].pw, !.plain = None])
    /\ UNCHANGED <<present, row, ver, saved, ready, bounds>>

\* VerifyCatalogPassword: the stored hash first, then a legacy plaintext.
VerifyCatalogPassword(cfg, pw) ==
    IF cfg.hash = pw THEN "ok"
    ELSE IF cfg.plain = pw THEN "rehash"
    ELSE "fail"

\* hCatalogLogin from GetConfig on.  After a plaintext match the reply is
\* sent and the goroutine lives on as the background rehash.
LoginReturns(p) ==
    LET verdict == VerifyCatalogPassword(snap[p], job[p].pw)
    IN  /\ job[p].op = "login"
        /\ IF snap[p].required /\ verdict = "rehash"
           THEN /\ Installs(p)
                /\ pc' = [pc EXCEPT ![p] = "select"]
                /\ job' = [job EXCEPT ![p].op = "rehash"]
                /\ UNCHANGED <<snap, snapVer, draft, wrote>>
           ELSE Reply(p)
        /\ UNCHANGED <<present, row, ver, saved, ready, bounds>>

\* Mutant of Merge: an empty secret is stored as it is.
MergeDropsSecret(cur, body) ==
    LET req == Decode(body)
    IN  [req EXCEPT !.hash = IF req.plain = None THEN cur.hash ELSE None]

\* hUpdateConfig between its two reads: an empty secret keeps the stored one,
\* no password keeps the stored hash, every other field is the decoded one.
Merge(cur, body) ==
    LET req == Decode(body)
    IN  [req EXCEPT !.secret = IF req.secret = None THEN cur.secret ELSE req.secret,
                    !.hash   = IF req.plain = None THEN cur.hash ELSE None]

\* Mutant of LiveListenerChange: the listener is not compared.
ListenerNotCompared(cur, next) == FALSE

LiveListenerChange(cur, next) == cur.listen # next.listen

PatchReturns(p) ==
    LET next == Merge(snap[p], job[p].body)
    IN  /\ job[p].op = "patch"
        /\ IF Normalizes(next) /\ ~LiveListenerChange(snap[p], next)
           THEN Submit(p, next)
           ELSE Reply(p)
        /\ UNCHANGED <<present, row, ver, saved, ready, bounds>>

\* Mutant of Hashed: the plaintext is stored beside its hash.
HashedBesidePlain(cfg) ==
    IF cfg.plain = None THEN cfg ELSE [cfg EXCEPT !.hash = cfg.plain]

\* A plaintext password becomes a hash; Bootstrap also turns protection on.
Hashed(cfg) ==
    IF cfg.plain = None THEN cfg
    ELSE [cfg EXCEPT !.hash = cfg.plain, !.plain = None]

HashedAndRequired(cfg) ==
    IF cfg.plain = None THEN cfg ELSE [Hashed(cfg) EXCEPT !.required = TRUE]

\* Mutant of BootstrapConfigs: any row without a secret counts as fresh.
SeedsUnkeyedRows(cur, manifest) ==
    LET seeded == IF cur.secret = None THEN HashedAndRequired(manifest) ELSE cur
    IN  {[seeded EXCEPT !.secret = IF @ = None THEN s ELSE @] : s \in Secrets}

\* Bootstrap's candidate configurations: the manifest only over a row that
\* still equals the defaults, a generated secret only where there is none.
BootstrapConfigs(cur, manifest) ==
    LET seeded == IF cur = DefaultAppConfig THEN HashedAndRequired(manifest) ELSE cur
        keyed  == IF seeded.secret # None THEN {seeded}
                  ELSE {[seeded EXCEPT !.secret = s] : s \in Secrets}
    IN  {HashedAndRequired(cfg) : cfg \in keyed}

BootstrapReturns(p) ==
    /\ job[p].op = "bootstrap"
    /\ \E cfg \in BootstrapConfigs(snap[p], job[p].body.val) :
          IF cfg # snap[p]
          THEN Submit(p, cfg) /\ UNCHANGED ready
          ELSE Reply(p) /\ ready' = TRUE
    /\ UNCHANGED <<present, row, ver, saved, bounds>>

\* The second GetConfig of hUpdateConfig and of Bootstrap returns.
RereadReturns(p) ==
    /\ pc[p] = "reinstall"
    /\ SetPublicLibraryIDs(p)
    /\ Retire(p)
    /\ ready' = (ready \/ job[p].op = "bootstrap")
    /\ UNCHANGED <<present, row, ver, saved, bounds>>

-----------------------------------------------------------------------------
(* Store.UpdateConfig: hash a plaintext password, then upsert the whole row.*)

Commit(p) ==
    LET next == Hashed(draft[p])
    IN  /\ present' = TRUE
        /\ row' = next
        /\ ver' = ver + 1
        /\ saved' = saved \cup {next.libs}

\* Mutant of UpdateConfig: the earlier read is used as if it were the second
\* one.
RereadIsOld(p) ==
    /\ pc[p] = "write"
    /\ Commit(p)
    /\ pc' = [pc EXCEPT ![p] = "reinstall"]
    /\ wrote' = [wrote EXCEPT ![p] = ver + 1]
    /\ UNCHANGED <<floor, ready, job, snap, snapVer, draft, bounds>>

\* A configuration the normaliser refuses is not stored.
UpdateConfig(p) ==
    /\ pc[p] = "write"
    /\ IF Normalizes(draft[p])
       THEN /\ Commit(p)
            /\ IF job[p].op \in {"patch", "bootstrap"}
               THEN /\ pc' = [pc EXCEPT ![p] = "reselect"]
                    /\ wrote' = [wrote EXCEPT ![p] = ver + 1]
                    /\ UNCHANGED <<job, snap, snapVer, draft>>
               ELSE Retire(p)
       ELSE /\ Retire(p)
            /\ UNCHANGED <<present, row, ver, saved>>
    /\ UNCHANGED <<floor, ready, bounds>>

-----------------------------------------------------------------------------
(* Failures. *)

Fail(p) ==
    /\ faults < MaxFaults
    /\ faults' = faults + 1
    /\ Retire(p)
    /\ UNCHANGED <<floor, ready, writes, starts, legacy>>

\* A database call fails and changes nothing.
DatabaseError(p) ==
    /\ pc[p] \in {"select", "ensure", "write", "reselect"}
    /\ Fail(p)
    /\ UNCHANGED <<present, row, ver, saved>>

\* The upsert commits but its answer is lost.
AnswerLost(p) ==
    /\ pc[p] = "write" /\ Normalizes(draft[p])
    /\ Commit(p)
    /\ Fail(p)

\* The plugin process ends and is started again: goroutines and floor go.
Restart ==
    /\ starts < MaxStarts
    /\ starts' = starts + 1
    /\ floor' = {}
    /\ ready' = FALSE
    /\ pc' = [p \in Procs |-> "idle"]
    /\ job' = [p \in Procs |-> NoJob]
    /\ snap' = [p \in Procs |-> DefaultAppConfig]
    /\ snapVer' = [p \in Procs |-> 0]
    /\ draft' = [p \in Procs |-> DefaultAppConfig]
    /\ wrote' = [p \in Procs |-> 0]
    /\ UNCHANGED <<present, row, ver, saved, writes, faults, legacy>>

\* EXTERNAL: somebody puts a plaintext password into the live row with SQL
\* (docs/debugging.md, "Legacy plaintext lingering").
WriteLegacyPassword ==
    /\ ready /\ present
    /\ legacy < MaxLegacy
    /\ legacy' = legacy + 1
    /\ \E pw \in Passwords : row' = [row EXCEPT !.plain = pw]
    /\ ver' = ver + 1
    /\ UNCHANGED <<present, floor, saved, ready, pc, locals, writes, starts, faults>>

GetConfig(p) == SelectMissing(p) \/ EnsureRow(p) \/ SelectRow(p)

Return(p) ==
    \/ GetReturns(p) \/ HtmlReturns(p) \/ ClearReturns(p) \/ RehashReturns(p)
    \/ LoginReturns(p) \/ PatchReturns(p) \/ BootstrapReturns(p) \/ RereadReturns(p)

Step(p) == GetConfig(p) \/ Return(p) \/ UpdateConfig(p)

Next ==
    \/ \E p \in Procs :
          \/ StartBootstrap(p) \/ StartGet(p) \/ StartWrite(p)
          \/ Step(p)
          \/ DatabaseError(p) \/ AnswerLost(p)
    \/ Restart
    \/ WriteLegacyPassword

Spec == Init /\ [][Next]_vars

(* A goroutine that can take a step takes it; the host retries Configure    *)
(* until the plugin runs; anonymous landing hits keep reading the row.      *)
Fairness ==
    \A p \in Procs :
        /\ WF_vars(Step(p))
        /\ WF_vars(StartBootstrap(p))
        /\ WF_vars(StartGet(p))

FairSpec == Spec /\ Fairness

-----------------------------------------------------------------------------
(* Properties. *)

\* A plaintext password never survives a write: once the plugin runs, the row
\* holds one only if it was put there from outside (config.go:50-53, 140-150).
NoPlaintextPersisted == ready /\ legacy = 0 => row.plain = None

\* The token secret that sessions and links are signed with is never lost:
\* every handler writes the whole row back, from a read that may be old
\* (config.go:128-138, handlers_admin_api.go:204-206).
SecretKept == ready => row.secret # None

\* The floor is always an allowlist that was stored, or empty: never a list
\* from a request that was refused or whose write failed, and never a mixture
\* of two (config.go:43-46, store.go:44-53).
FloorWasSaved == floor \in saved \cup {{}}

\* The configuration PATCH answers with reflects the caller's own write, or a
\* later one (handlers_admin_api.go:222-231).
PatchSeesItsWrite == \A p \in Procs : pc[p] = "reinstall" => snapVer[p] >= wrote[p]

\* With no configuration call in flight, catalog queries are scoped by the
\* allowlist that is stored (config.go:43-45: "so catalog queries can never
\* lag behind an operator allowlist edit").
FloorExactWhenIdle == ready /\ Idle => floor = row.libs

\* While the plugin runs, no request changes the stored listener: the PATCH
\* guard compares with a read that may be old (handlers_admin_api.go:218-221).
ListenerFixed == [][ready => row'.listen = row.listen]_vars

\* A plugin start imports manifest values over a row at its defaults only:
\* what the operator stored outlives a restart (config.go:109-126).
ManifestSeedsOnlyDefaults ==
    [][~ready /\ row # DefaultAppConfig =>
          /\ row'.libs = row.libs
          /\ row'.html = row.html
          /\ row'.listen = row.listen]_vars

\* Once the operator stops editing, reads of the configuration bring the
\* floor to the stored allowlist and keep it there (config.go:43-46).
FloorFollowsRow == <>[](ready /\ floor = row.libs)

\* The background rehash makes the row accept no password it had stopped
\* accepting: it upgrades storage and changes no password (config.go:177-179).
Opens(cfg) == {pw \in Passwords : VerifyCatalogPassword(cfg, pw) # "fail"}

RehashKeepsPassword ==
    [][\A p \in Procs :
          pc[p] = "write" /\ pc'[p] = "idle" /\ job[p].op = "rehash" =>
             Opens(row') \subseteq Opens(row)]_vars
=============================================================================
