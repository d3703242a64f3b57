----------------------------- MODULE Lifecycle -----------------------------
(***************************************************************************)
(* The plugin process: the Configure RPC (internal/runtime/runtime.go) and *)
(* applyConfig behind it (cmd/.../main.go), the handler it swaps into the  *)
(* adapter (internal/httproutes/server.go), the connection pools it opens  *)
(* and closes, the standalone listener it binds once, and the requests     *)
(* that run meanwhile.                                                     *)
(*                                                                         *)
(* Every call of Configure makes a generation: a pool, a Store on it, and  *)
(* a handler that captured both and the token secret of that moment.  A    *)
(* request stays with the generation it loaded.                            *)
(***************************************************************************)
EXTENDS Naturals

CONSTANTS
    Calls,         \* Configure calls the host may have in flight
    Requests,      \* HTTP requests in flight
    Databases,     \* values of database_url
    Addrs,         \* standalone listener addresses
    None,          \* no address
    MaxCalls,      \* bound: Configure calls
    MaxRotations   \* bound: changes of the stored token secret

ASSUME LifecycleAssumption ==
    /\ None \notin Addrs
    /\ Databases # {}
    /\ MaxCalls \in Nat /\ MaxRotations \in Nat

Gens == 1..MaxCalls

\* What app_config holds of interest here.  A fresh row is at its defaults.
Row == [fresh : BOOLEAN, listen : Addrs \cup {None}, secret : Nat]

\* The configuration a generation was built from.
Deps == [db : Databases, listen : Addrs \cup {None}, secret : Nat]

NoDeps == [db |-> CHOOSE d \in Databases : TRUE, listen |-> None, secret |-> 0]

VARIABLES
    row,        \* per database: its configuration row
    made,       \* generations made so far
    deps,       \* per generation: server.Deps
    pool,       \* per generation: its pgxpool.Pool
    handler,    \* httproutes.Server.handler: a generation, 0 for nil
    current,    \* poolPtr: a generation, 0 for nil
    bindDone,   \* standaloneOnce has run
    addr,       \* standaloneAddr
    listener,   \* what became of the standalone listener
    signalled,  \* the signal goroutine has run
    cpc, cgen,  \* per Configure call: where it is and what it makes
    old,        \* ... and the pool it swapped out
    rpc, rgen   \* per request: where it is and the handler it runs in

configured == <<row, made, deps, handler, current, bindDone, addr, listener, signalled>>
calls == <<cpc, cgen, old>>
requests == <<rpc, rgen>>
vars == <<row, made, deps, pool, handler, current, bindDone, addr, listener,
          signalled, cpc, cgen, old, rpc, rgen>>

CallPCs == {"idle", "migrate", "bootstrap", "install", "listen", "swap", "close", "closing"}

TypeOK ==
    /\ row \in [Databases -> Row]
    /\ made \in 0..MaxCalls
    /\ deps \in [Gens -> Deps]
    /\ pool \in [Gens -> {"none", "open", "closed"}]
    /\ handler \in 0..MaxCalls /\ current \in 0..MaxCalls
    /\ bindDone \in BOOLEAN
    /\ addr \in Addrs \cup {None}
    /\ listener \in {"none", "serving", "drained"}
    /\ signalled \in BOOLEAN
    /\ cpc \in [Calls -> CallPCs]
    /\ cgen \in [Calls -> 0..MaxCalls]
    /\ old \in [Calls -> 0..MaxCalls]
    /\ rpc \in [Requests -> {"idle", "running", "querying"}]
    /\ rgen \in [Requests -> 0..MaxCalls]
    /\ \A r \in Requests : rpc[r] # "idle" => pool[rgen[r]] # "none"

Init ==
    /\ row \in [Databases -> {[fresh |-> TRUE, listen |-> None, secret |-> 0]} \cup
                             {[fresh |-> FALSE, listen |-> a, secret |-> 1] : a \in Addrs}]
    /\ made = 0
    /\ deps = [g \in Gens |-> NoDeps]
    /\ pool = [g \in Gens |-> "none"]
    /\ handler = 0 /\ current = 0
    /\ bindDone = FALSE /\ addr = None /\ listener = "none"
    /\ signalled = FALSE
    /\ cpc = [c \in Calls |-> "idle"]
    /\ cgen = [c \in Calls |-> 0]
    /\ old = [c \in Calls |-> 0]
    /\ rpc = [r \in Requests |-> "idle"]
    /\ rgen = [r \in Requests |-> 0]

-----------------------------------------------------------------------------
(* Configure and applyConfig. *)

Goto(c, here, next) == cpc[c] = here /\ cpc' = [cpc EXCEPT ![c] = next]

\* Configure returns, with an error or without.
Return(c, here) ==
    /\ Goto(c, here, "idle")
    /\ cgen' = [cgen EXCEPT ![c] = 0]
    /\ old' = [old EXCEPT ![c] = 0]

\* The host calls Configure.
Configure(c) ==
    /\ Goto(c, "idle", "migrate")
    /\ made < MaxCalls
    /\ made' = made + 1
    /\ cgen' = [cgen EXCEPT ![c] = made + 1]
    /\ \E db \in Databases, a \in Addrs \cup {None} :
          deps' = [deps EXCEPT ![made + 1] = [db |-> db, listen |-> a, secret |-> 0]]
    /\ UNCHANGED <<row, pool, handler, current, bindDone, addr, listener, signalled, old, requests>>

\* A configuration that is refused, a migration that fails, a bad DSN.
ConfigureFails(c) ==
    /\ Return(c, "migrate")
    /\ UNCHANGED <<configured, pool, requests>>

\* Mutant of OpenPool: no pool is made.
OpenNoPool(c) ==
    /\ Goto(c, "migrate", "bootstrap")
    /\ UNCHANGED <<configured, pool, cgen, old, requests>>

\* migrate.Run and pgxpool.NewWithConfig.
OpenPool(c) ==
    /\ Goto(c, "migrate", "bootstrap")
    /\ pool' = [pool EXCEPT ![cgen[c]] = "open"]
    /\ UNCHANGED <<configured, cgen, old, requests>>

\* What Bootstrap makes of the row: the manifest's listener and a new secret
\* if it was at its defaults (ConfigStore has the steps).
Bootstrapped(d) ==
    IF row[d.db].fresh THEN [fresh |-> FALSE, listen |-> d.listen, secret |-> 1] ELSE row[d.db]

Bootstrap(c) ==
    LET d == deps[cgen[c]]
        r == Bootstrapped(d)
    IN  /\ Goto(c, "bootstrap", "install")
        /\ row' = [row EXCEPT ![d.db] = r]
        /\ deps' = [deps EXCEPT ![cgen[c]] = [db |-> d.db, listen |-> r.listen, secret |-> r.secret]]
        /\ UNCHANGED <<made, pool, handler, current, bindDone, addr, listener, signalled,
                       cgen, old, requests>>

\* Bootstrap fails, before or after its write; the new pool is closed.
BootstrapFails(c) ==
    LET d == deps[cgen[c]]
    IN  /\ Return(c, "bootstrap")
        /\ row' \in {row, [row EXCEPT ![d.db] = Bootstrapped(d)]}
        /\ pool' = [pool EXCEPT ![cgen[c]] = "closed"]
        /\ UNCHANGED <<made, deps, handler, current, bindDone, addr, listener, signalled, requests>>

\* httpSrv.SetHandler(server.New(...)).
SetHandler(c) ==
    /\ Goto(c, "install", IF deps[cgen[c]].listen = None THEN "swap" ELSE "listen")
    /\ handler' = cgen[c]
    /\ UNCHANGED <<row, made, deps, pool, current, bindDone, addr, listener, signalled,
                   cgen, old, requests>>

\* standaloneOnce.Do: the first call to get here binds, and the others wait.
Bind(c) ==
    /\ Goto(c, "listen", "swap")
    /\ ~bindDone
    /\ bindDone' = TRUE
    /\ addr' = deps[cgen[c]].listen
    /\ listener' = "serving"
    /\ UNCHANGED <<row, made, deps, pool, handler, current, signalled, cgen, old, requests>>

BindFails(c) ==
    /\ Return(c, "listen")
    /\ ~bindDone
    /\ bindDone' = TRUE
    /\ UNCHANGED <<row, made, deps, pool, handler, current, addr, listener, signalled, requests>>

\* Mutant of SameAddr: any address will do.
AnyAddr(c) == TRUE

SameAddr(c) == addr = deps[cgen[c]].listen

KeepListener(c) ==
    /\ Goto(c, "listen", "swap")
    /\ bindDone /\ SameAddr(c)
    /\ UNCHANGED <<configured, pool, cgen, old, requests>>

\* "... change from ... to ... requires a plugin restart".
RefuseChange(c) ==
    /\ Return(c, "listen")
    /\ bindDone /\ ~SameAddr(c)
    /\ UNCHANGED <<configured, pool, requests>>

\* Mutant of SwapPool: the pool is stored but the one before is forgotten.
SwapPoolForgets(c) ==
    /\ Return(c, "swap")
    /\ current' = cgen[c]
    /\ UNCHANGED <<row, made, deps, pool, handler, bindDone, addr, listener, signalled, requests>>

\* poolPtr.Swap.
SwapPool(c) ==
    /\ IF current = 0
       THEN Return(c, "swap")
       ELSE /\ Goto(c, "swap", "close")
            /\ old' = [old EXCEPT ![c] = current]
            /\ UNCHANGED cgen
    /\ current' = cgen[c]
    /\ UNCHANGED <<row, made, deps, pool, handler, bindDone, addr, listener, signalled, requests>>

\* Mutants of ClosePool: the pool that was just opened is closed; the old one
\* is left open until nobody uses it.
CloseNewPool(c) ==
    /\ Goto(c, "close", "closing")
    /\ pool' = [pool EXCEPT ![cgen[c]] = "closed"]
    /\ UNCHANGED <<configured, cgen, old, requests>>

CloseWhenUnused(c) ==
    /\ Goto(c, "close", "closing")
    /\ UNCHANGED <<configured, pool, cgen, old, requests>>

\* old.Close: no more connections are handed out ...
ClosePool(c) ==
    /\ Goto(c, "close", "closing")
    /\ pool' = [pool EXCEPT ![old[c]] = "closed"]
    /\ UNCHANGED <<configured, cgen, old, requests>>

\* ... and the call waits for those that are.
PoolClosed(c) ==
    /\ Return(c, "closing")
    /\ \A r \in Requests : ~(rpc[r] = "querying" /\ rgen[r] = old[c])
    /\ UNCHANGED <<configured, pool, requests>>

-----------------------------------------------------------------------------
(* Requests, and what else happens. *)

\* ServeHTTP and Handle answer 503 before the first handler is installed ...
NotReady(r) == rpc[r] = "idle" /\ handler = 0 /\ UNCHANGED vars

\* ... and load it from then on.
Arrive(r) ==
    /\ rpc[r] = "idle" /\ handler # 0
    /\ rpc' = [rpc EXCEPT ![r] = "running"]
    /\ rgen' = [rgen EXCEPT ![r] = handler]
    /\ UNCHANGED <<configured, pool, calls>>

\* The handler makes a database call.
Acquire(r) ==
    /\ rpc[r] = "running" /\ pool[rgen[r]] = "open"
    /\ rpc' = [rpc EXCEPT ![r] = "querying"]
    /\ UNCHANGED <<configured, pool, calls, rgen>>

QueryReturns(r) ==
    /\ rpc[r] = "querying"
    /\ rpc' = [rpc EXCEPT ![r] = "running"]
    /\ UNCHANGED <<configured, pool, calls, rgen>>

\* The answer; a database call on a closed pool ends in one too.
Reply(r) ==
    /\ rpc[r] = "running"
    /\ rpc' = [rpc EXCEPT ![r] = "idle"]
    /\ rgen' = [rgen EXCEPT ![r] = 0]
    /\ UNCHANGED <<configured, pool, calls>>

\* PATCH /api/admin/config stores a new token secret through the handler's
\* store.
RotateSecret(r) ==
    LET db == deps[rgen[r]].db
    IN  /\ rpc[r] = "querying"
        /\ row[db].secret <= MaxRotations
        /\ row' = [row EXCEPT ![db].secret = row[db].secret + 1]
        /\ rpc' = [rpc EXCEPT ![r] = "running"]
        /\ UNCHANGED <<made, deps, pool, handler, current, bindDone, addr, listener, signalled,
                       calls, rgen>>

\* SIGTERM or an interrupt: the standalone listener, if there is one by then,
\* is shut down.
Signal ==
    /\ ~signalled
    /\ signalled' = TRUE
    /\ listener' = IF listener = "serving" THEN "drained" ELSE listener
    /\ UNCHANGED <<row, made, deps, pool, handler, current, bindDone, addr, calls, requests>>

Advance(c) ==
    \/ ConfigureFails(c) \/ OpenPool(c) \/ Bootstrap(c) \/ BootstrapFails(c) \/ SetHandler(c)
    \/ Bind(c) \/ BindFails(c) \/ KeepListener(c) \/ RefuseChange(c)
    \/ SwapPool(c) \/ ClosePool(c) \/ PoolClosed(c)

Next ==
    \/ \E c \in Calls : Configure(c) \/ Advance(c)
    \/ \E r \in Requests :
          \/ NotReady(r) \/ Arrive(r)
          \/ Acquire(r) \/ QueryReturns(r) \/ RotateSecret(r) \/ Reply(r)
    \/ Signal

Spec == Init /\ [][Next]_vars

\* Goroutines run and the database answers; the host need not call again.
Fairness ==
    /\ \A c \in Calls : WF_vars(Advance(c))
    /\ \A r \in Requests : WF_vars(QueryReturns(r)) /\ WF_vars(Reply(r))

FairSpec == Spec /\ Fairness

-----------------------------------------------------------------------------
(* Properties. *)

\* Configures take turns from SetHandler to the swap.
Installing == {"listen", "swap"}

Orderly == \A c, d \in Calls : cpc[c] \in Installing /\ cpc[d] \in Installing => c = d

\* The pool of the installed handler can be asked.
HandlerReady == handler # 0 => pool[handler] = "open"

\* A request that arrives finds a handler whose pool is open, whatever Configures
\* failed before or overlap, as long as they take turns from SetHandler to the
\* swap: a pool is closed only once no new request can load its handler
\* (main.go:79-93, 163-165).
HandlerPoolOpen == []Orderly => []HandlerReady

\* A Configure that succeeds leaves the standalone listener on the address of
\* the stored configuration (main.go:108-162).
Succeeds(c) == /\ cpc[c] \in {"swap", "closing"}
               /\ cpc'[c] = "idle"

SuccessMeansBound ==
    [][\A c \in Calls : Succeeds(c) =>
          LET a == deps[cgen[c]].listen IN a = None \/ (addr = a /\ listener # "none")]_vars

\* The pools of Configures that succeeded are closed but for the last: only
\* one that failed after installing its handler leaves another open
\* (main.go:146-165).
SucceededPoolsClosed ==
    [][\A c \in Calls : Succeeds(c) =>
          \A g \in Gens : g = current \/ g = old[c] => (pool[g] = "open" <=> g = current')]_vars

\* Pools are neither lost nor closed under the one who relies on them, though
\* Configures overlap: the current pool is open, and another that is open is yet
\* to become current or about to be closed, unless it has a listener, whose
\* failure returns before the swap (main.go:66-165).
PoolsBalance ==
    /\ current # 0 => pool[current] = "open"
    /\ \A g \in Gens : pool[g] = "open" =>
          \/ g = current
          \/ \E c \in Calls : cgen[c] = g /\ cpc[c] \in {"bootstrap", "install", "listen", "swap"}
          \/ \E c \in Calls : old[c] = g
          \/ deps[g].listen # None

\* Every Configure returns: the close that ends it waits only for queries that
\* are running, and none can follow them (main.go:163-165).
ConfigureReturns == \A c \in Calls : cpc[c] # "idle" ~> cpc[c] = "idle"
=============================================================================
