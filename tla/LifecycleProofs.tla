-------------------------- MODULE LifecycleProofs --------------------------
(***************************************************************************)
(* Proofs about Lifecycle for any number of Configures at a time, any      *)
(* number of requests, databases and addresses.                            *)
(*                                                                         *)
(* Calls that overlap put no order on the generations.  Accounts says      *)
(* instead whose each is: the pools that calls make and close are all      *)
(* different, and none is closed before the call that makes it has swapped *)
(* it in.  Types, the listener and what success means follow from it.      *)
(*                                                                         *)
(* HandlerReady does not: two calls may install their handlers in one      *)
(* order and swap their pools in the other.  It is proved of a host whose  *)
(* Configures take turns at these two steps (Orderly).                     *)
(***************************************************************************)
EXTENDS Lifecycle, TLAPS

LEMMA GensFacts == Gens \subseteq Nat /\ 0 \notin Gens /\ MaxCalls \in Nat
  BY LifecycleAssumption DEF Gens

-----------------------------------------------------------------------------
(* Whose each pool is. *)

Ahead == {"migrate", "bootstrap", "install", "listen", "swap"}

PoolTypes ==
    /\ made \in 0..MaxCalls /\ current \in 0..made
    /\ DOMAIN deps = Gens
    /\ pool \in [Gens -> {"none", "open", "closed"}]
    /\ cpc \in [Calls -> CallPCs]
    /\ cgen \in [Calls -> 0..made]
    /\ old \in [Calls -> 0..made]

\* What a call makes and closes.
OwnInv ==
    \A c \in Calls :
        /\ cpc[c] # "idle" => cgen[c] # 0
        /\ cpc[c] = "migrate" => pool[cgen[c]] = "none"
        /\ cpc[c] \in Ahead \ {"migrate"} => pool[cgen[c]] = "open"
        /\ cpc[c] = "listen" => deps[cgen[c]].listen # None
        /\ cpc[c] \in Ahead => cgen[c] # current
        /\ cpc[c] \in {"close", "closing"} <=> old[c] # 0
        /\ old[c] # 0 => old[c] # current
        /\ cpc[c] = "closing" => pool[old[c]] = "closed"

\* Two calls make and close different pools, and none closes what another has
\* yet to install.
ApartInv ==
    \A c, d \in Calls :
        /\ c # d /\ cgen[c] = cgen[d] => cgen[c] = 0
        /\ c # d /\ old[c] = old[d] => old[c] = 0
        /\ cpc[c] \in Ahead => old[d] # cgen[c]

FreshInv == \A g \in Gens : g > made => pool[g] = "none"

Accounts == PoolTypes /\ OwnInv /\ ApartInv /\ FreshInv /\ PoolsBalance

\* A new call makes a new generation.
LEMMA ConfigureAccounts ==
    ASSUME Accounts, NEW c \in Calls, Configure(c)
    PROVE  Accounts'
<1>1. cpc[c] = "idle" /\ cpc' = [cpc EXCEPT ![c] = "migrate"] /\ cgen' = [cgen EXCEPT ![c] = made + 1]
  BY DEF Configure, Goto
<1>2. made' = made + 1 /\ made + 1 \in Gens /\ made \in Nat /\ UNCHANGED <<pool, current, old>>
  BY GensFacts DEF Configure, Accounts, PoolTypes, Gens
<1>3. DOMAIN deps' = Gens /\ \A g \in Gens : g # made + 1 => deps'[g] = deps[g]
  BY DEF Configure, Accounts, PoolTypes
<1>4. PoolTypes'
  BY <1>1, <1>2, <1>3, GensFacts DEF Accounts, PoolTypes, CallPCs, Gens
<1>5. pool[made + 1] = "none" /\ FreshInv'
  BY <1>2 DEF Accounts, FreshInv, Gens
<1>6. OwnInv'
  <2>1. ASSUME NEW d \in Calls, cpc[d] = "listen" PROVE cgen[d] \in Gens /\ cgen[d] # made + 1
    BY <1>2, <2>1, GensFacts DEF Accounts, PoolTypes, OwnInv, Gens
  <2> QED
    BY <1>1, <1>2, <1>3, <1>5, <2>1 DEF Accounts, PoolTypes, OwnInv, Ahead
<1>7. ApartInv'
  BY <1>1, <1>2 DEF Accounts, PoolTypes, ApartInv, Ahead
<1>8. PoolsBalance'
  BY <1>1, <1>2, <1>3, <1>5 DEF Accounts, PoolTypes, PoolsBalance
<1> QED
  BY <1>4, <1>5, <1>6, <1>7, <1>8 DEF Accounts

\* A call returns before it has swapped: its pool was not made, is closed, or
\* has a listener.
LEMMA FailureAccounts ==
    ASSUME Accounts, NEW c \in Calls, NEW here \in Ahead, Return(c, here),
           UNCHANGED <<made, deps, current>>,
           \/ here = "migrate" /\ pool' = pool
           \/ here = "listen" /\ pool' = pool
           \/ here = "bootstrap" /\ pool' = [pool EXCEPT ![cgen[c]] = "closed"]
    PROVE  Accounts'
<1>1. /\ cpc[c] = here /\ cpc' = [cpc EXCEPT ![c] = "idle"]
      /\ cgen' = [cgen EXCEPT ![c] = 0] /\ old' = [old EXCEPT ![c] = 0]
  BY DEF Return, Goto
<1>2. cgen[c] \in Gens /\ cgen[c] # current /\ cgen[c] <= made /\ old[c] = 0 /\ made \in Nat
  <2>1. cpc[c] \in Ahead /\ cpc[c] # "idle" /\ cpc[c] \notin {"close", "closing"}
    BY <1>1 DEF Ahead
  <2>2. cgen[c] # 0 /\ cgen[c] # current /\ old[c] = 0
    BY <2>1 DEF Accounts, OwnInv
  <2>3. cgen[c] \in 0..made /\ made \in 0..MaxCalls
    BY DEF Accounts, PoolTypes
  <2> QED
    BY <2>2, <2>3, GensFacts DEF Gens
<1>3. old' = old
  BY <1>1, <1>2 DEF Accounts, PoolTypes
<1>4. \A g \in Gens : g # cgen[c] => pool'[g] = pool[g]
  BY <1>2 DEF Accounts, PoolTypes
<1>5. pool'[cgen[c]] = "open" => deps[cgen[c]].listen # None
  BY <1>1, <1>2 DEF Accounts, PoolTypes, OwnInv
<1>6. PoolTypes'
  BY <1>1, <1>2, <1>3 DEF Accounts, PoolTypes, CallPCs
<1>7. \A d \in Calls : d # c /\ cgen[d] # 0 => cgen[d] \in Gens /\ cgen[d] # cgen[c]
  BY <1>2, GensFacts DEF Accounts, PoolTypes, ApartInv, Gens
<1>8. \A d \in Calls : old[d] # 0 => old[d] \in Gens /\ old[d] # cgen[c]
  BY <1>1, <1>2, GensFacts DEF Accounts, PoolTypes, ApartInv, Gens
<1>9. OwnInv'
  BY <1>1, <1>3, <1>4, <1>7, <1>8 DEF Accounts, PoolTypes, OwnInv, Ahead
<1>10. ApartInv' /\ FreshInv'
  BY <1>1, <1>2, <1>3, <1>4 DEF Accounts, PoolTypes, ApartInv, FreshInv, Ahead
<1>11. PoolsBalance'
  <2>1. current # 0 => pool'[current] = "open"
    BY <1>2, <1>4, GensFacts DEF Accounts, PoolTypes, PoolsBalance, Gens
  <2>2. ASSUME NEW g \in Gens, pool'[g] = "open", g # cgen[c], NEW d \in Calls, cgen[d] = g,
               cpc[d] \in {"bootstrap", "install", "listen", "swap"}
        PROVE  cgen'[d] = g /\ cpc'[d] \in {"bootstrap", "install", "listen", "swap"}
    BY <1>1, <2>2 DEF Accounts, PoolTypes
  <2> QED
    BY <1>3, <1>4, <1>5, <2>1, <2>2 DEF Accounts, PoolsBalance
<1> QED
  BY <1>6, <1>9, <1>10, <1>11 DEF Accounts

\* A call goes on with what it has; OpenPool gives it a pool.
LEMMA ForwardAccounts ==
    ASSUME Accounts, NEW c \in Calls,
           \/ OpenPool(c) \/ Bootstrap(c) \/ SetHandler(c) \/ Bind(c) \/ KeepListener(c)
    PROVE  Accounts'
<1>1. PICK next \in Ahead \ {"migrate"} : cpc' = [cpc EXCEPT ![c] = next]
  BY DEF OpenPool, Bootstrap, SetHandler, Bind, KeepListener, Goto, Ahead
<1>2. cpc[c] \in Ahead /\ cgen[c] \in Gens /\ cgen[c] # current /\ cgen[c] <= made
  BY GensFacts DEF OpenPool, Bootstrap, SetHandler, Bind, KeepListener, Goto, Accounts, PoolTypes,
                   OwnInv, Ahead, Gens
<1>3. UNCHANGED <<made, current, cgen, old>>
  BY DEF OpenPool, Bootstrap, SetHandler, Bind, KeepListener, configured
<1>4. /\ DOMAIN deps' = Gens
      /\ \A g \in Gens : g # cgen[c] => deps'[g] = deps[g]
      /\ next = "listen" => deps'[cgen[c]].listen # None
  <2>1. CASE Bootstrap(c)
    BY <1>1, <2>1 DEF Bootstrap, Goto, Accounts, PoolTypes
  <2>2. CASE ~Bootstrap(c)
    <3>1. deps' = deps
      BY <2>2 DEF OpenPool, SetHandler, Bind, KeepListener, configured
    <3>2. next = "listen" => SetHandler(c)
      BY <1>1, <2>2 DEF OpenPool, Bind, KeepListener, Goto, Accounts, PoolTypes
    <3> QED
      BY <1>1, <3>1, <3>2 DEF SetHandler, Goto, Accounts, PoolTypes
  <2> QED
    BY <2>1, <2>2
<1>5. /\ pool'[cgen[c]] = "open"
      /\ pool' \in [Gens -> {"none", "open", "closed"}]
      /\ \A g \in Gens : g # cgen[c] => pool'[g] = pool[g]
  <2>1. CASE OpenPool(c)
    BY <1>2, <2>1 DEF OpenPool, Accounts, PoolTypes
  <2>2. CASE ~OpenPool(c)
    <3>1. pool' = pool /\ cpc[c] \in Ahead \ {"migrate"}
      BY <2>2 DEF Bootstrap, SetHandler, Bind, KeepListener, Goto, Ahead, configured
    <3> QED
      BY <3>1 DEF Accounts, PoolTypes, OwnInv
  <2> QED
    BY <2>1, <2>2
<1>6. PoolTypes'
  BY <1>1, <1>3, <1>4, <1>5 DEF Accounts, PoolTypes, CallPCs, Ahead
<1>7. \A d \in Calls : d # c /\ cgen[d] # 0 => cgen[d] \in Gens /\ cgen[d] # cgen[c]
  BY <1>2, GensFacts DEF Accounts, PoolTypes, ApartInv, Gens
<1>8. \A d \in Calls : old[d] # 0 => old[d] \in Gens /\ old[d] # cgen[c]
  BY <1>2, GensFacts DEF Accounts, PoolTypes, ApartInv, Gens
<1>9. OwnInv'
  <2>1. ASSUME NEW d \in Calls, d # c
        PROVE  cpc'[d] = cpc[d]
    BY <1>1, <2>1 DEF Accounts, PoolTypes
  <2>2. cpc'[c] = next /\ old[c] = 0 /\ cgen[c] # 0
    BY <1>1, <1>2, GensFacts DEF Accounts, PoolTypes, OwnInv, Ahead
  <2> QED
    BY <1>1, <1>2, <1>3, <1>4, <1>5, <1>7, <1>8, <2>1, <2>2 DEF Accounts, OwnInv, Ahead
<1>10. ApartInv' /\ FreshInv'
  BY <1>1, <1>2, <1>3, <1>5 DEF Accounts, PoolTypes, ApartInv, FreshInv, Ahead, Gens
<1>11. PoolsBalance'
  <2>1. current # 0 => pool'[current] = "open"
    BY <1>2, <1>5, GensFacts DEF Accounts, PoolTypes, PoolsBalance, Gens
  <2>2. cpc'[c] \in {"bootstrap", "install", "listen", "swap"}
    BY <1>1 DEF Accounts, PoolTypes, Ahead
  <2>3. ASSUME NEW d \in Calls, d # c
        PROVE  cpc'[d] = cpc[d]
    BY <1>1, <2>3 DEF Accounts, PoolTypes
  <2> QED
    BY <1>3, <1>4, <1>5, <2>1, <2>2, <2>3 DEF Accounts, PoolsBalance
<1> QED
  BY <1>6, <1>9, <1>10, <1>11 DEF Accounts

\* The swap: what was current is the caller's to close, or there was nothing.
LEMMA SwapAccounts ==
    ASSUME Accounts, NEW c \in Calls, SwapPool(c)
    PROVE  Accounts'
<1>1. cpc[c] = "swap" /\ current' = cgen[c] /\ UNCHANGED <<made, deps, pool>>
  BY DEF SwapPool, Return, Goto
<1>2. /\ cgen[c] \in Gens /\ cgen[c] \in 0..made /\ cgen[c] # current
      /\ old[c] = 0 /\ pool[cgen[c]] = "open"
  <2>1. cpc[c] \in Ahead \ {"migrate"} /\ cpc[c] # "idle" /\ cpc[c] \notin {"close", "closing"}
    BY <1>1 DEF Ahead
  <2>2. cgen[c] # 0 /\ cgen[c] # current /\ old[c] = 0 /\ pool[cgen[c]] = "open"
    BY <2>1 DEF Accounts, OwnInv
  <2>3. cgen[c] \in 0..made /\ made \in 0..MaxCalls
    BY DEF Accounts, PoolTypes
  <2> QED
    BY <2>2, <2>3, GensFacts DEF Gens
<1>3. old' = [old EXCEPT ![c] = current]
  BY <1>1, <1>2 DEF SwapPool, Return, Accounts, PoolTypes
<1>4. PICK next \in {"idle", "close"}, gen \in {0, cgen[c]} :
          /\ cpc' = [cpc EXCEPT ![c] = next] /\ cgen' = [cgen EXCEPT ![c] = gen]
          /\ next = "close" <=> current # 0
          /\ next = "close" => gen # 0
  <2>1. CASE current = 0
    BY <2>1 DEF SwapPool, Return, Goto
  <2>2. CASE current # 0
    <3>1. cpc' = [cpc EXCEPT ![c] = "close"] /\ cgen' = cgen
      BY <2>2 DEF SwapPool, Goto
    <3>2. cgen' = [cgen EXCEPT ![c] = cgen[c]]
      BY <3>1 DEF Accounts, PoolTypes
    <3> QED
      BY <1>2, <2>2, <3>1, <3>2, GensFacts
  <2> QED
    BY <2>1, <2>2
<1>5. PoolTypes'
  BY <1>1, <1>2, <1>3, <1>4 DEF Accounts, PoolTypes, CallPCs
<1>6. /\ cpc'[c] = next /\ cgen'[c] = gen /\ old'[c] = current
      /\ \A d \in Calls : d # c => cpc'[d] = cpc[d] /\ cgen'[d] = cgen[d] /\ old'[d] = old[d]
  BY <1>3, <1>4 DEF Accounts, PoolTypes
<1>7. cgen[c] # 0
  BY <1>2, GensFacts
<1>8. \A d \in Calls : d # c => cgen[d] # cgen[c] /\ old[d] # cgen[c] /\ (old[d] # 0 => old[d] # current)
  BY <1>1, <1>7 DEF Accounts, OwnInv, ApartInv, Ahead
<1>9. OwnInv'
  BY <1>1, <1>2, <1>4, <1>6, <1>7, <1>8 DEF Accounts, OwnInv, Ahead
<1>10. ApartInv'
  BY <1>1, <1>2, <1>4, <1>6, <1>7, <1>8 DEF Accounts, OwnInv, ApartInv, Ahead
<1>11. FreshInv'
  BY <1>1 DEF Accounts, FreshInv
<1>12. PoolsBalance'
  <2>1. ASSUME NEW g \in Gens, pool[g] = "open", g # cgen[c]
        PROVE  \/ \E d \in Calls : cgen'[d] = g /\ cpc'[d] \in {"bootstrap", "install", "listen", "swap"}
               \/ \E d \in Calls : old'[d] = g
               \/ deps[g].listen # None
    <3>1. CASE g = current
      BY <1>6, <3>1
    <3>2. ASSUME NEW d \in Calls, cgen[d] = g, cpc[d] \in {"bootstrap", "install", "listen", "swap"}
          PROVE  cgen'[d] = g /\ cpc'[d] \in {"bootstrap", "install", "listen", "swap"}
      BY <1>6, <2>1, <3>2
    <3>3. ASSUME NEW d \in Calls, old[d] = g
          PROVE  old'[d] = g
      BY <1>2, <1>6, <3>3, GensFacts
    <3> QED
      BY <2>1, <3>1, <3>2, <3>3 DEF Accounts, PoolsBalance
  <2> QED
    BY <1>1, <1>2, <2>1 DEF PoolsBalance
<1> QED
  BY <1>5, <1>9, <1>10, <1>11, <1>12 DEF Accounts

LEMMA ClosePoolAccounts ==
    ASSUME Accounts, NEW c \in Calls, ClosePool(c)
    PROVE  Accounts'
<1>1. cpc[c] = "close" /\ cpc' = [cpc EXCEPT ![c] = "closing"] /\ pool' = [pool EXCEPT ![old[c]] = "closed"]
  BY DEF ClosePool, Goto
<1>2. UNCHANGED <<made, deps, current, cgen, old>>
  BY DEF ClosePool, configured
<1>3. old[c] \in Gens /\ old[c] <= made /\ old[c] # current
  BY <1>1, GensFacts DEF Accounts, PoolTypes, OwnInv, Gens
<1>4. pool'[old[c]] = "closed" /\ \A g \in Gens : g # old[c] => pool'[g] = pool[g]
  BY <1>1, <1>3 DEF Accounts, PoolTypes
<1>5. PoolTypes'
  BY <1>1, <1>2 DEF Accounts, PoolTypes, CallPCs
<1>6. \A d \in Calls : cpc[d] \in Ahead => cgen[d] \in Gens /\ cgen[d] # old[c]
  BY GensFacts DEF Accounts, PoolTypes, OwnInv, ApartInv, Ahead, Gens
<1>7. cpc'[c] = "closing" /\ \A d \in Calls : d # c => cpc'[d] = cpc[d]
  BY <1>1 DEF Accounts, PoolTypes
<1>8. \A d \in Calls : old[d] # 0 => old[d] \in Gens
  BY GensFacts DEF Accounts, PoolTypes, Gens
<1>9. OwnInv'
  BY <1>1, <1>2, <1>3, <1>4, <1>6, <1>7, <1>8 DEF Accounts, OwnInv, Ahead
<1>10. ApartInv' /\ FreshInv'
  BY <1>1, <1>2, <1>3, <1>4, <1>7, GensFacts DEF Accounts, PoolTypes, ApartInv, FreshInv, Ahead, Gens
<1>11. PoolsBalance'
  <2>1. current # 0 => pool'[current] = "open"
    BY <1>3, <1>4, GensFacts DEF Accounts, PoolTypes, PoolsBalance, Gens
  <2> QED
    BY <1>1, <1>2, <1>4, <1>7, <2>1 DEF Accounts, PoolsBalance
<1> QED
  BY <1>5, <1>9, <1>10, <1>11 DEF Accounts

\* The call is done; what it closed is closed.
LEMMA PoolClosedAccounts ==
    ASSUME Accounts, NEW c \in Calls, PoolClosed(c)
    PROVE  Accounts'
<1>1. /\ cpc[c] = "closing" /\ cpc' = [cpc EXCEPT ![c] = "idle"]
      /\ cgen' = [cgen EXCEPT ![c] = 0] /\ old' = [old EXCEPT ![c] = 0]
      /\ UNCHANGED <<made, deps, current, pool>>
  BY DEF PoolClosed, Return, Goto, configured
<1>2. /\ cpc'[c] = "idle" /\ cgen'[c] = 0 /\ old'[c] = 0
      /\ \A d \in Calls : d # c => cpc'[d] = cpc[d] /\ cgen'[d] = cgen[d] /\ old'[d] = old[d]
  BY <1>1 DEF Accounts, PoolTypes
<1>3. pool[old[c]] = "closed"
  BY <1>1 DEF Accounts, OwnInv
<1>4. PoolTypes'
  BY <1>1 DEF Accounts, PoolTypes, CallPCs
<1>5. OwnInv' /\ FreshInv'
  BY <1>1, <1>2 DEF Accounts, OwnInv, FreshInv, Ahead
<1>6. ApartInv'
  <2>1. \A d \in Calls : cpc'[d] \in Ahead => d # c /\ cgen'[d] # 0
    BY <1>2 DEF Accounts, OwnInv, Ahead
  <2> QED
    BY <1>2, <2>1 DEF Accounts, ApartInv
<1>7. PoolsBalance'
  BY <1>1, <1>2, <1>3 DEF Accounts, PoolsBalance
<1> QED
  BY <1>4, <1>5, <1>6, <1>7 DEF Accounts

THEOREM AccountsKept == Spec => []Accounts
<1>1. Init => Accounts
  BY GensFacts DEF Init, Accounts, PoolTypes, OwnInv, ApartInv, FreshInv, PoolsBalance, Ahead, CallPCs
<1>2. Accounts /\ [Next]_vars => Accounts'
  <2> SUFFICES ASSUME Accounts, [Next]_vars PROVE Accounts'
    OBVIOUS
  <2>1. ASSUME NEW c \in Calls, Configure(c) PROVE Accounts'
    BY <2>1, ConfigureAccounts
  <2>2. ASSUME NEW c \in Calls,
               \/ ConfigureFails(c) \/ BootstrapFails(c) \/ BindFails(c) \/ RefuseChange(c)
        PROVE  Accounts'
    <3>1. CASE ConfigureFails(c)
      BY <3>1, FailureAccounts DEF ConfigureFails, configured, Ahead
    <3>2. CASE BootstrapFails(c)
      BY <3>2, FailureAccounts DEF BootstrapFails, Ahead
    <3>3. CASE BindFails(c) \/ RefuseChange(c)
      BY <3>3, FailureAccounts DEF BindFails, RefuseChange, configured, Ahead
    <3> QED
      BY <2>2, <3>1, <3>2, <3>3
  <2>3. ASSUME NEW c \in Calls,
               \/ OpenPool(c) \/ Bootstrap(c) \/ SetHandler(c) \/ Bind(c) \/ KeepListener(c)
        PROVE  Accounts'
    BY <2>3, ForwardAccounts
  <2>4. ASSUME NEW c \in Calls, SwapPool(c) PROVE Accounts'
    BY <2>4, SwapAccounts
  <2>5. ASSUME NEW c \in Calls, ClosePool(c) PROVE Accounts'
    BY <2>5, ClosePoolAccounts
  <2>6. ASSUME NEW c \in Calls, PoolClosed(c) PROVE Accounts'
    BY <2>6, PoolClosedAccounts
  <2>7. ASSUME UNCHANGED <<made, deps, pool, current, calls>> PROVE Accounts'
    BY <2>7 DEF calls, Accounts, PoolTypes, OwnInv, ApartInv, FreshInv, PoolsBalance
  <2>8. ASSUME NEW r \in Requests,
               NotReady(r) \/ Arrive(r) \/ Acquire(r) \/ QueryReturns(r) \/ RotateSecret(r) \/ Reply(r)
        PROVE  Accounts'
    BY <2>7, <2>8 DEF NotReady, Arrive, Acquire, QueryReturns, RotateSecret, Reply, configured, calls, vars
  <2>9. CASE Signal \/ UNCHANGED vars
    BY <2>7, <2>9 DEF Signal, calls, vars
  <2> QED
    BY <2>1, <2>2, <2>3, <2>4, <2>5, <2>6, <2>8, <2>9 DEF Next, Advance
<1> QED
  BY <1>1, <1>2, PTL DEF Spec

\* However many Configures overlap, the current pool is open, and only a
\* generation with a listener can leave another behind (main.go:66-165).
THEOREM PoolsStayBalanced == Spec => []PoolsBalance
<1>1. Accounts => PoolsBalance
  BY DEF Accounts
<1> QED
  BY <1>1, AccountsKept, PTL

-----------------------------------------------------------------------------
(* Types. *)

\* The handlers in use have a pool.
UseInv ==
    /\ handler <= made
    /\ handler # 0 => pool[handler] # "none"
    /\ \A r \in Requests : rpc[r] # "idle" => rgen[r] \in Gens

LEMMA BootstrappedType ==
    ASSUME NEW d \in Deps, row \in [Databases -> Row]
    PROVE  Bootstrapped(d) \in Row
  BY DEF Bootstrapped, Deps, Row

\* A pool that was made stays made.
LEMMA PoolsLast ==
    ASSUME Accounts, [Next]_vars
    PROVE  /\ made \in Nat /\ made' \in Nat /\ made <= made'
           /\ \A g \in Gens : pool[g] # "none" => pool'[g] # "none"
<1>1. made \in Nat
  BY GensFacts DEF Accounts, PoolTypes
<1>2. made' = made \/ made' = made + 1
  BY DEF vars, Next, Advance, Configure, ConfigureFails,
        OpenPool, Bootstrap, BootstrapFails, SetHandler, Bind, BindFails, KeepListener,
        RefuseChange, SwapPool, ClosePool, PoolClosed, NotReady, Arrive, Acquire, QueryReturns,
        RotateSecret, Reply, Signal, configured
<1>3. \/ pool' = pool
      \/ \E h \in 0..made, state \in {"open", "closed"} : pool' = [pool EXCEPT ![h] = state]
  BY DEF Accounts, PoolTypes, vars, Next, Advance, Configure, ConfigureFails,
        OpenPool, Bootstrap, BootstrapFails, SetHandler, Bind, BindFails, KeepListener,
        RefuseChange, SwapPool, ClosePool, PoolClosed, NotReady, Arrive, Acquire, QueryReturns,
        RotateSecret, Reply, Signal
<1> QED
  BY <1>1, <1>2, <1>3 DEF Accounts, PoolTypes

LEMMA TypeStep ==
    ASSUME TypeOK, UseInv, Accounts, Accounts', [Next]_vars
    PROVE  TypeOK' /\ UseInv'
<1>1. /\ made' \in 0..MaxCalls /\ current' \in 0..MaxCalls
      /\ pool' \in [Gens -> {"none", "open", "closed"}]
      /\ cpc' \in [Calls -> CallPCs] /\ cgen' \in [Calls -> 0..MaxCalls] /\ old' \in [Calls -> 0..MaxCalls]
  <2>1. made' \in 0..MaxCalls /\ 0..made' \subseteq 0..MaxCalls
    BY GensFacts DEF Accounts, PoolTypes
  <2> QED
    BY <2>1 DEF Accounts, PoolTypes
<1>2. ASSUME NEW c \in Calls, cpc[c] # "idle" PROVE cgen[c] \in Gens /\ cgen[c] <= made
  BY <1>2, GensFacts DEF Accounts, PoolTypes, OwnInv, Gens
<1>3. ASSUME NEW c \in Calls, Configure(c) PROVE deps' \in [Gens -> Deps]
  <2>1. PICK db \in Databases, a \in Addrs \cup {None} :
            deps' = [deps EXCEPT ![made + 1] = [db |-> db, listen |-> a, secret |-> 0]]
    BY <1>3 DEF Configure
  <2> QED
    BY <2>1 DEF TypeOK, Deps
<1>4. ASSUME NEW c \in Calls, Bootstrap(c) \/ BootstrapFails(c)
      PROVE  deps' \in [Gens -> Deps] /\ row' \in [Databases -> Row]
  <2> DEFINE d == deps[cgen[c]]
             r == Bootstrapped(d)
  <2>1. cgen[c] \in Gens
    BY <1>2, <1>4 DEF Bootstrap, BootstrapFails, Return, Goto
  <2>2. d \in Deps /\ r \in Row
    BY <2>1, BootstrappedType DEF TypeOK
  <2>3. [row EXCEPT ![d.db] = r] \in [Databases -> Row]
    BY <2>2 DEF TypeOK
  <2>4. row' = row \/ row' = [row EXCEPT ![d.db] = r]
    BY <1>4 DEF Bootstrap, BootstrapFails
  <2>5. \/ deps' = deps
        \/ deps' = [deps EXCEPT ![cgen[c]] = [db |-> d.db, listen |-> r.listen, secret |-> r.secret]]
    BY <1>4 DEF Bootstrap, BootstrapFails
  <2>6. [db |-> d.db, listen |-> r.listen, secret |-> r.secret] \in Deps
    BY <2>2 DEF Deps, Row
  <2> HIDE DEF d, r
  <2> QED
    BY <2>3, <2>4, <2>5, <2>6 DEF TypeOK
<1>5. ASSUME NEW r \in Requests, RotateSecret(r) PROVE row' \in [Databases -> Row]
  <2> DEFINE db == deps[rgen[r]].db
  <2>1. rgen[r] \in Gens
    BY <1>5 DEF UseInv, RotateSecret
  <2>2. db \in Databases /\ row[db] \in Row
    BY <2>1 DEF TypeOK, Deps
  <2>3. row' = [row EXCEPT ![db].secret = row[db].secret + 1]
    BY <1>5 DEF RotateSecret
  <2> QED
    BY <2>2, <2>3 DEF TypeOK, Row
<1>6. deps' \in [Gens -> Deps]
  <2>1. \/ deps' = deps
        \/ \E c \in Calls : Configure(c) \/ Bootstrap(c) \/ BootstrapFails(c)
    BY DEF vars, Next, Advance, ConfigureFails,
        OpenPool, SetHandler, Bind, BindFails, KeepListener,
        RefuseChange, SwapPool, ClosePool, PoolClosed, NotReady, Arrive, Acquire, QueryReturns,
        RotateSecret, Reply, Signal, configured
  <2> QED
    BY <1>3, <1>4, <2>1 DEF TypeOK
<1>7. row' \in [Databases -> Row]
  <2>1. \/ row' = row
        \/ \E c \in Calls : Bootstrap(c) \/ BootstrapFails(c)
        \/ \E r \in Requests : RotateSecret(r)
    BY DEF vars, Next, Advance, Configure, ConfigureFails,
        OpenPool, SetHandler, Bind, BindFails, KeepListener,
        RefuseChange, SwapPool, ClosePool, PoolClosed, NotReady, Arrive, Acquire, QueryReturns,
        Reply, Signal, configured
  <2> QED
    BY <1>4, <1>5, <2>1 DEF TypeOK
<1>8. addr' \in Addrs \cup {None} /\ bindDone' \in BOOLEAN
  <2>1. \/ addr' = addr /\ bindDone' = bindDone
        \/ \E c \in Calls : BindFails(c)
        \/ \E c \in Calls : Bind(c)
    BY DEF vars, Next, Advance, Configure, ConfigureFails,
        OpenPool, Bootstrap, BootstrapFails, SetHandler, KeepListener,
        RefuseChange, SwapPool, ClosePool, PoolClosed, NotReady, Arrive, Acquire, QueryReturns,
        RotateSecret, Reply, Signal, configured
  <2>2. ASSUME NEW c \in Calls, Bind(c) PROVE addr' \in Addrs \cup {None} /\ bindDone' \in BOOLEAN
    <3>1. cgen[c] \in Gens
      BY <1>2, <2>2 DEF Bind, Goto
    <3>2. deps[cgen[c]].listen \in Addrs \cup {None}
      BY <3>1 DEF TypeOK, Deps
    <3> QED
      BY <2>2, <3>2 DEF Bind
  <2>3. ASSUME NEW c \in Calls, BindFails(c) PROVE addr' = addr /\ bindDone' \in BOOLEAN
    BY <2>3 DEF BindFails
  <2> QED
    BY <2>1, <2>2, <2>3 DEF TypeOK
<1>9. listener' \in {"none", "serving", "drained"} /\ signalled' \in BOOLEAN
  BY DEF TypeOK, vars, Next, Advance, Configure, ConfigureFails,
        OpenPool, Bootstrap, BootstrapFails, SetHandler, Bind, BindFails, KeepListener,
        RefuseChange, SwapPool, ClosePool, PoolClosed, NotReady, Arrive, Acquire, QueryReturns,
        RotateSecret, Reply, Signal, configured
<1>10. /\ handler' \in 0..MaxCalls /\ handler' <= made'
       /\ handler' # 0 => pool'[handler'] # "none"
  <2>1. ASSUME NEW c \in Calls, SetHandler(c)
        PROVE  /\ handler' \in Gens /\ handler' <= made
               /\ pool[handler'] # "none"
    <3>1. cgen[c] \in Gens /\ cgen[c] <= made /\ pool[cgen[c]] = "open"
      BY <1>2, <2>1 DEF SetHandler, Goto, Accounts, OwnInv, Ahead
    <3> QED
      BY <2>1, <3>1 DEF SetHandler
  <2>2. handler' = handler \/ \E c \in Calls : SetHandler(c)
    BY DEF vars, Next, Advance, Configure, ConfigureFails,
        OpenPool, Bootstrap, BootstrapFails, Bind, BindFails, KeepListener,
        RefuseChange, SwapPool, ClosePool, PoolClosed, NotReady, Arrive, Acquire, QueryReturns,
        RotateSecret, Reply, Signal, configured
  <2>3. handler' = 0 \/ (handler' \in Gens /\ pool[handler'] # "none")
    BY <2>1, <2>2, GensFacts DEF TypeOK, UseInv, Gens
  <2>4. handler' \in 0..MaxCalls /\ handler' <= made
    BY <2>1, <2>2, GensFacts DEF TypeOK, UseInv, Gens
  <2> QED
    BY <2>3, <2>4, PoolsLast
<1>11. /\ rpc' \in [Requests -> {"idle", "running", "querying"}]
       /\ rgen' \in [Requests -> 0..MaxCalls]
       /\ \A q \in Requests : rpc'[q] # "idle" => rgen'[q] \in Gens /\ pool'[rgen'[q]] # "none"
  <2>1. ASSUME NEW r \in Requests, Arrive(r) \/ Acquire(r) \/ QueryReturns(r) \/ RotateSecret(r) \/ Reply(r)
        PROVE  /\ rpc' \in [Requests -> {"idle", "running", "querying"}]
               /\ rgen' \in [Requests -> 0..MaxCalls]
               /\ \A q \in Requests : rpc'[q] # "idle" =>
                     \/ rgen'[q] = rgen[q] /\ rpc[q] # "idle"
                     \/ rgen'[q] = handler /\ handler # 0
    BY <2>1, GensFacts DEF TypeOK, Arrive, Acquire, QueryReturns, RotateSecret, Reply
  <2>2. \/ rpc' = rpc /\ rgen' = rgen
        \/ \E r \in Requests : Arrive(r) \/ Acquire(r) \/ QueryReturns(r) \/ RotateSecret(r) \/ Reply(r)
    BY DEF vars, Next, Advance, Configure, ConfigureFails,
        OpenPool, Bootstrap, BootstrapFails, SetHandler, Bind, BindFails, KeepListener,
        RefuseChange, SwapPool, ClosePool, PoolClosed, NotReady, Signal, requests
  <2>3. /\ rpc' \in [Requests -> {"idle", "running", "querying"}]
        /\ rgen' \in [Requests -> 0..MaxCalls]
        /\ \A q \in Requests : rpc'[q] # "idle" =>
              \/ rgen'[q] = rgen[q] /\ rpc[q] # "idle"
              \/ rgen'[q] = handler /\ handler # 0
    BY <2>1, <2>2 DEF TypeOK
  <2>4. handler # 0 => handler \in Gens
    BY GensFacts DEF TypeOK, Gens
  <2>5. \A q \in Requests : rpc'[q] # "idle" => rgen'[q] \in Gens /\ pool[rgen'[q]] # "none"
    BY <2>3, <2>4 DEF TypeOK, UseInv
  <2> QED
    BY <2>3, <2>5, PoolsLast
<1> QED
  BY <1>1, <1>6, <1>7, <1>8, <1>9, <1>10, <1>11 DEF TypeOK, UseInv

\* Every variable keeps its type, and no request runs in a generation without
\* a pool, however many Configures overlap.
THEOREM Typing == Spec => []TypeOK
<1>1. Init => TypeOK /\ UseInv
  <2> SUFFICES ASSUME Init PROVE TypeOK /\ UseInv
    OBVIOUS
  <2>1. NoDeps \in Deps
    BY LifecycleAssumption DEF NoDeps, Deps
  <2>2. row \in [Databases -> Row]
    <3> DEFINE New == [fresh |-> TRUE, listen |-> None, secret |-> 0]
               Old(a) == [fresh |-> FALSE, listen |-> a, secret |-> 1]
               Rows == {New} \cup {Old(a) : a \in Addrs}
    <3>1. New \in Row /\ \A a \in Addrs : Old(a) \in Row
      BY DEF Row
    <3>2. Rows \subseteq Row
      <4> HIDE DEF New, Old
      <4> QED
        BY <3>1
    <3>3. row \in [Databases -> Rows]
      BY DEF Init
    <3> HIDE DEF Rows
    <3> QED
      BY <3>2, <3>3
  <2>3. 0 \in 0..MaxCalls
    BY GensFacts
  <2>4. TypeOK
    BY <2>1, <2>2, <2>3 DEF Init, TypeOK, CallPCs
  <2>5. UseInv
    BY DEF Init, UseInv
  <2> QED
    BY <2>4, <2>5
<1>2. TypeOK /\ UseInv /\ Accounts /\ Accounts' /\ [Next]_vars => TypeOK' /\ UseInv'
  BY TypeStep
<1> QED
  BY <1>1, <1>2, AccountsKept, PTL DEF Spec

-----------------------------------------------------------------------------
(* What success means. *)

\* A call past its listener's check is on its address, which never changes.
BoundInv ==
    /\ addr # None => bindDone /\ listener # "none"
    /\ \A c \in Calls : cpc[c] \in {"swap", "close", "closing"} =>
          deps[cgen[c]].listen = None \/ (addr = deps[cgen[c]].listen /\ listener # "none")

\* A Configure that succeeds leaves the standalone listener on the stored
\* address, whatever other calls bind meanwhile (main.go:108-162).
THEOREM SuccessBinds == Spec => SuccessMeansBound
<1> DEFINE Bound == \A c \in Calls : Succeeds(c) =>
                       LET a == deps[cgen[c]].listen IN a = None \/ (addr = a /\ listener # "none")
<1>1. Init => BoundInv
  BY DEF Init, BoundInv
<1>2. Accounts /\ TypeOK /\ BoundInv /\ [Next]_vars => BoundInv'
  <2> SUFFICES ASSUME Accounts, TypeOK, BoundInv, [Next]_vars PROVE BoundInv'
    OBVIOUS
  <2> DEFINE Past(pcs) == pcs \in {"swap", "close", "closing"}
             Good(g) == deps[g].listen = None \/ (addr = deps[g].listen /\ listener # "none")
  <2>1. ASSUME NEW c \in Calls, Bind(c)
        PROVE  /\ addr' = deps[cgen[c]].listen /\ listener' = "serving" /\ bindDone'
               /\ deps' = deps /\ cgen' = cgen /\ cpc' = [cpc EXCEPT ![c] = "swap"]
               /\ addr = None
    BY <2>1 DEF Bind, Goto, BoundInv
  <2>2. ASSUME ~\E c \in Calls : Bind(c)
        PROVE  /\ addr' = addr
               /\ bindDone => bindDone'
               /\ listener # "none" => listener' # "none"
    <3>1. CASE Signal \/ \E c \in Calls : BindFails(c)
      BY <3>1 DEF Signal, BindFails
    <3>2. CASE ~(Signal \/ \E c \in Calls : BindFails(c))
      <4>1. UNCHANGED <<addr, bindDone, listener>>
        BY <2>2, <3>2 DEF vars, Next, Advance, Configure, ConfigureFails,
          OpenPool, Bootstrap, BootstrapFails, SetHandler, KeepListener,
          RefuseChange, SwapPool, ClosePool, PoolClosed, NotReady, Arrive, Acquire, QueryReturns,
          RotateSecret, Reply, configured
      <4> QED
        BY <4>1
    <3> QED
      BY <3>1, <3>2
  <2>3. (addr # None => bindDone /\ listener # "none")'
    BY <2>1, <2>2 DEF BoundInv
  <2>4. ASSUME NEW c \in Calls, cpc[c] # "idle" PROVE cgen[c] \in 1..made
    BY <2>4, GensFacts DEF Accounts, PoolTypes, OwnInv
  \* Who a step is of: what it does to the others' generations.
  <2>5. ASSUME NEW c \in Calls, Configure(c) \/ Advance(c), NEW d \in Calls, d # c,
               cpc[d] # "idle"
        PROVE  cpc'[d] = cpc[d] /\ cgen'[d] = cgen[d] /\ deps'[cgen[d]] = deps[cgen[d]]
    <3>1. cpc'[d] = cpc[d] /\ cgen'[d] = cgen[d]
      BY <2>5 DEF Accounts, PoolTypes, Advance, Configure, ConfigureFails,
        OpenPool, Bootstrap, BootstrapFails, SetHandler, Bind, BindFails, KeepListener,
        RefuseChange, SwapPool, ClosePool, PoolClosed, Return, Goto
    <3>2. cgen[d] \in 1..made /\ cgen[d] # cgen[c]
      BY <2>4, <2>5 DEF Accounts, ApartInv
    <3>3. \/ deps' = deps
          \/ \E e : deps' = [deps EXCEPT ![made + 1] = e]
          \/ \E e : deps' = [deps EXCEPT ![cgen[c]] = e]
      BY <2>5 DEF Advance, Configure, ConfigureFails,
        OpenPool, Bootstrap, BootstrapFails, SetHandler, Bind, BindFails, KeepListener,
        RefuseChange, SwapPool, ClosePool, PoolClosed, configured
    <3>4. made \in Nat
      BY GensFacts DEF Accounts, PoolTypes
    <3>5. cgen[d] \in Gens /\ cgen[d] # made + 1
      BY <3>2, <3>4, GensFacts DEF TypeOK, Gens
    <3>6. deps'[cgen[d]] = deps[cgen[d]]
      <4>1. DOMAIN deps = Gens
        BY DEF TypeOK
      <4> QED
        BY <3>2, <3>3, <3>5, <4>1
    <3> QED
      BY <3>1, <3>6
  <2>6. ASSUME NEW c \in Calls, Configure(c) \/ Advance(c),
               cpc'[c] \in {"swap", "close", "closing"}
        PROVE  deps'[cgen'[c]].listen = None \/ (addr' = deps'[cgen'[c]].listen /\ listener' # "none")
    <3>1. CASE Bind(c)
      BY <2>1, <3>1
    <3>2. CASE KeepListener(c)
      <4>1. UNCHANGED <<addr, listener, deps, cgen>> /\ addr = deps[cgen[c]].listen
        BY <3>2 DEF KeepListener, SameAddr, configured
      <4> QED
        BY <4>1 DEF BoundInv
    <3>3. CASE SetHandler(c)
      <4>1. /\ UNCHANGED <<addr, listener, deps, cgen>>
            /\ cpc'[c] = IF deps[cgen[c]].listen = None THEN "swap" ELSE "listen"
        BY <3>3 DEF SetHandler, Goto, TypeOK
      <4> QED
        BY <2>6, <4>1
    <3>4. CASE SwapPool(c) \/ ClosePool(c)
      <4>1. UNCHANGED <<addr, listener, deps>> /\ cpc[c] \in {"swap", "close"}
        BY <3>4 DEF SwapPool, ClosePool, Return, Goto, configured
      <4>2. cgen' = cgen
        BY <2>6, <3>4 DEF SwapPool, ClosePool, Return, Goto, TypeOK
      <4> QED
        BY <4>1, <4>2 DEF BoundInv
    <3>5. CASE ~(Bind(c) \/ KeepListener(c) \/ SetHandler(c) \/ SwapPool(c) \/ ClosePool(c))
      <4>1. cpc'[c] \in {"idle", "migrate", "bootstrap", "install"}
        BY <2>6, <3>5 DEF Advance, Configure, ConfigureFails, OpenPool, Bootstrap, BootstrapFails,
             BindFails, RefuseChange, PoolClosed, Return, Goto, TypeOK
      <4> QED
        BY <2>6, <4>1
    <3> QED
      BY <3>1, <3>2, <3>3, <3>4, <3>5
  <2>7. ASSUME NEW d \in Calls, cpc'[d] \in {"swap", "close", "closing"}
        PROVE  deps'[cgen'[d]].listen = None \/ (addr' = deps'[cgen'[d]].listen /\ listener' # "none")
    <3>1. ASSUME NEW c \in Calls, Configure(c) \/ Advance(c), d # c
          PROVE  deps'[cgen'[d]].listen = None \/ (addr' = deps'[cgen'[d]].listen /\ listener' # "none")
      <4>1. cpc'[d] = cpc[d]
        BY <3>1 DEF TypeOK, Advance, Configure, ConfigureFails,
          OpenPool, Bootstrap, BootstrapFails, SetHandler, Bind, BindFails, KeepListener,
          RefuseChange, SwapPool, ClosePool, PoolClosed, Return, Goto
      <4>2. cgen'[d] = cgen[d] /\ deps'[cgen[d]] = deps[cgen[d]]
        BY <2>5, <2>7, <3>1, <4>1
      <4>3. deps[cgen[d]].listen = None \/ (addr = deps[cgen[d]].listen /\ listener # "none")
        BY <2>7, <4>1 DEF BoundInv
      <4>4. deps[cgen[d]].listen # None => addr' = addr /\ listener' # "none"
        BY <2>1, <2>2, <4>3
      <4> QED
        BY <4>2, <4>3, <4>4
    <3>2. ASSUME UNCHANGED <<cpc, cgen, deps>>
          PROVE  deps'[cgen'[d]].listen = None \/ (addr' = deps'[cgen'[d]].listen /\ listener' # "none")
      <4>1. deps[cgen[d]].listen = None \/ (addr = deps[cgen[d]].listen /\ listener # "none")
        BY <2>7, <3>2 DEF BoundInv
      <4> QED
        BY <2>1, <2>2, <3>2, <4>1
    <3> QED
      BY <2>6, <2>7, <3>1, <3>2 DEF Next, vars, NotReady, Arrive, Acquire, QueryReturns, RotateSecret,
                               Reply, Signal, configured, calls
  <2> QED
    BY <2>3, <2>7 DEF BoundInv
<1>3. BoundInv /\ [Next]_vars => [Bound]_vars
  BY DEF BoundInv, Succeeds
<1> QED
  BY <1>1, <1>2, <1>3, AccountsKept, Typing, PTL DEF Spec, SuccessMeansBound

\* When a Configure succeeds the pool it found is closed and the current one
\* open, whatever other calls swap meanwhile (main.go:163-165).
THEOREM SuccessClosesPool == Spec => SucceededPoolsClosed
<1> DEFINE Closed == \A c \in Calls : Succeeds(c) =>
                        \A g \in Gens : g = current \/ g = old[c] =>
                                            (pool[g] = "open" <=> g = current')
<1>1. Accounts /\ [Next]_vars => [Closed]_vars
  <2> SUFFICES ASSUME Accounts, [Next]_vars, NEW c \in Calls, Succeeds(c), NEW g \in Gens,
                      g = current \/ g = old[c]
               PROVE  pool[g] = "open" <=> g = current'
    OBVIOUS
  <2>1. ASSUME NEW d \in Calls, Configure(d) \/ Advance(d), d # c PROVE FALSE
    <3>1. cpc'[c] = cpc[c]
      BY <2>1 DEF Accounts, PoolTypes, Advance, Configure, ConfigureFails,
        OpenPool, Bootstrap, BootstrapFails, SetHandler, Bind, BindFails, KeepListener,
        RefuseChange, SwapPool, ClosePool, PoolClosed, Return, Goto
    <3> QED
      BY <3>1 DEF Succeeds
  <2>2. Configure(c) \/ Advance(c)
    <3>1. cpc' # cpc
      BY DEF Succeeds
    <3> QED
      BY <2>1, <3>1 DEF Next, vars, NotReady, Arrive, Acquire, QueryReturns, RotateSecret,
                        Reply, Signal, calls
  <2>3. CASE cpc[c] = "closing"
    <3>1. current' = current
      BY <2>2, <2>3 DEF Advance, Configure, ConfigureFails,
        OpenPool, Bootstrap, BootstrapFails, SetHandler, Bind, BindFails, KeepListener,
        RefuseChange, SwapPool, ClosePool, PoolClosed, Return, Goto, configured
    <3>2. pool[old[c]] = "closed" /\ old[c] # current
      BY <2>3 DEF Accounts, OwnInv
    <3> QED
      BY <3>1, <3>2, GensFacts DEF Accounts, PoolsBalance
  <2>4. CASE cpc[c] = "swap"
    <3>1. SwapPool(c)
      BY <2>2, <2>4 DEF Advance, Configure, ConfigureFails, OpenPool, Bootstrap,
              BootstrapFails, SetHandler, Bind, BindFails, KeepListener, RefuseChange,
              ClosePool, PoolClosed, Return, Goto
    <3>2. current = 0
      BY <3>1 DEF SwapPool, Goto, Succeeds, Accounts, PoolTypes
    <3>3. old[c] = 0
      BY <2>4 DEF Accounts, OwnInv
    <3> QED
      BY <3>2, <3>3, GensFacts
  <2> QED
    BY <2>3, <2>4 DEF Succeeds
<1> QED
  BY <1>1, AccountsKept, PTL DEF Spec, SucceededPoolsClosed

-----------------------------------------------------------------------------
(* The installed handler. *)

\* The handler is that of the call whose turn it is, and nobody is to close its
\* pool.
HandlerInv ==
    /\ handler <= made
    /\ HandlerReady
    /\ \A c \in Calls :
          /\ cpc[c] \in Installing => cgen[c] = handler
          /\ cpc[c] \in {"migrate", "bootstrap", "install"} => cgen[c] # handler
          /\ old[c] # 0 => old[c] # handler

\* A request that arrives finds the installed handler's pool open, whatever
\* Configures fail or overlap, as long as they take turns from SetHandler to
\* the swap (main.go:79-93, 163-165).
THEOREM HandlerKeepsPool == Spec => HandlerPoolOpen
<1>1. Init => HandlerInv
  BY DEF Init, HandlerInv, HandlerReady, Installing
<1>2. HandlerInv /\ Accounts /\ TypeOK /\ Orderly' /\ [Next]_vars => HandlerInv'
  <2> SUFFICES ASSUME HandlerInv, Accounts, TypeOK, Orderly', [Next]_vars PROVE HandlerInv'
    OBVIOUS
  <2>1. ASSUME NEW c \in Calls, cpc[c] # "idle"
        PROVE  /\ cgen[c] \in Gens /\ cgen[c] <= made /\ made \in Nat
               /\ \A d \in Calls : d # c => cgen[d] # cgen[c]
    BY <2>1, GensFacts DEF Accounts, PoolTypes, OwnInv, ApartInv, Gens
  <2>2. made \in Nat /\ (handler # 0 => handler \in Gens)
    BY GensFacts DEF Accounts, PoolTypes, TypeOK, Gens
  <2>3. ASSUME NEW c \in Calls, Configure(c) PROVE HandlerInv'
    <3>1. /\ cpc' = [cpc EXCEPT ![c] = "migrate"] /\ cgen' = [cgen EXCEPT ![c] = made + 1]
          /\ made' = made + 1 /\ UNCHANGED <<handler, pool, old>>
      BY <2>3 DEF Configure, Goto
    <3>2. handler # made + 1
      BY <2>2 DEF HandlerInv, TypeOK
    <3> QED
      BY <2>2, <3>1, <3>2 DEF HandlerInv, HandlerReady, Installing, TypeOK
  <2>4. ASSUME NEW c \in Calls, SetHandler(c) PROVE HandlerInv'
    <3>1. /\ cpc[c] = "install" /\ handler' = cgen[c]
          /\ \E next \in Installing : cpc' = [cpc EXCEPT ![c] = next]
          /\ UNCHANGED <<made, pool, cgen, old>>
      BY <2>4 DEF SetHandler, Goto, Installing
    <3>2. cgen[c] \in Gens /\ cgen[c] <= made /\ pool[cgen[c]] = "open"
      BY <2>1, <3>1 DEF Accounts, OwnInv, Ahead
    <3>3. \A d \in Calls : (d # c => cgen[d] # cgen[c]) /\ old[d] # cgen[c]
      BY <2>1, <3>1 DEF Accounts, ApartInv, Ahead
    <3>4. \A d \in Calls : d # c => cpc'[d] = cpc[d] /\ cpc'[d] \notin Installing
      BY <3>1 DEF Orderly, TypeOK
    <3> QED
      BY <3>1, <3>2, <3>3, <3>4 DEF HandlerInv, HandlerReady, TypeOK, Installing
  <2>5. ASSUME NEW c \in Calls, SwapPool(c) PROVE HandlerInv'
    <3>1. /\ cpc[c] = "swap" /\ cgen[c] = handler /\ cgen[c] # current
          /\ UNCHANGED <<made, handler, pool>>
      BY <2>5 DEF SwapPool, Return, Goto, HandlerInv, Installing, Accounts, OwnInv, Ahead
    <3>2. PICK next \in {"idle", "close"}, prior \in {0, current} :
             cpc' = [cpc EXCEPT ![c] = next] /\ old' = [old EXCEPT ![c] = prior]
      BY <2>5 DEF SwapPool, Return, Goto
    <3>3. \A d \in Calls : d # c => cgen'[d] = cgen[d]
      BY <2>5 DEF SwapPool, Return, TypeOK
    <3> QED
      BY <3>1, <3>2, <3>3 DEF HandlerInv, HandlerReady, Installing, TypeOK
  <2>6. ASSUME NEW c \in Calls, ClosePool(c) PROVE HandlerInv'
    <3>1. /\ cpc' = [cpc EXCEPT ![c] = "closing"] /\ cpc[c] = "close"
          /\ pool' = [pool EXCEPT ![old[c]] = "closed"]
          /\ UNCHANGED <<made, handler, cgen, old>>
      BY <2>6 DEF ClosePool, Goto, configured
    <3>2. old[c] # 0 /\ old[c] # handler
      BY <3>1 DEF Accounts, OwnInv, HandlerInv
    <3> QED
      BY <2>2, <3>1, <3>2 DEF HandlerInv, HandlerReady, Installing, TypeOK
  <2>7. ASSUME NEW c \in Calls,
               \/ ConfigureFails(c) \/ BootstrapFails(c) \/ BindFails(c)
               \/ RefuseChange(c) \/ PoolClosed(c)
        PROVE  HandlerInv'
    <3>1. /\ cpc' = [cpc EXCEPT ![c] = "idle"] /\ cgen' = [cgen EXCEPT ![c] = 0]
          /\ old' = [old EXCEPT ![c] = 0] /\ UNCHANGED <<made, handler>>
          /\ \/ pool' = pool
             \/ cpc[c] = "bootstrap" /\ pool' = [pool EXCEPT ![cgen[c]] = "closed"]
      BY <2>7 DEF ConfigureFails, BootstrapFails, BindFails, RefuseChange, PoolClosed, Return, Goto,
                  configured
    <3>2. handler # 0 => pool'[handler] = pool[handler]
      BY <2>2, <3>1 DEF HandlerInv, TypeOK
    <3> QED
      BY <3>1, <3>2 DEF HandlerInv, HandlerReady, Installing, TypeOK
  <2>8. ASSUME NEW c \in Calls, OpenPool(c) \/ Bootstrap(c) PROVE HandlerInv'
    <3>1. /\ cpc[c] \in {"migrate", "bootstrap"} /\ UNCHANGED <<made, handler, cgen, old>>
          /\ \E next \in {"bootstrap", "install"} : cpc' = [cpc EXCEPT ![c] = next]
          /\ pool' = pool \/ pool' = [pool EXCEPT ![cgen[c]] = "open"]
      BY <2>8 DEF OpenPool, Bootstrap, Goto, configured
    <3>2. handler # 0 => pool'[handler] = pool[handler]
      BY <2>2, <3>1 DEF HandlerInv, TypeOK
    <3> QED
      BY <3>1, <3>2 DEF HandlerInv, HandlerReady, Installing, TypeOK
  <2>9. ASSUME NEW c \in Calls, Bind(c) \/ KeepListener(c) PROVE HandlerInv'
    <3>1. /\ cpc[c] = "listen" /\ cpc' = [cpc EXCEPT ![c] = "swap"]
          /\ UNCHANGED <<made, handler, pool, cgen, old>>
      BY <2>9 DEF Bind, KeepListener, Goto, configured
    <3> QED
      BY <3>1 DEF HandlerInv, HandlerReady, Installing, TypeOK
  <2>10. ASSUME UNCHANGED <<made, handler, pool, calls>> PROVE HandlerInv'
    BY <2>10 DEF HandlerInv, HandlerReady, calls
  <2>11. ASSUME NEW r \in Requests,
                NotReady(r) \/ Arrive(r) \/ Acquire(r) \/ QueryReturns(r) \/ RotateSecret(r) \/ Reply(r)
         PROVE  HandlerInv'
    BY <2>10, <2>11 DEF NotReady, Arrive, Acquire, QueryReturns, RotateSecret, Reply, configured, calls, vars
  <2>12. CASE Signal \/ UNCHANGED vars
    BY <2>10, <2>12 DEF Signal, calls, vars
  <2> QED
    BY <2>3, <2>4, <2>5, <2>6, <2>7, <2>8, <2>9, <2>11, <2>12 DEF Next, Advance
<1>3. HandlerInv => HandlerReady
  BY DEF HandlerInv
<1> QED
  BY <1>1, <1>2, <1>3, AccountsKept, Typing, PTL DEF Spec, HandlerPoolOpen

-----------------------------------------------------------------------------
(* The queries of requests. *)

\* A query runs on a pool that is open, or that a Configure is waiting to close.
QueriesFinish ==
    \A r \in Requests : rpc[r] = "querying" =>
        \/ pool[rgen[r]] = "open"
        \/ \E c \in Calls : cpc[c] = "closing" /\ old[c] = rgen[r]

\* Nobody runs in a generation that has yet to be installed.
Uninstalled == {"migrate", "bootstrap", "install"}

QueryInv ==
    /\ handler <= made
    /\ \A r \in Requests : rpc[r] # "idle" => rgen[r] \in Gens /\ rgen[r] <= made
    /\ \A c \in Calls : cpc[c] \in Uninstalled =>
          /\ cgen[c] # handler
          /\ \A r \in Requests : rpc[r] # "idle" => rgen[r] # cgen[c]
    /\ QueriesFinish

\* What a call does to its own place, others' places left alone.
LEMMA CallQueries ==
    ASSUME TypeOK, Accounts, QueryInv, NEW c \in Calls, Advance(c)
    PROVE  QueryInv'
<1> USE DEF TypeOK, QueryInv, QueriesFinish, Uninstalled
<1>1. /\ UNCHANGED <<made, rpc, rgen>> /\ made \in Nat
      /\ \A d \in Calls : d # c => cpc'[d] = cpc[d] /\ cgen'[d] = cgen[d] /\ old'[d] = old[d]
  <2>1. UNCHANGED <<made, rpc, rgen>> /\ made \in Nat
    BY GensFacts DEF Advance, ConfigureFails, OpenPool, Bootstrap, BootstrapFails, SetHandler, Bind, BindFails,
          KeepListener, RefuseChange, SwapPool, ClosePool, PoolClosed, configured, requests
  <2>2. \E next \in CallPCs : cpc' = [cpc EXCEPT ![c] = next]
    BY DEF Advance, ConfigureFails, OpenPool, Bootstrap, BootstrapFails, SetHandler, Bind, BindFails,
           KeepListener, RefuseChange, SwapPool, ClosePool, PoolClosed, Return, Goto, CallPCs
  <2>3. cgen' = cgen \/ cgen' = [cgen EXCEPT ![c] = 0]
    BY DEF Advance, ConfigureFails, OpenPool, Bootstrap, BootstrapFails, SetHandler, Bind, BindFails,
           KeepListener, RefuseChange, SwapPool, ClosePool, PoolClosed, Return
  <2>4. old' = old \/ \E prior \in {0, current} : old' = [old EXCEPT ![c] = prior]
    BY DEF Advance, ConfigureFails, OpenPool, Bootstrap, BootstrapFails, SetHandler, Bind, BindFails,
           KeepListener, RefuseChange, SwapPool, ClosePool, PoolClosed, Return
  <2> QED
    BY <2>1, <2>2, <2>3, <2>4
<1>2. cpc[c] # "idle" => cgen[c] \in Gens /\ cgen[c] <= made
                         /\ \A d \in Calls : d # c => cgen[d] # cgen[c]
  BY <1>1, GensFacts DEF Accounts, PoolTypes, OwnInv, ApartInv, Gens
<1>3. CASE ConfigureFails(c) \/ BindFails(c) \/ RefuseChange(c) \/ Bind(c) \/ KeepListener(c)
           \/ SwapPool(c)
  <2>1. /\ cpc[c] # "closing" /\ cpc'[c] \notin Uninstalled /\ UNCHANGED <<handler, pool>>
    BY <1>3 DEF ConfigureFails, BindFails, RefuseChange, Bind, KeepListener, SwapPool, Return, Goto, configured
  <2> QED
    BY <1>1, <2>1
<1>4. CASE OpenPool(c)
  <2>1. /\ cpc[c] = "migrate" /\ cpc'[c] = "bootstrap" /\ cgen' = cgen /\ handler' = handler
        /\ pool' = [pool EXCEPT ![cgen[c]] = "open"]
    BY <1>4 DEF OpenPool, Goto, configured
  <2>2. \A r \in Requests : rpc[r] # "idle" => pool'[rgen[r]] = pool[rgen[r]]
    BY <2>1
  <2> QED
    BY <1>1, <2>1, <2>2
<1>5. CASE Bootstrap(c)
  <2>1. /\ cpc[c] = "bootstrap" /\ cpc'[c] = "install" /\ UNCHANGED <<cgen, handler, pool>>
    BY <1>5 DEF Bootstrap, Goto
  <2> QED
    BY <1>1, <2>1
<1>6. CASE BootstrapFails(c)
  <2>1. /\ cpc[c] = "bootstrap" /\ cpc'[c] = "idle" /\ handler' = handler
        /\ pool' = [pool EXCEPT ![cgen[c]] = "closed"]
    BY <1>6 DEF BootstrapFails, Return, Goto
  <2>2. \A r \in Requests : rpc[r] # "idle" => pool'[rgen[r]] = pool[rgen[r]]
    BY <2>1
  <2> QED
    BY <1>1, <2>1, <2>2
<1>7. CASE SetHandler(c)
  <2>1. /\ cpc[c] = "install" /\ cpc'[c] \notin Uninstalled /\ handler' = cgen[c] /\ UNCHANGED pool
    BY <1>7 DEF SetHandler, Goto
  <2> QED
    BY <1>1, <1>2, <2>1
<1>8. CASE ClosePool(c)
  <2>1. /\ cpc[c] = "close" /\ cpc'[c] = "closing" /\ UNCHANGED <<handler, cgen, old>>
        /\ pool' = [pool EXCEPT ![old[c]] = "closed"]
    BY <1>8 DEF ClosePool, Goto, configured
  <2>2. ASSUME NEW r \in Requests, rpc[r] # "idle", rgen[r] # old[c]
        PROVE  pool'[rgen[r]] = pool[rgen[r]]
    BY <2>1, <2>2
  <2> QED
    BY <1>1, <2>1, <2>2
<1>9. CASE PoolClosed(c)
  <2>1. /\ cpc[c] = "closing" /\ cpc'[c] = "idle" /\ UNCHANGED <<handler, pool>>
        /\ \A r \in Requests : rpc[r] = "querying" => rgen[r] # old[c]
    BY <1>9 DEF PoolClosed, Return, Goto, configured
  <2> QED
    BY <1>1, <2>1
<1> QED
  BY <1>3, <1>4, <1>5, <1>6, <1>7, <1>8, <1>9 DEF Advance

\* No query loses its pool: Close returns only after the queries that run, and a
\* pool that a failed Configure closes has none, however Configures overlap
\* (main.go:79-83, 163-165).
THEOREM QueriesKeepTheirPool == Spec => []QueriesFinish
<1>1. Init => QueryInv
  BY DEF Init, QueryInv, QueriesFinish, Uninstalled
<1>2. TypeOK /\ Accounts /\ QueryInv /\ [Next]_vars => QueryInv'
  <2> SUFFICES ASSUME TypeOK, Accounts, QueryInv, [Next]_vars PROVE QueryInv'
    OBVIOUS
  <2>1. ASSUME NEW c \in Calls, Configure(c) PROVE QueryInv'
    <3>1. /\ cpc[c] = "idle" /\ cpc' = [cpc EXCEPT ![c] = "migrate"]
          /\ cgen' = [cgen EXCEPT ![c] = made + 1] /\ made' = made + 1
          /\ UNCHANGED <<handler, pool, old, rpc, rgen>>
      BY <2>1 DEF Configure, Goto, requests
    <3>2. made \in Nat /\ handler # made + 1 /\ handler \in Nat
          /\ \A r \in Requests : rpc[r] # "idle" => rgen[r] # made + 1 /\ rgen[r] \in Nat
      BY GensFacts DEF TypeOK, QueryInv
    <3> QED
      BY <3>1, <3>2 DEF QueryInv, QueriesFinish, Uninstalled, TypeOK
  <2>2. ASSUME NEW c \in Calls, Advance(c) PROVE QueryInv'
    BY <2>2, CallQueries
  <2>3. ASSUME NEW r \in Requests, Arrive(r) PROVE QueryInv'
    <3>1. /\ rpc' = [rpc EXCEPT ![r] = "running"] /\ rgen' = [rgen EXCEPT ![r] = handler]
          /\ handler # 0 /\ UNCHANGED <<made, handler, pool, cpc, cgen, old>>
      BY <2>3 DEF Arrive, configured, calls
    <3>2. handler \in Gens
      BY <3>1 DEF TypeOK, Gens
    <3> QED
      BY <3>1, <3>2 DEF QueryInv, QueriesFinish, TypeOK
  <2>4. ASSUME NEW r \in Requests, Acquire(r) \/ QueryReturns(r) \/ RotateSecret(r) \/ Reply(r)
        PROVE  QueryInv'
    <3>1. /\ rpc[r] # "idle" /\ UNCHANGED <<made, handler, pool, cpc, cgen, old>>
          /\ \/ /\ rgen' = rgen
                /\ \/ rpc' = [rpc EXCEPT ![r] = "running"]
                   \/ rpc' = [rpc EXCEPT ![r] = "querying"] /\ pool[rgen[r]] = "open"
             \/ rpc' = [rpc EXCEPT ![r] = "idle"] /\ rgen' = [rgen EXCEPT ![r] = 0]
      BY <2>4 DEF Acquire, QueryReturns, RotateSecret, Reply, configured, calls
    <3>2. /\ \A s \in Requests \ {r} : rpc'[s] = rpc[s] /\ rgen'[s] = rgen[s]
          /\ rpc'[r] # "idle" => rgen'[r] = rgen[r]
          /\ rpc'[r] = "querying" => pool[rgen[r]] = "open"
      BY <3>1 DEF TypeOK
    <3> QED
      BY <3>1, <3>2 DEF QueryInv, QueriesFinish
  <2>5. CASE Signal \/ UNCHANGED vars \/ \E r \in Requests : NotReady(r)
    BY <2>5 DEF Signal, NotReady, vars, calls, requests, QueryInv, QueriesFinish
  <2> QED
    BY <2>1, <2>2, <2>3, <2>4, <2>5 DEF Next
<1>3. QueryInv => QueriesFinish
  BY DEF QueryInv
<1> QED
  BY <1>1, <1>2, <1>3, AccountsKept, Typing, PTL DEF Spec
=============================================================================
