# Verification of silo-plugin-public-catalog

The plugin shows part of a Silo media library to anonymous visitors. It runs as
a process of the Silo host, is configured by an RPC, keeps its settings in one
database row, and serves HTTP both through the host and on a listener of its
own. The modules here model its concurrent core, the rules of who may see what,
and the browser page that walks the catalog; TLC checks them on small instances
and TLAPS proves the safety properties for every value of the constants.

    tlc -workers 2 -config ConfigStore.cfg MCConfigStore    # one run
    tlapm ConfigStoreProofs.tla                             # one set of proofs

`PROJECT.json` lists the runs, the source lines every definition stands for, one
mutation of the code per checked property, the disagreements found between code
and documentation, the hazards of the code and the theorems.

## The system

| Part | Code | State | Operations |
| --- | --- | --- | --- |
| Lifecycle | `cmd/.../main.go`, `httproutes/server.go`, `runtime/runtime.go`, `migrate/runner.go` | the installed handler, the current pool, the standalone listener (bound once), what each handler captured | Configure: migrate, open a pool, Bootstrap, install the handler, bind, swap and close pools; requests; the signal handler |
| Configuration store | `store/config.go`, `store/store.go`, `store/password.go`, `server/handlers_admin_api.go`, `server/handlers_auth.go` | the `app_config` row; the library floor `publicLibraryIDs` in memory | GetConfig, UpdateConfig, Bootstrap, ClearCatalogPassword, RehashCatalogPassword; PATCH and GET config, save HTML, delete password, login |
| Login gate | `server/ratelimit.go`, `server/handlers_auth.go` | failures and lockouts per address; the slots of the bcrypt semaphore | allow, recordFailure, recordSuccess, sweep; acquire, release |
| Request limiter | `server/ratelimit.go` | a window and a count per address | allow, sweep |
| Catalog cache | `server/cache.go`, `server/handlers_catalog.go`, `server/handlers_landing.go` | cached pages and filters with their expiry | get, set, prune, evict |
| Library scope | `store/store.go`, `server/validation.go` | none (reads the floor) | cleaning ids and media types; merging token and request; intersecting with the floor |
| Access gate | `server/token.go`, `server/handlers_auth.go`, `server/middleware.go` | signed tokens and cookies at the clients | making a token, login, verification, open catalog |
| Saved links | `store/saved_links.go`, `server/handlers_admin_api.go` | the `saved_catalog_links` table | upsert, list, look up, delete |
| Catalog queries | `store/catalog_*.go`, `server/pagetoken.go` | the host's tables; signed offsets at the clients | lists, filters, details, seasons, episodes; sign, verify, cap |
| Statistics | `server/stats.go`, `server/host.go`, `server/cache.go` | two caches of counts per scope, shared by pointer | database counts, host counts, companion plugins |
| Catalog browser | `web/src/pages/*.tsx`, `web/src/api/*.ts` | the toolbar, the list on screen, the next page token, the fetches in flight | search, filter, load more, detail |
| Images | `store/catalog_image.go`, `server/handlers_catalog.go` | none | addresses of posters and backdrops |
| Admin pages | `web/src/components/admin/*.tsx` | forms | PATCH bodies |
| Pages and assets | `server/spa.go`, `server/sanitize.go`, `web/` | none | rendering |

How they interact. Configure builds a pool, a `Store` on it and a handler that
captured both and the token secret of that moment; the caches, the limiters and
the semaphore belong to that handler. Every request reads the handler once and
stays with it. Each `GetConfig` copies the stored allowlist into the floor, and
each catalog query intersects its scope with the floor. The cache stands between
the handlers and those queries and does not know the floor. A catalog request
narrows twice: the token's libraries and media types by those it names, the
result by the floor. The browser holds what it was sent and asks for more by a
token of the list it holds. Nothing in the plugin holds a lock across a database
call.

What is hard here: read-modify-write of one row by many goroutines; the floor as
a second copy of a stored field; clock readings taken before a mutex; a
check-then-act limiter around a slow verification; caches that outlive the
rule they were loaded under; a sequence of start-up steps that can fail anywhere
while requests run; six routes that must each narrow in the same way, over rows
that are joined differently in each; and in the browser answers that arrive
after the question has changed. The hazards in `PROJECT.json` give the lines.

What makes each part correct:

- Lifecycle: the installed handler can always reach its database; success means
  bound and the old pool closed; Configure returns.
- Configuration store: secrets and listener survive every write order, no
  plaintext survives a write, the floor is a list that was stored and follows
  the row.
- Login gate: lockouts refuse what they should, guesses per time are bounded,
  slots are neither lost nor given away, the map is swept.
- Request limiter: at most two windows' worth in a window, no refusal below the
  limit, the map is swept.
- Catalog cache: to a visitor it is as if there were none, but that an edit of
  the allowlist takes a bounded time; the caps hold, old entries go first.
- Library scope, access gate, queries: no route answers with more than the
  allowlist and the token allow, what is listed opens, what is offered as a
  filter leads somewhere.
- Saved links: a page that was given away keeps its address.
- Catalog browser: what is shown is of what the toolbar says, load more neither
  skips nor repeats, and the page comes to rest.
- Statistics: counts are out of date by a bounded time, each companion is in
  them once, and they follow the allowlist.

## Modules

Each component is a module that states its behaviour and its properties; an `MC`
module instantiates it for TLC and a `Proofs` module holds its theorems. A
process is a goroutine. An action is what a goroutine does between two points
where another can run: a database round trip, the taking of a mutex, a channel
operation. Some modules hold *history* variables that only properties read; they
are marked so. A definition named in a comment as a mutant of another is that
definition with a plausible error; runs do not use it.

**ConfigStore** models `store.go`, `config.go` and their callers. `row` is the
decoded row, `floor` is `Store.publicLibraryIDs`, `snap` the configuration a
goroutine last read, `draft` the one it is about to write. `SelectRow`,
`EnsureRow` are the statements of `GetConfig`, and `SetPublicLibraryIDs` its
last line, a step of its own because nothing is held in between. What a caller
then does up to its next statement belongs to the step in which `GetConfig`
returns to it: `GetReturns`, `HtmlReturns`, `ClearReturns`, `RehashReturns`,
`LoginReturns`, `PatchReturns`, `BootstrapReturns`. `UpdateConfig` is the
upsert. Errors and lost answers are `DatabaseError` and `AnswerLost`; `Restart`
ends the process at any point. A JSON body is the set of fields it names and
their values, and `Decode` gives the rest their zero value. Abstractions: a hash
is the password it verifies; `html` stands for every field no code branches on;
what `HashCatalogPassword` refuses is covered by `DatabaseError` of the same
step. `WriteLegacyPassword` is external: the manual update that
`docs/debugging.md:90-94` talks about.

**LoginGate** models `loginLimiter`, `bcryptSemaphore` and `hCatalogLogin`.
`allow` and `recordFailure` read the clock and then wait for the mutex, so each
is two steps, and `stamp` keeps the reading. `sentence` and `failed` are history:
when the last lockout ends, and when each address failed since its last success.

**RequestLimiter** models `ipRateLimiter` in the same way; `passed` is history:
when each address was let through.

**LibraryView** is abstract: a visitor asks about libraries and is shown some of
them, each exactly if it is on the floor, unless it entered or left the floor
less than `Delay` before. It knows no cache, no query and no expiry.

**CatalogCache** models `catalogCache` and the handlers that read through it. A
response is the set of libraries its query was scoped to. A miss reads the floor
(`ReadFloor`, in `allowedLibraryIDs`), queries, and stores (`StoreResponse`)
under the lock again; the floor may change in between, as may the entry.
`hCatalogPage` does this twice. `since` is history: when a library last entered
or left the floor. It implements LibraryView (`Visible` is the instance,
`ViewIsFaithful` the property): a visitor is a request in flight, what it is
shown is the response it answers with, and `Delay` is `TTL + MaxLoad`.

**LibraryScope** holds the pure part of narrowing, without state: `cleanIDs`,
`cleanMediaTypes`, `mergeLibraryIDs`, `mergeMediaTypes` and `allowedLibraryIDs`
as operators over sets, with their two conventions that an empty list is no
restriction and that a denial is told apart from one.

**CatalogQueries** says which rows each SELECT returns, as operators over a
record of the host's tables: the item and episode lists, genres and years, the
three kinds of detail, libraries and qualities of a detail, seasons and episodes.
Each keeps the joins and the conditions it has in the SQL, which differ: a list
of episodes asks for the episode's libraries and a detail for those of its
series; seasons do not ask for the status. Order and pages are in
CatalogBrowser. What the host keeps of its own tables is one assumption,
`EpisodesWithSeries`.

**CatalogAccess** composes the two with the gate. A token is its claims and the
secret that signed it. The operator makes tokens, and links of them in a second
step (`SaveCatalogLink`), logs in, deletes links, and changes allowlist,
password and secret at any time. A request is handed to the handler and verified
(`Arrive`), passes once the row is read (`Pass`) or is refused, reads the floor
(`ReadFloor`), queries (`Query`) and replies. `public` and `opened` are history:
what was public, and whether the catalog was open, at some time of the request.
The host's tables do not change in a behaviour, but `Databases` holds several.

**CatalogBrowser** models `Catalog.tsx` and the pages it is sent. Each callback
of the page is an action: `ChangeToolbar` runs the cleanups and the effects,
`StartFetch` is the debounce timer, `FetchDone`, `FetchFails`, `FiltersDone`,
`FiltersFail` and `MoreDone`, `MoreFails` settle the three kinds of fetch,
`LoadMore` is the click. `Answers` is the server: a page of any version the
result has had, since the response cache may still hold it, cut and signed by
`PageAnswer`, or refused beyond `MaxOffset`, or lost. `NoAnswer` stands for two
things the page cannot tell from an empty list: a body that breaks off, which
`api.ts` turns into an empty object, and a host that fails, which
`hCatalogMedia` answers with an empty page. A result changes by `Edit`: items
come and go, and rows that the sort does not tell apart may change places. The
history in `list` says which queries its pages are of and whether they are of
one version.

**Lifecycle** models `applyConfig`, statement by statement, for the generations
it makes: `deps` is what a generation's handler captured, `pool` the state of
its pool. The Once and the bind under it are one step, since everybody else
waits for it. `pgxpool.Pool.Close` is external and modelled from its use: it
refuses new acquisitions at once (`ClosePool`) and returns when the connections
in use are back (`PoolClosed`). ConfigStore has the steps inside Bootstrap;
here it is one.

**StatsPipeline** models `publicCatalogStats` and the two caches behind it. A
payload is where its counts come from, the version of the library and the
libraries they were counted on, and how often each companion plugin was added;
a version changes with `Import`. A request looks in `storeStatsCache`, else reads
the floor and queries (`ReadFloor`, `QueryStore`), else goes through
`statsCache` to the host (`HostStats` to `HostAnswers`). `storeStatsCache` reads
the clock under its mutex and dates an entry from the end of the load;
`statsCache` reads it before and dates the entry from there (`stamp`). Companions
answer or not, each on its own. `since`, `replaced` and `start` are history. A
version is that of the first of the three queries; `scopeCatalogStats`, the
conversions between the two payload types and the response's cache header keep
no state and are left out.

The modules share `Store.publicLibraryIDs` and the configuration row. ConfigStore
owns both; in CatalogCache, StatsPipeline and CatalogAccess the floor changes
arbitrarily (`SetPublicLibraryIDs`), which covers every way ConfigStore changes
it, and in Lifecycle the row has only what captures and binds.

## Runs

Passing runs, with the question each asks:

| Run | Instance | What it shows |
| --- | --- | --- |
| ConfigStore | 2 goroutines, 2 writes, 1 restart, 1 fault, 1 outside write, 2 old rows and the empty one, 4 PATCH bodies, fairness | No interleaving loses the secret, stores a plaintext, changes the listener, or installs a floor that was never stored; a start seeds a row at its defaults only; once writes stop the floor settles on the stored allowlist |
| LoginGate | 1 address, 2 logins, 1 slot, clock readings up to 1 old, fairness | Lockouts, the number of guesses in a lockout's length, slots, sweep; every login is answered |
| RequestLimiter | 2 addresses, 2 requests, clock readings up to 1 old | Window budget, no refusal below it |
| CatalogCache | 2 requests, 1 library, 2 shapes of query, maps of one entry | The handlers with their caches implement LibraryView; caps and the order of eviction |
| CatalogAccess | 1 request on any of 6 routes, 1 token and 2 secrets, 2 link names, 2 slugs, 3 allowlists, 2 states of the host's tables | Nobody is shown more than the allowlist and the token allow; what is listed opens; filters lead somewhere; links keep their page |
| CatalogBrowser | 2 queries over 5 items, pages of 2, a first page of 3, 2 changes of the toolbar, 3 clicks, 1 edit, fairness | The list is of the toolbar or an error is shown; pages join; the page comes to rest |
| Lifecycle | 3 Configures, 2 at a time, 1 request, 1 database, 2 addresses, fairness | The handler's pool is open if they take turns from SetHandler to the swap; no pool is lost or closed before its turn; success means bound and closed; Configure returns |
| StatsPipeline | 2 requests for all of 1 library, 1 companion, 1 import | Counts are recent, companions counted once, the database's counts follow the allowlist |

The other runs show a disagreement between the code and what its own comments
or documents say; each is a finding with the quoted line:

| Run | Shortest story |
| --- | --- |
| ConfigStoreLag | A landing hit reads the row; a PATCH stores and installs a new allowlist; the hit installs the old one |
| ConfigStoreRehash | A legacy login leaves a rehash behind; the operator changes the password; the rehash puts the old one back |
| StatsPipelineFloor | The allowlist is empty, so the database is denied; the host is asked and its counts of every library are shown |
| CatalogBrowserStale | Load more is clicked and the toolbar changed; the first page of the new query arrives and then the page of the old one, which is appended to it |

The models also show behaviour worth knowing that no run is spent on:

- A landing page save that read the row before the password was deleted writes
  it back and protects the catalog again (`hSaveHTMLSection`, `config.go:166`).
- A PATCH that leaves fields out resets them, so that a body with one toggle
  empties the allowlist; `admin.ts:8-9` says they are left unchanged.
- A rotated token secret is stored while the handler keeps the one it captured,
  until the next Configure; `docs/operations.md:106` says the change ends all
  tokens and needs no restart.
- Every lockout is as long as the first, although `ratelimit.go:115` calls it
  escalating.
- A cached answer shows a removed library until it expires: the `Delay` of
  LibraryView.
- Two Configures that overlap can leave a handler on a closed pool: they swap
  the handler in one order and the pool in the other (`main.go:93,163`).
  `HandlerPoolOpen` is therefore stated for calls that take turns at these two
  steps (`Orderly`), however else they overlap. No pool is lost by it
  (`PoolsBalance`), and no query either (`QueriesKeepTheirPool`).
- A request that has yet to make its database call when a Configure succeeds
  finds its pool closed (`main.go:164`): the handler stays, as
  `docs/architecture.md:27-29` says, but what it asks of the database fails.
- A Configure that fails at the listener has opened a pool that nothing closes
  later, since only the swap knows the pool before it; and it has used the Once
  up, so that the next address is refused as a change from one that was never
  bound (`main.go:111-162`).
- `docs/architecture.md:161-165` says that the host's counts replace the
  database's when those are all zero; the quality query returns its three buckets
  whatever they count, so an answer of the database is always kept and only a
  denial or an error leads to the host.
- A token in the address that is not good is refused even if the cookie beside
  it is, or the catalog is open. `handlers_auth.go:121-124` says that an
  unprotected catalog, "or the DB is unreachable", is open; a configuration that
  cannot be read refuses.
- Library ids of a token that are no numbers are dropped, and a token of nothing
  else is one for the whole allowlist, where `docs/tokens-and-auth.md:92` calls a
  token's libraries the outer bound: hence `Bounding` in `Entitled`.
- Details, seasons and episodes do not ask for the token's media types, and
  federated sources are not told the libraries (`RuntimeHostSource.List`): hence
  their exceptions in `Entitled`.
- The years of episodes are offered whatever the status of their series, and may
  lead to an empty list; an upper bound on the year keeps episodes without a year
  and drops items without one.
- A page token is signed whatever its offset and refused beyond
  `maxCatalogOffset` (`pagetoken.go:12-18,71`), so the end of a long list ends in
  an error.
- The page embeds 60 items and refetches 48. A load more clicked in between
  continues the 60: what lies between is skipped, and `whole` is false.
- The filters are fetched at every change of the toolbar while a library or type
  is selected, since their arrays are new ones each time; `Catalog.tsx:94-95`
  says they change only with the library or type.

Bounds. The counters (`MaxWrites`, `MaxStarts`, `MaxFaults`, `MaxLegacy`,
`MaxCalls`, `MaxRotations`, `MaxTime`) only stop TLC; the proofs hold for any.
Two goroutines suffice for a race of one read-modify-write with another, and two
writes put one between the read and the write of the next. `MaxFailures` and
`Limit` are 2, `Lockout` and `Window` a few units: the smallest values at which
the counter, the reset and the seam between two windows all occur, with
`MaxTime` long enough for a lockout to end, a sweep to run and a second lockout
to begin. A cap of one makes every second store an eviction. Three Configures
allow a success, a failure after it and a success after that, and two at a time
put any step of one between two of the other; one database is enough, since
calls meet in the handler, the pool and the listener only. `MaxLag` and
`MaxLoad` are assumptions rather than bounds: how long a goroutine may wait for
a mutex, and how long a request may take. The code sets no such limit, and the
properties say by how much they depend on it. LoginGate has one address since
the limiter keeps nothing that two addresses share but the slots; the proofs
cover any number. StatsPipeline has one
library and one scope, since the caches keep nothing that two scopes share, and
its floor is that library or nothing: an edit in each direction; `MaxTime` lets
an entry expire and another be loaded. CatalogAccess has one request, since two
share nothing but the floor and the row, which change at any time anyway; its
allowlists are none, one and both of two libraries; its tables hold a film, a
series, a season and an episode, all matched in one state, and in the other the
series is not and is in one library while the film is a book in both; its scopes have a number off the
allowlist, a number on it and a text that is none. In CatalogBrowser five items
are three pages, a `MaxOffset` of 3 refuses a page that was signed, two changes
of the toolbar lead away and back, and three clicks put one before, one between
and one after. Symmetry is declared in CatalogCache,
RequestLimiter and StatsPipeline only, which check no liveness.

Runs never deadlock: a goroutine with nothing left to do leaves arrivals
possible in every module but at the bounds of time and calls, where a
configuration read (ConfigStore), a cached answer (CatalogCache, StatsPipeline),
an admitted request (LoginGate, RequestLimiter) or a request (Lifecycle) still
is. CatalogBrowser alone is checked without: its visitor may do nothing more,
and then the page rests.

Fairness. A runnable goroutine runs (WF on its next step), database calls
return, and the scheduler does not leave a sender on the semaphore's channel for
ever (SF on `Acquire`: Go serves blocked senders in order). In ConfigStore the
host retries Configure until the plugin runs and landing pages keep being read,
which is what makes the floor converge; the code has no other refresh. In
Lifecycle nothing obliges the host to call Configure again, and requests end.
In CatalogBrowser the timer fires and every fetch is answered or fails in the
end, as a browser sees to; nothing is asked of the visitor.

## Proofs

Every theorem is of the form `Spec => []P` or `Spec => [][A]_vars` for all
values of the constants under the module's named assumption, but for the
conditional ones named at the end. For each module one
inductive invariant is proved action by action and the properties follow.

- **ConfigStoreProofs.** `Typing`; then `FloorIsSaved`: a floor is copied from a
  snapshot, and a snapshot from a row, so the invariant adds that every snapshot's
  allowlist is in `saved`. `PatchReadsItsWrite` adds that versions only grow and
  that nobody's `wrote` exceeds `ver`. `SecretIsKept` and
  `NoPlaintextIsPersisted` rest on `StartInv`: until the plugin is ready only the
  starting goroutine runs, and everything a request later drafts comes from a row
  that had a secret and no plaintext. `ListenerIsFixed` and
  `ManifestSeedsDefaultsOnly` follow from the same invariants.
- **LoginGateProofs.** `Inv` ties each map entry to the lockout it stands for:
  an address under an unlifted lockout has an entry that says so, or the lockout
  is too old for any reading still pending. That is what a sweep must not break,
  and `MaxLag` enters there. `SlotsMatchVerifiers` counts the verifiers.
  `GuessesAreBounded` needs `CountInv`: of each recent failure, the entry of its
  address still counts those after it, or the address is locked out for as long
  as that failure is recent, and then those after it and the requests past the
  limiter (`InFlight`) together stay within the budget, since a lockout lets
  nobody in and each of them adds a failure at most. `LockoutsAreEarned` is the
  other side: an entry counts failures that were, and a lockout ends within its
  length of one that made enough of them.
- **RequestLimiterProofs.** `Tally` relates a bucket to the times in `passed`: it
  counts the last of them, none before its window began, and those before are
  old enough for that window, or a budget's span in the past but for `Limit` of
  them. A count, a reset and a sweep keep it, and both `BudgetIsKept` and
  `RefusalsAreEarned` are read off it. What a sweep leaves (`MapIsSwept`) is
  proved here and checked for the login gate only.
- **CatalogCacheProofs.** `Inv` says that an entry, and a response on its way
  into the cache, is *sound*: it shows a library as allowed exactly if it is, or
  was loaded before the library's last change and so expires within a lifetime
  and a load of it. `EditsReachResponses` is that statement at the time of an
  answer, and `ViewIsKept` the refinement: the initial states map to initial
  states of LibraryView, an arrival to `Ask`, an answer to `Show`, whose
  promise is the soundness of what is answered, and the steps inside a request
  and the cache to a stutter. The eviction theorems need `Cardinality` facts
  about the sets removed.
- **CatalogAccessProofs.** `VisitInv` says how the answer of a request comes
  about: the scope is one its claims give, the ids come of a floor seen during
  it, and what is shown is what the queries return for these. `Entitled`,
  `ListedOpens` and `FiltersLeadSomewhere` are then facts about the queries, for
  any tables: `Entitled` of what a merged and floored scope can hold,
  `ListedOpens` of a row of a list against the conditions of a detail (where
  `EpisodesWithSeries` enters), `FiltersLeadSomewhere` of a value offered against
  a list filtered by it. `LinksInv` says that no two links share a slug.
- **CatalogBrowserProofs.** `FlightInv` says that no fetch but the aborted ones is
  of a toolbar moved past, which gives `HeadIsCurrent`. For `ListIsPrefix` the
  invariant adds what a page in flight continues: there is one at a time
  (`MoreInv`), its token is the list's while it is fresh, and the list ends where
  its token says (`ListInv`); the lemmas about `SubSeq` say that a page joins a
  prefix.
- **StatsPipelineProofs.** `Sound(payload, scope, t)` says that a payload was
  right at some time no earlier than t: its version had not been replaced before
  t, and the database's part agrees with the floor on each library that has not
  changed since t. `Inv` carries it from the query (t is the start of the
  request) or the call (the reading of the clock) into the entry (its expiry less
  a lifetime and a load) and out to the answer; `SoundEarlier` lets t move back at
  each of these. `Bare` and `Once` follow the companions: a payload they are added
  to has none. Steps outside the requests keep `Sound` because what they change
  changes now.
- **LifecycleProofs.** Nothing orders the generations of calls that overlap.
  `Accounts` says instead whose each pool is: those which calls make and close
  are all different, and none is closed before its own call has swapped it in.
  `PoolsStayBalanced` is part of it; `Typing` adds that handlers in use have a
  pool (`UseInv`), `SuccessBinds` what the address is once the Once has run
  (`BoundInv`), `QueriesKeepTheirPool` that no request is in a generation yet to
  be installed (`QueryInv`). All of these hold however calls overlap.
  `HandlerKeepsPool` assumes `[]Orderly`: then the handler is that of the call
  whose turn it is, and no call is to close its pool (`HandlerInv`).

Four theorems say how far what the code does not keep is from holding. Each names
what has to be ruled out for the violated property to hold, and so says that
nothing else breaks it. Its hypothesis restricts the behaviours and not the
constants; TLC found no counterexample to any of the four on the instances of the
findings, with more writes, clicks and changes.

| Property | Theorem | Holds as long as |
| --- | --- | --- |
| `FloorExactWhenIdle` | `FloorLagsByOvertaking` | configuration calls take turns and none fails halfway |
| `RehashKeepsPassword` | `RehashRevertsByOvertaking` | goroutines take turns and outside writes wait for them |
| `FloorOnEveryPath` | `OnlyTheHostLeavesTheFloor` | no request turns to the host |
| `NoPageOfThePast` | `OnlyMoreOutlives` | the toolbar keeps its query while load more fetches |

Only model-checked: the liveness properties (`FloorFollowsRow`, `LoginAnswered`,
`ConfigureReturns`, `Settles`), which TLAPS does not do. Every safety property of
the passing runs is a theorem.

## Not modelled

- Images: best effort decoration of contents that are shown anyway; no state.
- Pages and assets: rendering, sanitising and serving are functions of their
  input and I/O. `publicCatalogPreview` is called by nothing.
- The detail page of the browser, one fetch per address, and the forms of the
  admin pages; the bodies these send are inputs of ConfigStore.
- The signature of tokens: a token verifies if its secret is the handler's. The
  admin gate looks at two headers that the host sets.
- The host: its lists are modelled as far as the plugin relies on them
  (`HostMedia`, `HostStats`). A plugin without a database, which asks the host
  for everything, is not: it has no floor and no cache to get wrong.
- Response caches and edits of the host's tables inside CatalogAccess: what
  caches change is CatalogCache's, and what edits do to pages CatalogBrowser's.
- Landing lookups by slug read a link and show its HTML.

## Plan

1. Done: ConfigStore, LoginGate, RequestLimiter, CatalogCache, Lifecycle and
   StatsPipeline, with proofs.
2. Done: LibraryScope and CatalogQueries as operators; CatalogAccess over them,
   with the gate and the saved links, and its proofs.
3. Done: CatalogBrowser with the pages it walks, and its proofs.
4. Done: LibraryView, and the refinement CatalogCache shows.
5. Done: the counting properties of the two limiters over sequences of times, in
   a form TLAPS can prove; the lifecycle for overlapping Configures.
6. Next: CatalogService, ConfigStore's floor under CatalogCache, so that the
   `Delay` of LibraryView is counted from the edit of the row; the detail page
   beside the list it was opened from.
