---------------------------- MODULE CatalogBrowser ----------------------------
(***************************************************************************)
(* The catalog browser in a visitor's tab (web/src/pages/Catalog.tsx) and  *)
(* the pages the server cuts for it (internal/store/catalog_media.go,      *)
(* internal/server/pagetoken.go): the toolbar with its debounced fetch     *)
(* that a change aborts, the fetch of the filters, "load more" by page     *)
(* token, and a library that changes meanwhile.                            *)
(*                                                                         *)
(* JavaScript runs one callback at a time: each is an action.  The answer  *)
(* of the server is computed between the question and its delivery, or     *)
(* comes from the response cache: it is of any version the result has had. *)
(***************************************************************************)
EXTENDS Integers, Sequences

CONSTANTS
    Queries,      \* what a toolbar can ask for
    Home,         \* the query the page opens with
    Route,        \* who answers a query: the database or the host
    Scope,        \* the library and type of a query, which its filters depend on
    Plain,        \* the scope of no library and no type
    NoScope,      \* no filters yet
    Items,
    Results,      \* what a query can result in
    FirstResult,  \* ... and does at first
    PageSize,     \* 48
    BootSize,     \* the page the server embeds (60)
    MaxOffset,    \* maxCatalogOffset (50000)
    MaxChanges,   \* bound: changes of the toolbar
    MaxClicks,    \* bound: clicks on "load more"
    MaxEdits      \* bound: changes of the library

ASSUME BrowserAssumption ==
    /\ Home \in Queries
    /\ Route \in [Queries -> {"db", "host"}]
    /\ Results \subseteq Seq(Items)
    /\ FirstResult \in [Queries -> Results]
    /\ PageSize \in Nat \ {0} /\ BootSize \in Nat \ {0}
    /\ {MaxOffset, MaxChanges, MaxClicks, MaxEdits} \subseteq Nat

VARIABLES
    versions,     \* per query: its results, the latest last
    toolbar,
    list,         \* items, nextPageToken, totalCount, and where they are from
    timer,        \* debounceTimer is set
    main,         \* the fetches of a first page that are not aborted
    more,         \* the fetches of loadMore
    loadingMore,
    error,        \* an error is shown
    filters,      \* the scope the filters are of
    asks,         \* the scopes whose filters are fetched, less those cancelled
    stale,        \* the last fetch of filters failed
    changes, clicks, edits

vars == <<versions, toolbar, list, timer, main, more, loadingMore, error,
          filters, asks, stale, changes, clicks, edits>>

Scopes == {Scope[q] : q \in Queries}

-----------------------------------------------------------------------------
(* The server. *)

\* Page tokens: offsets of the database, cursors of the host.
NoToken == [kind |-> "none", at |-> 0]

Token == [kind : {"none", "offset", "cursor"}, at : Nat]

\* LIMIT and OFFSET.
Page(result, at, size) ==
    SubSeq(result, at + 1, IF at + size < Len(result) THEN at + size ELSE Len(result))

\* The token of the next page: the rows before it, while the total is more.
TokenAfter(kind, result, at, size) ==
    IF at + Len(Page(result, at, size)) < Len(result)
    THEN [kind |-> kind, at |-> at + Len(Page(result, at, size))]
    ELSE NoToken

\* verifyPageToken: an offset beyond the cap is refused, though the server
\* signed it.
Refused(token) == token.kind = "offset" /\ token.at > MaxOffset

KindOf(q) == IF Route[q] = "db" THEN "offset" ELSE "cursor"

\* Where a page starts.  The database reads a cursor of the host as no offset;
\* what the host makes of an offset is its own affair.
Starts(q, token, result) ==
    IF token.kind = KindOf(q)
    THEN {token.at}
    ELSE IF token.kind = "offset" THEN 0 .. Len(result) ELSE {0}

Answer == [items : Seq(Items), next : Token, total : Nat, ver : Nat, lost : BOOLEAN]

\* {}: the body was lost, which api() does not tell from an empty object, or
\* the host failed, which hCatalogMedia answers with an empty page.
NoAnswer == [items |-> <<>>, next |-> NoToken, total |-> 0, ver |-> 0, lost |-> TRUE]

\* A page of the size asked for, of version v from position at.
PageAnswer(kind, result, at, size, v) ==
    [items |-> Page(result, at, size),
     next  |-> TokenAfter(kind, result, at, size),
     total |-> IF at < Len(result) THEN Len(result) ELSE 0,
     ver   |-> v,
     lost  |-> FALSE]

\* What a fetch may be answered.
Answers(f) ==
    {NoAnswer} \cup
    IF Refused(f.token)
    THEN {}
    ELSE UNION {{PageAnswer(KindOf(f.query), versions[f.query][v], at, PageSize, v) :
                    at \in Starts(f.query, f.token, versions[f.query][v])} :
                v \in 1 .. Len(versions[f.query])}

-----------------------------------------------------------------------------
(* The list. *)

\* no: the change or the click it is of; fresh: the list is still the one that
\* the page was to continue.
Fetch == [no : Nat, query : Queries, token : Token, fresh : BOOLEAN]

\* head is the query of the first page, of those of all pages with items; whole says that the
\* pages, of version ver, were each asked for to continue this list, and came.
List == [items : Seq(Items), next : Token, total : Nat, head : Queries, of : SUBSET Queries,
         ver : Nat, whole : BOOLEAN]

FirstPage(q, a) ==
    [items |-> a.items, next |-> a.next, total |-> a.total, head |-> q, of |-> {q},
     ver |-> a.ver, whole |-> ~a.lost]

\* setItems((current) => [...current, ...]); the total stays.
Extended(l, f, a) ==
    [l EXCEPT !.items = l.items \o a.items,
              !.next  = a.next,
              !.of    = IF a.items = <<>> THEN l.of ELSE l.of \cup {f.query},
              !.whole = /\ l.whole /\ f.fresh /\ ~a.lost /\ a.ver = l.ver
                        /\ f.token.kind = KindOf(f.query)]

\* The list a fetch of more pages was to continue is gone.
Outdated(fetches) == {[f EXCEPT !.fresh = FALSE] : f \in fetches}

TypeOK ==
    /\ versions \in [Queries -> Seq(Results)]
    /\ toolbar \in Queries
    /\ list \in List
    /\ timer \in BOOLEAN
    /\ main \subseteq Fetch /\ more \subseteq Fetch
    /\ \A f, g \in main : f = g
    /\ loadingMore \in BOOLEAN
    /\ error \in BOOLEAN
    /\ filters \in Scopes \cup {NoScope}
    /\ asks \subseteq Scopes
    /\ stale \in BOOLEAN
    /\ {changes, clicks, edits} \subseteq Nat

\* The page embeds a first page and filters, or either failed; both effects run
\* at once.
Init ==
    /\ versions = [q \in Queries |-> <<FirstResult[q]>>]
    /\ toolbar = Home
    /\ list \in {FirstPage(Home, NoAnswer),
                 FirstPage(Home, PageAnswer("offset", FirstResult[Home], 0, BootSize, 1))}
    /\ timer = TRUE
    /\ main = {} /\ more = {}
    /\ loadingMore = FALSE
    /\ error = FALSE
    /\ filters \in {NoScope, Scope[Home]}
    /\ asks = {Scope[Home]}
    /\ stale = FALSE
    /\ changes = 0 /\ clicks = 0 /\ edits = 0

-----------------------------------------------------------------------------
(* The toolbar. *)

\* Mutant of Aborted: the fetch goes on.
AbortedNot(fetches) == fetches

\* controller.abort().
Aborted(fetches) == {}

\* An aborted fetch ends silently, unless its body was being read: api() catches
\* that and delivers an empty object, or the error of a failed reply.
AbortOutcome ==
    \/ UNCHANGED <<list, more, error>>
    \/ \E f \in main :
          /\ list' = FirstPage(f.query, NoAnswer)
          /\ more' = Outdated(more)
          /\ UNCHANGED error
    \/ main # {} /\ error' = TRUE /\ UNCHANGED <<list, more>>

\* The arrays of library and types are new ones at every change, so the filters
\* are fetched again unless there are neither.
FiltersEffect(q) ==
    IF Scope[toolbar] = Plain /\ Scope[q] = Plain THEN UNCHANGED asks ELSE asks' = {Scope[q]}

\* A new value, perhaps an equal one: the cleanups of both effects, and the
\* effects.
ChangeToolbar ==
    /\ changes < MaxChanges
    /\ changes' = changes + 1
    /\ \E q \in Queries : toolbar' = q /\ FiltersEffect(q)
    /\ main' = Aborted(main)
    /\ timer' = TRUE
    /\ AbortOutcome
    /\ UNCHANGED <<versions, loadingMore, filters, stale, clicks, edits>>

\* The timer fires.
StartFetch ==
    /\ timer
    /\ timer' = FALSE
    /\ main' = main \cup {[no |-> changes, query |-> toolbar, token |-> NoToken, fresh |-> TRUE]}
    /\ error' = FALSE
    /\ UNCHANGED <<versions, toolbar, list, more, loadingMore, filters, asks, stale,
                   changes, clicks, edits>>

FetchDone ==
    \E f \in main : \E a \in Answers(f) :
        /\ list' = FirstPage(f.query, a)
        /\ main' = main \ {f}
        /\ more' = Outdated(more)
        /\ UNCHANGED <<versions, toolbar, timer, loadingMore, error, filters, asks, stale,
                       changes, clicks, edits>>

FetchFails ==
    \E f \in main :
        /\ main' = main \ {f}
        /\ error' = TRUE
        /\ UNCHANGED <<versions, toolbar, list, timer, more, loadingMore, filters, asks, stale,
                       changes, clicks, edits>>

FiltersDone ==
    \E s \in asks :
        /\ asks' = asks \ {s}
        /\ filters' = s
        /\ stale' = FALSE
        /\ UNCHANGED <<versions, toolbar, list, timer, main, more, loadingMore, error,
                       changes, clicks, edits>>

\* Whatever filters there are stay.
FiltersFail ==
    \E s \in asks :
        /\ asks' = asks \ {s}
        /\ stale' = TRUE
        /\ UNCHANGED <<versions, toolbar, list, timer, main, more, loadingMore, error, filters,
                       changes, clicks, edits>>

-----------------------------------------------------------------------------
(* loadMore. *)

\* Mutant of MayLoadMore: nothing keeps a second click out.
MayLoadMoreAgain == list.next # NoToken

MayLoadMore == list.next # NoToken /\ ~loadingMore

\* It asks the toolbar's query for the page after the list, whatever the list
\* is of, and nothing aborts it.
LoadMore ==
    /\ MayLoadMore
    /\ clicks < MaxClicks
    /\ clicks' = clicks + 1
    /\ loadingMore' = TRUE
    /\ more' = more \cup {[no    |-> clicks, query |-> toolbar, token |-> list.next,
                           fresh |-> toolbar = list.head]}
    /\ UNCHANGED <<versions, toolbar, list, timer, main, error, filters, asks, stale,
                   changes, edits>>

MoreDone ==
    \E f \in more : \E a \in Answers(f) :
        /\ list' = Extended(list, f, a)
        /\ more' = more \ {f}
        /\ loadingMore' = FALSE
        /\ UNCHANGED <<versions, toolbar, timer, main, error, filters, asks, stale,
                       changes, clicks, edits>>

\* Mutant of MoreFails: the button stays disabled.
MoreFailsBusy ==
    \E f \in more :
        /\ more' = more \ {f}
        /\ error' = TRUE
        /\ UNCHANGED <<versions, toolbar, list, timer, main, loadingMore, filters, asks, stale,
                       changes, clicks, edits>>

MoreFails ==
    \E f \in more :
        /\ more' = more \ {f}
        /\ loadingMore' = FALSE
        /\ error' = TRUE
        /\ UNCHANGED <<versions, toolbar, list, timer, main, filters, asks, stale,
                       changes, clicks, edits>>

-----------------------------------------------------------------------------

\* Items come and go, or rows the sort does not tell apart change places.
Edit ==
    /\ edits < MaxEdits
    /\ edits' = edits + 1
    /\ \E q \in Queries, r \in Results : versions' = [versions EXCEPT ![q] = Append(@, r)]
    /\ UNCHANGED <<toolbar, list, timer, main, more, loadingMore, error, filters, asks, stale,
                   changes, clicks>>

Next ==
    \/ ChangeToolbar \/ StartFetch \/ FetchDone \/ FetchFails
    \/ FiltersDone \/ FiltersFail
    \/ LoadMore \/ MoreDone \/ MoreFails
    \/ Edit

\* The timer fires, and a fetch is answered or fails; visitors need do nothing.
Fairness ==
    /\ WF_vars(StartFetch)
    /\ WF_vars(FetchDone \/ FetchFails)
    /\ WF_vars(FiltersDone \/ FiltersFail)
    /\ WF_vars(MoreDone \/ MoreFails)

Spec == Init /\ [][Next]_vars /\ Fairness

-----------------------------------------------------------------------------
(* Properties. *)

\* When nothing is pending, the first page is one of the toolbar's query, or an
\* error is shown, and the filters are those of its library and type, or their
\* last fetch failed: no answer of a query that was moved past comes last
\* (Catalog.tsx:69-113).
HeadIsCurrent ==
    /\ ~timer /\ main = {} /\ ~error => list.head = toolbar
    /\ asks = {} /\ ~stale => filters = Scope[toolbar]

\* Load more neither skips nor repeats: while its pages are of one version of
\* the library and of one list, and none was lost, the list is a prefix of the
\* result, the total is that of the result, and there is a next page exactly if
\* the list is not all of it (Catalog.tsx:115-127, catalog_media.go:28-31,89-91).
ListIsPrefix ==
    list.whole =>
        LET result == versions[list.head][list.ver]
            n      == Len(list.items)
        IN  /\ n <= Len(result)
            /\ list.items = SubSeq(result, 1, n)
            /\ list.total = Len(result)
            /\ list.next = NoToken <=> n = Len(result)

\* The page comes to rest: once the visitor does nothing, nothing is loading for
\* ever, the button works again, and what is shown is of the toolbar's query or
\* an error is (Catalog.tsx:72-93,115-127).
Settles ==
    <>[](/\ ~timer /\ main = {} /\ asks = {} /\ ~loadingMore
         /\ error \/ list.head = toolbar)

\* What Catalog.tsx:67-69 says of queries the visitor has moved past: none of
\* them is in what is shown at rest.  A page of load more is neither aborted nor
\* compared with the toolbar.
NoPageOfThePast ==
    ~timer /\ main = {} /\ more = {} /\ ~error => list.of = {toolbar}
=============================================================================
