---------------------------- MODULE CatalogAccess ----------------------------
(***************************************************************************)
(* Who may see what of the catalog: the tokens and saved links an operator *)
(* makes (internal/server/handlers_admin_api.go, token.go,                 *)
(* internal/store/saved_links.go), the session of a login                  *)
(* (handlers_auth.go), and the way of a catalog request through the gate,  *)
(* the merging of its scope, the floor and the queries                     *)
(* (handlers_catalog.go, handlers_landing.go), while the operator edits    *)
(* the allowlist and the password and a Configure replaces the handler.    *)
(*                                                                         *)
(* A token is its claims and the secret that signed it.  The response      *)
(* caches are left out: CatalogCache shows what they change.               *)
(***************************************************************************)
EXTENDS CatalogQueries, FiniteSets

MediaTypes == KnownTypes \cup {"other"}

CONSTANTS
    Requests,     \* requests in flight
    Databases,    \* states of the host's tables
    Floors,       \* public allowlists, resolved
    Names,        \* of saved links
    Slugs,        \* of their pages
    NoName, NoSlug,
    TokenScopes,  \* the library lists tokens are made for
    TokenTypes,   \* ... and the media types
    AskScopes,    \* the library lists requests name
    AskTypes,     \* ... and the media types
    Filters,      \* ... and how they filter a list
    SourceItems,  \* what federated sources list
    MaxSecret,    \* bound: token secrets
    MaxTokens     \* bound: tokens made

ASSUME AccessAssumption ==
    /\ Databases \subseteq {d \in Tables : EpisodesWithSeries(d)}
    /\ Floors \subseteq SUBSET Libraries
    /\ NoName \notin Names /\ NoSlug \notin Slugs
    /\ TokenScopes \subseteq SUBSET (Libraries \cup OtherIDs)
    /\ AskScopes \subseteq SUBSET (Libraries \cup OtherIDs)
    /\ TokenTypes \subseteq SUBSET MediaTypes /\ AskTypes \subseteq SUBSET MediaTypes
    /\ Filters \subseteq Filter /\ NoFilter \in Filters
    /\ Items # {} /\ SourceItems \cap Contents = {}
    /\ MaxSecret \in Nat \ {0} /\ MaxTokens \in Nat

VARIABLES
    db,           \* the host's tables
    floor,        \* Store.publicLibraryIDs
    required,     \* CatalogPasswordRequired of the row
    secret,       \* the token secret of the installed handler
    tokens,       \* tokens and sessions made
    saving,       \* the link hCreateToken is about to save
    links,        \* saved_catalog_links
    pc, req,      \* per request: where it is, and what it asks
    claims,       \* ... its claims
    ask,          \* ... its scope, merged
    ids,          \* ... the libraries its queries are scoped to
    shown,        \* ... the contents it is answered
    public,       \* ... the libraries that were public at some time of it
    opened        \* ... and whether the catalog was open at some time of it

operator == <<floor, required, secret, tokens, saving, links>>

visits == <<pc, req, claims, ask, ids, shown>>

vars == <<db, operator, visits, public, opened>>

-----------------------------------------------------------------------------
(* Tokens. *)

Token == [by : 1 .. MaxSecret, libs : SUBSET (Libraries \cup OtherIDs), types : SUBSET MediaTypes]

NoToken == [by |-> 0, libs |-> {}, types |-> {}]

\* signToken with the claims of a session.
Session(by) == [by |-> by, libs |-> {}, types |-> {}]

\* verifyToken; tokens do not expire.
VerifyToken(key, token) == token.by = key

NoLink == [slug |-> NoSlug, token |-> NoToken]

NotSaving == [name |-> NoName, token |-> NoToken]

-----------------------------------------------------------------------------
(* Requests. *)

Routes == {"media", "filters", "page", "detail", "seasons", "episodes"}

NoID == CHOOSE c \in Items : TRUE

Request == [route : Routes, libs : AskScopes \cup {{}}, types : AskTypes \cup {{}},
            filter : Filters, id : Contents]

NoRequest == [route |-> "media", libs |-> {}, types |-> {}, filter |-> NoFilter, id |-> NoID]

Scope == [libs : SUBSET (Libraries \cup OtherIDs), types : SUBSET MediaTypes]

NoScope == [libs |-> {}, types |-> {}]

PCs == {"idle", "gate", "scope", "query", "answered"}

TypeOK ==
    /\ db \in Databases /\ floor \in Floors /\ required \in BOOLEAN
    /\ secret \in 1 .. MaxSecret /\ tokens \subseteq Token
    /\ saving \in [name : Names, token : tokens] \cup {NotSaving}
    /\ links \in [Names -> [slug : Slugs, token : tokens] \cup {NoLink}]
    /\ pc \in [Requests -> PCs] /\ req \in [Requests -> Request]
    /\ claims \in [Requests -> tokens \cup {NoToken}]
    /\ ask \in [Requests -> Scope]
    /\ ids \in [Requests -> SUBSET Libraries]
    /\ shown \in [Requests -> SUBSET (Contents \cup SourceItems)]
    /\ public \in [Requests -> SUBSET Libraries]
    /\ opened \in [Requests -> BOOLEAN]
    /\ \A p \in Requests : pc[p] \in {"query", "answered"} => ids[p] # {}

Init ==
    /\ db \in Databases /\ floor \in Floors /\ required \in BOOLEAN
    /\ secret = 1 /\ tokens = {} /\ saving = NotSaving
    /\ links = [n \in Names |-> NoLink]
    /\ pc = [p \in Requests |-> "idle"] /\ req = [p \in Requests |-> NoRequest]
    /\ claims = [p \in Requests |-> NoToken] /\ ask = [p \in Requests |-> NoScope]
    /\ ids = [p \in Requests |-> {}] /\ shown = [p \in Requests |-> {}]
    /\ public = [p \in Requests |-> {}] /\ opened = [p \in Requests |-> FALSE]

-----------------------------------------------------------------------------
(* The operator. *)

\* A token is handed out.
Made(token) ==
    /\ token \in tokens \/ Cardinality(tokens) < MaxTokens
    /\ tokens' = tokens \cup {token}

\* hCreateToken signs with the secret of the handler it runs in; a name makes
\* it a saved link, in a statement of its own.
CreateToken ==
    /\ saving = NotSaving
    /\ \E libs \in TokenScopes, types \in TokenTypes, name \in Names \cup {NoName} :
          LET token == [by |-> secret, libs |-> libs, types |-> types]
          IN  /\ Made(token)
              /\ saving' = IF name = NoName THEN saving ELSE [name |-> name, token |-> token]
    /\ UNCHANGED <<db, floor, required, secret, links, visits, public, opened>>

\* Mutant of SavedLink: the new slug with the new token.
SavedLinkAnew(slug) == [slug |-> slug, token |-> saving.token]

\* The row after the upsert: the slug of the name, if it has one.
SavedLink(slug) ==
    [slug  |-> IF links[saving.name] = NoLink THEN slug ELSE links[saving.name].slug,
     token |-> saving.token]

\* SaveCatalogLink, or its failure, as when the slug drawn is another's.
SaveCatalogLink ==
    /\ saving # NotSaving /\ saving' = NotSaving
    /\ \/ \E slug \in Slugs \ {links[n].slug : n \in Names} :
             links' = [links EXCEPT ![saving.name] = SavedLink(slug)]
       \/ UNCHANGED links
    /\ UNCHANGED <<db, floor, required, secret, tokens, visits, public, opened>>

\* DeleteCatalogLink; the token stays good.
DeleteCatalogLink ==
    /\ \E n \in Names : links[n] # NoLink /\ links' = [links EXCEPT ![n] = NoLink]
    /\ UNCHANGED <<db, floor, required, secret, tokens, saving, visits, public, opened>>

\* hCatalogLogin (LoginGate): a session signed with the secret of its handler,
\* which may have been replaced meanwhile.
CatalogLogin ==
    /\ \E by \in 1 .. secret : Made(Session(by))
    /\ UNCHANGED <<db, floor, required, secret, saving, links, visits, public, opened>>

Live == {p \in Requests : pc[p] # "idle"}

\* SetPublicLibraryIDs, called by a configuration read (ConfigStore).
SetPublicLibraryIDs ==
    /\ floor' \in Floors
    /\ public' = [p \in Requests |-> IF p \in Live THEN public[p] \cup floor' ELSE public[p]]
    /\ UNCHANGED <<db, required, secret, tokens, saving, links, visits, opened>>

\* The row after UpdateConfig or ClearCatalogPassword.
RequirePassword ==
    /\ required' = ~required
    /\ opened' = [p \in Requests |-> opened[p] \/ (p \in Live /\ ~required')]
    /\ UNCHANGED <<db, floor, secret, tokens, saving, links, visits, public>>

\* A Configure installs a handler with another secret (Lifecycle).
Configure ==
    /\ secret < MaxSecret
    /\ secret' = secret + 1
    /\ UNCHANGED <<db, floor, required, tokens, saving, links, visits, public, opened>>

-----------------------------------------------------------------------------
(* The visitors. *)

At(p, here, next) == pc[p] = here /\ pc' = [pc EXCEPT ![p] = next]

\* A token in the address goes before the cookie; one that is not good is
\* refused at once, with the catalog open or not, and without either the row
\* is to be read.
Credentials ==
    {IF token # NoToken THEN token ELSE cookie : token, cookie \in tokens \cup {NoToken}}

\* What a route is asked with.
Asked(route) ==
    {[route |-> route, libs |-> libs, types |-> types, filter |-> f, id |-> c] :
        libs  \in IF route \in {"media", "filters"} THEN AskScopes ELSE {{}},
        types \in IF route \in {"media", "filters"} THEN AskTypes ELSE {{}},
        f     \in IF route = "media" THEN Filters ELSE {NoFilter},
        c     \in IF route = "detail" THEN Contents ELSE IF route = "seasons" THEN Items
                  ELSE IF route = "episodes" THEN Seasons ELSE {NoID}}

\* A request is handed to the installed handler, and what it presents passes
\* verifyToken.
Arrive(p) ==
    /\ At(p, "idle", "gate")
    /\ \E t \in Credentials, route \in Routes :
          /\ t = NoToken \/ VerifyToken(secret, t)
          /\ claims' = [claims EXCEPT ![p] = t]
          /\ \E r \in Asked(route) : req' = [req EXCEPT ![p] = r]
    /\ public' = [public EXCEPT ![p] = floor]
    /\ opened' = [opened EXCEPT ![p] = ~required]
    /\ UNCHANGED <<db, operator, ask, ids, shown>>

\* catalogClaimsFromRequest once the row is read.
Admitted(p) == claims[p] # NoToken \/ ~required

\* What the queries of a request with claims t may be scoped to: the merged
\* scope, but the page opens one of the libraries that has counts, and details
\* have no media types.
Asks(r, t) ==
    LET libs  == MergeLibraryIDs(t.libs, r.libs)
        types == MergeMediaTypes(t.types, r.types)
    IN  IF r.route \in {"media", "filters"}
        THEN {a \in {[libs |-> libs.ids, types |-> types.types]} : libs.ok /\ types.ok}
        ELSE IF r.route = "page"
        THEN {[libs |-> {l}, types |-> t.types] :
                l \in {x \in Libraries \cup OtherIDs : t.libs = {} \/ x \in t.libs}}
        ELSE {[libs |-> t.libs, types |-> {}]}

Pass(p) ==
    /\ At(p, "gate", "scope")
    /\ Admitted(p)
    /\ \E a \in Asks(req[p], claims[p]) : ask' = [ask EXCEPT ![p] = a]
    /\ UNCHANGED <<db, operator, req, claims, ids, shown, public, opened>>

\* The request ends, with an answer or without.
Done(p, here) ==
    /\ At(p, here, "idle")
    /\ req' = [req EXCEPT ![p] = NoRequest]
    /\ claims' = [claims EXCEPT ![p] = NoToken]
    /\ ask' = [ask EXCEPT ![p] = NoScope]
    /\ ids' = [ids EXCEPT ![p] = {}]
    /\ shown' = [shown EXCEPT ![p] = {}]
    /\ public' = [public EXCEPT ![p] = {}]
    /\ opened' = [opened EXCEPT ![p] = FALSE]
    /\ UNCHANGED <<db, operator>>

\* 401 or 400: the password is required or the row cannot be read, the page has
\* no library with counts, or the scopes are disjoint.
Refuse(p) ==
    /\ \/ claims[p] = NoToken
       \/ req[p].route = "page"
       \/ Asks(req[p], claims[p]) = {}
    /\ Done(p, "gate")

\* The floor is read, by the store or by scopeHostLibraryIDs.
ReadFloor(p) ==
    /\ ~DenyAll(floor, ask[p].libs)
    /\ At(p, "scope", "query")
    /\ ids' = [ids EXCEPT ![p] = AllowedLibraryIDs(floor, ask[p].libs)]
    /\ UNCHANGED <<db, operator, req, claims, ask, shown, public, opened>>

\* Nothing is allowed: an empty answer, or none found.
DeniedAll(p) ==
    /\ DenyAll(floor, ask[p].libs)
    /\ Done(p, "scope")

\* The host's own list of a type, and what the federated sources add: sources
\* are not told the libraries.
HostMedia(d, libs, types) ==
    {i \in Items : d.shelf[i] \cap libs # {} /\ d.type[i] \in StoreMediaTypes(types)} \cup SourceItems

\* The contents of an answer; filters hold none.
Contained(d, r, a, libs) ==
    LET types == StoreMediaTypes(a.types)
    IN  IF r.route = "media"
        THEN IF DirectMediaTypes(a.types)
             THEN CatalogMedia(d, libs, types, r.filter)
             ELSE HostMedia(d, libs, a.types)
        ELSE IF r.route = "page" THEN CatalogMedia(d, libs, types, NoFilter)
        ELSE IF r.route = "detail" THEN {c \in {r.id} : DetailFound(d, libs, c)}
        ELSE IF r.route = "seasons" THEN SeriesSeasons(d, libs, r.id)
        ELSE IF r.route = "episodes" THEN SeasonEpisodes(d, libs, r.id)
        ELSE {}

Query(p) ==
    /\ At(p, "query", "answered")
    /\ shown' = [shown EXCEPT ![p] = Contained(db, req[p], ask[p], ids[p])]
    /\ UNCHANGED <<db, operator, req, claims, ask, ids, public, opened>>

QueryFails(p) == Done(p, "query")

Reply(p) == Done(p, "answered")

Next ==
    \/ CreateToken \/ SaveCatalogLink \/ DeleteCatalogLink \/ CatalogLogin
    \/ SetPublicLibraryIDs \/ RequirePassword \/ Configure
    \/ \E p \in Requests :
          \/ Arrive(p) \/ Pass(p) \/ Refuse(p) \/ ReadFloor(p) \/ DeniedAll(p)
          \/ Query(p) \/ QueryFails(p) \/ Reply(p)

Spec == Init /\ [][Next]_vars

-----------------------------------------------------------------------------
(* Properties. *)

\* The libraries that make a content visible.
Home(c) == Shelf(db, c) \cup IF c \in Titles THEN db.shelf[c] ELSE {}

\* A token's libraries are a bound if each of them is a number.
Bounding(t) == t.libs # {} /\ t.libs \subseteq Libraries

\* The folders a detail names, as libraries and by the qualities of files.
Named(p, c) == ItemLibraries(db, ids[p], c) \cup QualityFolders(db, ids[p], c)

\* Whatever the database or the host answers on any route, each content is in a
\* library that was public while the request ran and that its token, if it
\* names libraries, names; no other library is named with a detail; lists keep
\* to the token's media types; and whoever presented nothing came while the
\* catalog was open (handlers_auth.go:125-142, validation.go:53-101,
\* store.go:55-113).
Entitled ==
    \A p \in Requests : pc[p] = "answered" =>
        /\ claims[p] = NoToken => opened[p]
        /\ \A c \in shown[p] \ SourceItems :
              /\ Home(c) \cap public[p] # {}
              /\ Bounding(claims[p]) => Home(c) \cap public[p] \cap claims[p].libs # {}
              /\ req[p].route = "detail" =>
                    /\ Named(p, c) \subseteq public[p]
                    /\ Bounding(claims[p]) => Named(p, c) \subseteq claims[p].libs
              /\ (req[p].route \in {"media", "page"} /\ claims[p].types # {} /\ c \in Items) =>
                    db.type[c] \in StoreMediaTypes(claims[p].types)

\* The visitor of p opens a content.
Opens(p, c) ==
    /\ ~DenyAll(floor, claims[p].libs)
    /\ DetailFound(db, AllowedLibraryIDs(floor, claims[p].libs), c)

\* What p shows is meant to open: a list of the database, or the seasons or
\* episodes of what opens, and the floor is the one they were listed by.
Openable(p) ==
    /\ pc[p] = "answered"
    /\ ids[p] = AllowedLibraryIDs(floor, ask[p].libs)
    /\ req[p].route \in {"media", "page"} =>
          DirectMediaTypes(ask[p].types) /\ (claims[p].libs = {} \/ Bounding(claims[p]))
    /\ req[p].route \in {"seasons", "episodes"} => Opens(p, req[p].id)

\* No dead ends: what the database lists opens, and so do the seasons and the
\* episodes of what opens, unless the floor changed meanwhile
\* (catalog_media.go, catalog_series.go, catalog_item.go).
ListedOpens == \A p \in Requests : Openable(p) => \A c \in shown[p] \ SourceItems : Opens(p, c)

\* A scope has contents with a genre, and of a year.
HasGenre(libs, types, g) == CatalogMedia(db, libs, types, [NoFilter EXCEPT !.genre = {g}]) # {}

HasYear(libs, types, y) == CatalogMedia(db, libs, types, [NoFilter EXCEPT !.from = y, !.to = y]) # {}

\* No empty choices: a genre or a year that the filters offer has items in the
\* list of the same scope, but for years of the episodes of a series that is
\* not matched (catalog_filters.go, catalog_media.go).
FiltersLeadSomewhere ==
    \A p \in Requests : pc[p] = "answered" /\ req[p].route = "filters" /\ DirectMediaTypes(ask[p].types) =>
        LET types == StoreMediaTypes(ask[p].types)
        IN  /\ \A g \in CatalogGenres(db, ids[p], types) : HasGenre(ids[p], types, g)
            /\ (types # {"episode"} \/ \A e \in Episodes : SeriesOf[e] \in db.matched) =>
                  \A y \in CatalogYears(db, ids[p], types) : HasYear(ids[p], types, y)

\* A page that was given away stays where it is: as long as its link is not
\* deleted a slug leads to the same name, whatever is saved anew under it, and
\* no two links share one (saved_links.go:24-57).
LinksKeepTheirPage ==
    [][/\ \A n \in Names : links[n] # NoLink /\ links'[n] # NoLink => links'[n].slug = links[n].slug
       /\ \A m, n \in Names : m # n /\ links'[m] # NoLink => links'[m].slug # links'[n].slug]_vars
=============================================================================
