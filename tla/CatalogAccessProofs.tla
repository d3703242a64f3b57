------------------------ MODULE CatalogAccessProofs ------------------------
(***************************************************************************)
(* Proofs about CatalogAccess, for any libraries, tables, tokens, scopes   *)
(* and filters.                                                            *)
(*                                                                         *)
(* Entitled, ListedOpens and FiltersLeadSomewhere are facts about a state  *)
(* once it is known how an answer came about, which is what VisitInv       *)
(* keeps: the scope asked is one the claims give, the ids are of a floor   *)
(* seen meanwhile and of that scope, and what is shown is what the queries *)
(* return for them.                                                        *)
(***************************************************************************)
EXTENDS CatalogAccess, TLAPS

\* A request has seen the floor, and the catalog open if it is.
Since(p) == pc[p] # "idle" => floor \subseteq public[p] /\ (~required => opened[p])

\* How the answer of a request comes about.
Visit(p) ==
    /\ pc[p] \in {"scope", "query", "answered"} =>
          /\ claims[p] = NoToken => opened[p]
          /\ ask[p] \in Asks(req[p], claims[p])
    /\ pc[p] \in {"query", "answered"} =>
          /\ ids[p] # {}
          /\ ids[p] \subseteq public[p]
          /\ CleanIDs(ask[p].libs) # {} => ids[p] \subseteq ask[p].libs
    /\ pc[p] = "answered" => shown[p] = Contained(db, req[p], ask[p], ids[p])

SinceInv == \A p \in Requests : Since(p)

VisitInv == \A p \in Requests : Visit(p)

\* A slug is of one link.
LinksInv == \A m, n \in Names : m # n /\ links[m] # NoLink => links[m].slug # links[n].slug

Inv == TypeOK /\ SinceInv /\ VisitInv /\ LinksInv

-----------------------------------------------------------------------------
(* Scopes. *)

\* The floor bounds what is allowed, and so does a scope that has numbers.
LEMMA FloorBounds ==
    ASSUME NEW libs, NEW scope
    PROVE  /\ AllowedLibraryIDs(libs, scope) \subseteq libs
           /\ CleanIDs(scope) # {} => AllowedLibraryIDs(libs, scope) \subseteq scope
BY DEF AllowedLibraryIDs, CleanIDs

\* The scope of a list.
LEMMA ListAsk ==
    ASSUME NEW r, NEW t, NEW a \in Asks(r, t), r.route \in {"media", "filters"}
    PROVE  /\ a.libs = Narrow(t.libs, r.libs)
           /\ ~Disjoint(t.libs, r.libs)
           /\ a.types = Narrow(CleanMediaTypes(t.types).types, CleanMediaTypes(r.types).types)
           /\ ~Disjoint(CleanMediaTypes(t.types).types, CleanMediaTypes(r.types).types)
           /\ a = [libs |-> a.libs, types |-> a.types]
<1> DEFINE libs  == MergeLibraryIDs(t.libs, r.libs)
           types == MergeMediaTypes(t.types, r.types)
<1>1. a = [libs |-> libs.ids, types |-> types.types] /\ libs.ok /\ types.ok
  BY DEF Asks
<1>2. libs.ids = Narrow(t.libs, r.libs) /\ libs.ok = ~Disjoint(t.libs, r.libs)
  BY DEF MergeLibraryIDs
<1>3. /\ types.types = Narrow(CleanMediaTypes(t.types).types, CleanMediaTypes(r.types).types)
      /\ types.ok => ~Disjoint(CleanMediaTypes(t.types).types, CleanMediaTypes(r.types).types)
  BY DEF MergeMediaTypes
<1> QED
  BY <1>1, <1>2, <1>3

\* A scope asked within a token's libraries, all numbers, has numbers and is
\* within them.
LEMMA AskedWithin ==
    ASSUME NEW r, NEW t, NEW a \in Asks(r, t), Bounding(t)
    PROVE  a.libs \subseteq t.libs /\ CleanIDs(a.libs) # {}
<1>1. CASE r.route \in {"media", "filters"}
  <2>1. a.libs = Narrow(t.libs, r.libs) /\ ~Disjoint(t.libs, r.libs)
    BY <1>1, ListAsk
  <2>2. t.libs # {} /\ t.libs \subseteq Libraries
    BY DEF Bounding
  <2>3. a.libs \subseteq t.libs /\ a.libs # {}
    <3>1. CASE r.libs = {}
      BY <2>1, <2>2, <3>1 DEF Narrow
    <3>2. CASE r.libs # {}
      BY <2>1, <2>2, <3>2 DEF Narrow, Disjoint
    <3> QED
      BY <3>1, <3>2
  <2> QED
    BY <2>2, <2>3 DEF CleanIDs
<1>2. CASE r.route = "page"
  BY <1>2 DEF Asks, Bounding, CleanIDs
<1>3. CASE r.route \notin {"media", "filters", "page"}
  BY <1>3 DEF Asks, Bounding, CleanIDs
<1> QED
  BY <1>1, <1>2, <1>3

\* On the way to the database "series" is "tv" and back.
LEMMA StoreClean ==
    ASSUME NEW types
    PROVE  StoreMediaTypes(CleanMediaTypes(types).types) = StoreMediaTypes(types)
BY DEF StoreMediaTypes, CleanMediaTypes

\* A list keeps to the media types of the token.
LEMMA TypesWithin ==
    ASSUME NEW r, NEW t, NEW a \in Asks(r, t), r.route \in {"media", "page"}, t.types # {}
    PROVE  a.types # {} /\ StoreMediaTypes(a.types) \subseteq StoreMediaTypes(t.types)
<1>1. CASE r.route = "page"
  BY <1>1 DEF Asks
<1>2. CASE r.route = "media"
  <2>1. /\ a.types = Narrow(CleanMediaTypes(t.types).types, CleanMediaTypes(r.types).types)
        /\ ~Disjoint(CleanMediaTypes(t.types).types, CleanMediaTypes(r.types).types)
    BY <1>2, ListAsk
  <2>2. CleanMediaTypes(t.types).types # {}
    BY DEF CleanMediaTypes
  <2>3. a.types # {} /\ a.types \subseteq CleanMediaTypes(t.types).types
    BY <2>1, <2>2 DEF Narrow, Disjoint
  <2>4. StoreMediaTypes(a.types) \subseteq StoreMediaTypes(CleanMediaTypes(t.types).types)
    BY <2>3 DEF StoreMediaTypes
  <2> QED
    BY <2>3, <2>4, StoreClean
<1> QED
  BY <1>1, <1>2

\* A merged scope is a scope.
LEMMA AskTypesOK ==
    ASSUME NEW r \in Request, NEW t \in Token \cup {NoToken}, NEW a \in Asks(r, t)
    PROVE  a \in Scope
<1>1. /\ t.libs \subseteq Libraries \cup OtherIDs /\ t.types \subseteq MediaTypes
      /\ r.libs \subseteq Libraries \cup OtherIDs /\ r.types \subseteq MediaTypes
  BY AccessAssumption DEF Request, Token, NoToken
<1>2. CASE r.route \in {"media", "filters"}
  <2>1. a = [libs  |-> Narrow(t.libs, r.libs),
             types |-> Narrow(CleanMediaTypes(t.types).types, CleanMediaTypes(r.types).types)]
    BY <1>2, ListAsk
  <2>2. /\ CleanMediaTypes(t.types).types \subseteq MediaTypes
        /\ CleanMediaTypes(r.types).types \subseteq MediaTypes
    BY <1>1 DEF CleanMediaTypes, MediaTypes, KnownTypes
  <2> QED
    BY <1>1, <2>1, <2>2 DEF Narrow, Scope
<1>3. CASE r.route = "page"
  BY <1>1, <1>3 DEF Asks, Scope
<1>4. CASE r.route \notin {"media", "filters", "page"}
  BY <1>1, <1>4 DEF Asks, Scope
<1> QED
  BY <1>2, <1>3, <1>4

-----------------------------------------------------------------------------
(* Queries. *)

\* What a request of the catalog shows.
LEMMA ShownByRoute ==
    ASSUME NEW d \in Tables, NEW r \in Request, NEW a, NEW libs,
           NEW c \in Contained(d, r, a, libs), c \notin SourceItems
    PROVE  LET types == StoreMediaTypes(a.types)
           IN  \/ /\ r.route = "media" /\ DirectMediaTypes(a.types)
                  /\ c \in CatalogMedia(d, libs, types, r.filter)
               \/ /\ r.route = "media" /\ ~DirectMediaTypes(a.types)
                  /\ c \in Items /\ d.shelf[c] \cap libs # {} /\ d.type[c] \in types
               \/ r.route = "page" /\ c \in CatalogMedia(d, libs, types, NoFilter)
               \/ r.route = "detail" /\ c = r.id /\ DetailFound(d, libs, c)
               \/ r.route = "seasons" /\ c \in SeriesSeasons(d, libs, r.id)
               \/ r.route = "episodes" /\ c \in SeasonEpisodes(d, libs, r.id)
BY DEF Contained, HostMedia

\* What a list of the database holds is matched and in scope.
LEMMA ListedInScope ==
    ASSUME NEW d \in Tables, EpisodesWithSeries(d), NEW libs, libs # {}, NEW types, NEW f,
           NEW c \in CatalogMedia(d, libs, types, f)
    PROVE  /\ c \in Titles /\ d.shelf[c] \cap libs # {}
           /\ d.shelf[c] \subseteq Shelf(d, c)
           /\ (IF c \in Items THEN c ELSE SeriesOf[c]) \in d.matched
<1>1. CASE types = {"episode"}
  <2>1. c \in Episodes /\ SeriesOf[c] \in d.matched /\ InScope(d.shelf[c], libs)
    BY <1>1 DEF CatalogMedia, EpisodeItems
  <2>2. c \notin Items
    BY <2>1, QueriesAssumption
  <2> QED
    BY <2>1, <2>2 DEF InScope, Shelf, EpisodesWithSeries, Titles
<1>2. CASE types # {"episode"}
  <2>1. c \in d.matched /\ ItemMatches(d, libs, types, f, c)
    BY <1>2 DEF CatalogMedia, MediaItems
  <2>2. c \in Items
    BY <2>1 DEF Tables
  <2> QED
    BY <2>1, <2>2 DEF ItemMatches, InScope, Shelf, Titles
<1> QED
  BY <1>1, <1>2

\* ... and of the media types asked.
LEMMA ListedOfType ==
    ASSUME NEW d \in Tables, NEW libs, NEW types, types # {}, NEW f,
           NEW i \in CatalogMedia(d, libs, types, f), i \in Items
    PROVE  d.type[i] \in types
BY QueriesAssumption DEF CatalogMedia, EpisodeItems, MediaItems, ItemMatches

-----------------------------------------------------------------------------
(* The invariant is inductive. *)

LEMMA Initially ==
    ASSUME Init
    PROVE  Inv
<1>1. TypeOK
  <2>1. NoRequest \in Request
    BY AccessAssumption DEF NoRequest, Request, Routes, NoID, Contents
  <2>2. NoScope \in Scope
    BY DEF NoScope, Scope
  <2>3. 1 \in 1 .. MaxSecret
    BY AccessAssumption
  <2>4. links \in [Names -> [slug : Slugs, token : tokens] \cup {NoLink}]
    BY DEF Init
  <2>5. \A p \in Requests : pc[p] \notin {"query", "answered"}
    BY DEF Init
  <2> QED
    BY <2>1, <2>2, <2>3, <2>4, <2>5 DEF Init, TypeOK, PCs
<1>2. SinceInv /\ VisitInv /\ LinksInv
  BY AccessAssumption DEF Init, SinceInv, Since, VisitInv, Visit, LinksInv
<1> QED
  BY <1>1, <1>2 DEF Inv

\* What the operator does leaves the visits as they are.
LEMMA VisitsStay ==
    ASSUME Inv, UNCHANGED <<db, visits>>, public' \in [Requests -> SUBSET Libraries],
           opened' \in [Requests -> BOOLEAN],
           \A p \in Requests : public[p] \subseteq public'[p] /\ (opened[p] => opened'[p])
    PROVE  VisitInv'
<1> SUFFICES ASSUME NEW p \in Requests
             PROVE  Visit(p)'
  BY DEF VisitInv
<1>1. Visit(p)
  BY DEF Inv, VisitInv
<1> QED
  BY <1>1 DEF Visit, visits

\* Tokens are only added.
LEMMA MadeTypes ==
    ASSUME TypeOK, NEW token \in Token, Made(token)
    PROVE  tokens' \subseteq Token /\ tokens \subseteq tokens' /\ token \in tokens'
BY DEF TypeOK, Made

LEMMA OperatorStep ==
    ASSUME Inv,
           \/ CreateToken \/ SaveCatalogLink \/ DeleteCatalogLink \/ CatalogLogin
           \/ SetPublicLibraryIDs \/ RequirePassword \/ Configure
    PROVE  Inv'
<1> USE DEF Inv
<1>1. CASE CreateToken
  <2>1. PICK libs \in TokenScopes, types \in TokenTypes, name \in Names \cup {NoName} :
            /\ Made([by |-> secret, libs |-> libs, types |-> types])
            /\ saving' = IF name = NoName THEN saving
                         ELSE [name |-> name, token |-> [by |-> secret, libs |-> libs, types |-> types]]
    BY <1>1 DEF CreateToken
  <2>2. [by |-> secret, libs |-> libs, types |-> types] \in Token
    BY AccessAssumption DEF TypeOK, Token
  <2>3. TypeOK'
    BY <1>1, <2>1, <2>2, MadeTypes DEF CreateToken, TypeOK, visits
  <2>4. VisitInv'
    BY <1>1, VisitsStay DEF CreateToken, TypeOK
  <2> QED
    BY <1>1, <2>3, <2>4 DEF CreateToken, SinceInv, Since, LinksInv, visits
<1>2. CASE SaveCatalogLink
  <2>1. saving \in [name : Names, token : tokens]
    BY <1>2 DEF SaveCatalogLink, TypeOK
  <2>2. \A n \in Names : links[n] = NoLink \/ links[n] \in [slug : Slugs, token : tokens]
    BY DEF TypeOK
  <2>3. TypeOK' /\ LinksInv'
    <3>1. CASE UNCHANGED links
      BY <1>2, <3>1 DEF SaveCatalogLink, TypeOK, LinksInv, visits
    <3>2. CASE \E slug \in Slugs \ {links[n].slug : n \in Names} :
                 links' = [links EXCEPT ![saving.name] = SavedLink(slug)]
      <4>1. PICK slug \in Slugs \ {links[n].slug : n \in Names} :
                   links' = [links EXCEPT ![saving.name] = SavedLink(slug)]
        BY <3>2
      <4>2. SavedLink(slug) \in [slug : Slugs, token : tokens]
        BY <2>1, <2>2 DEF SavedLink
      <4>3. links' \in [Names -> [slug : Slugs, token : tokens] \cup {NoLink}]
        BY <2>1, <4>1, <4>2 DEF TypeOK
      <4>4. /\ links'[saving.name].slug = slug \/ links'[saving.name].slug = links[saving.name].slug
            /\ links[saving.name] = NoLink => links'[saving.name].slug = slug
            /\ \A n \in Names \ {saving.name} : links'[n] = links[n]
        BY <2>1, <4>1 DEF SavedLink, TypeOK
      <4>5. LinksInv'
        <5> SUFFICES ASSUME NEW m \in Names, NEW n \in Names, m # n, links'[m] # NoLink
                     PROVE  links'[m].slug # links'[n].slug
          BY DEF LinksInv
        <5>1. links[n] = NoLink => links[n].slug = NoSlug
          BY DEF NoLink
        <5>2. links[m] # NoLink => links[m].slug \in Slugs /\ links[m].slug # links[n].slug
          BY <2>2 DEF LinksInv
        <5>3. slug # links[m].slug /\ slug # links[n].slug /\ NoSlug \notin Slugs
          BY AccessAssumption
        <5>4. links[n] # NoLink => links[n].slug # links[m].slug
          BY DEF LinksInv
        <5>5. CASE m = saving.name
          BY <4>4, <5>2, <5>3, <5>5
        <5>6. CASE n = saving.name
          BY <4>4, <5>2, <5>3, <5>4, <5>6
        <5>7. CASE m # saving.name /\ n # saving.name
          BY <4>4, <5>2, <5>7
        <5> QED
          BY <5>5, <5>6, <5>7
      <4> QED
        BY <1>2, <4>3, <4>5 DEF SaveCatalogLink, TypeOK, visits
    <3> QED
      BY <1>2, <3>1, <3>2 DEF SaveCatalogLink
  <2>4. VisitInv'
    BY <1>2, VisitsStay DEF SaveCatalogLink, TypeOK
  <2> QED
    BY <1>2, <2>3, <2>4 DEF SaveCatalogLink, SinceInv, Since, visits
<1>3. CASE DeleteCatalogLink
  <2>1. PICK n \in Names : links' = [links EXCEPT ![n] = NoLink]
    BY <1>3 DEF DeleteCatalogLink
  <2>2. \A m \in Names : links'[m] = NoLink \/ links'[m] = links[m]
    BY <2>1 DEF TypeOK
  <2>3. TypeOK'
    BY <1>3, <2>1 DEF DeleteCatalogLink, TypeOK, visits
  <2>4. LinksInv'
    <3> SUFFICES ASSUME NEW k \in Names, NEW m \in Names, k # m, links'[k] # NoLink
                 PROVE  links'[k].slug # links'[m].slug
      BY DEF LinksInv
    <3>1. links'[k] = links[k] /\ links[k].slug \in Slugs /\ links[k].slug # links[m].slug
      BY <2>2 DEF TypeOK, LinksInv
    <3>2. NoLink.slug \notin Slugs
      BY AccessAssumption DEF NoLink
    <3> QED
      BY <2>2, <3>1, <3>2
  <2>5. VisitInv'
    BY <1>3, VisitsStay DEF DeleteCatalogLink, TypeOK
  <2> QED
    BY <1>3, <2>3, <2>4, <2>5 DEF DeleteCatalogLink, SinceInv, Since, visits
<1>4. CASE CatalogLogin
  <2>1. PICK by \in 1 .. secret : Made(Session(by))
    BY <1>4 DEF CatalogLogin
  <2>2. Session(by) \in Token
    BY AccessAssumption DEF TypeOK, Token, Session
  <2>3. TypeOK'
    BY <1>4, <2>1, <2>2, MadeTypes DEF CatalogLogin, TypeOK, visits
  <2>4. VisitInv'
    BY <1>4, VisitsStay DEF CatalogLogin, TypeOK
  <2> QED
    BY <1>4, <2>3, <2>4 DEF CatalogLogin, SinceInv, Since, LinksInv, visits
<1>5. CASE SetPublicLibraryIDs
  <2>1. /\ public' \in [Requests -> SUBSET Libraries]
        /\ \A p \in Requests : public[p] \subseteq public'[p] /\ (pc[p] # "idle" => floor' \subseteq public'[p])
    BY <1>5, AccessAssumption DEF SetPublicLibraryIDs, TypeOK, Live
  <2>2. TypeOK'
    BY <1>5, <2>1 DEF SetPublicLibraryIDs, TypeOK, visits
  <2>3. VisitInv'
    BY <1>5, <2>1, VisitsStay DEF SetPublicLibraryIDs, TypeOK
  <2> QED
    BY <1>5, <2>1, <2>2, <2>3 DEF SetPublicLibraryIDs, SinceInv, Since, LinksInv, visits
<1>6. CASE RequirePassword
  <2>1. /\ opened' \in [Requests -> BOOLEAN]
        /\ \A p \in Requests : (opened[p] => opened'[p]) /\ (pc[p] # "idle" /\ ~required' => opened'[p])
    BY <1>6 DEF RequirePassword, TypeOK, Live
  <2>2. TypeOK'
    BY <1>6, <2>1 DEF RequirePassword, TypeOK, visits
  <2>3. VisitInv'
    BY <1>6, <2>1, VisitsStay DEF RequirePassword, TypeOK
  <2> QED
    BY <1>6, <2>1, <2>2, <2>3 DEF RequirePassword, SinceInv, Since, LinksInv, visits
<1>7. CASE Configure
  <2>1. TypeOK'
    BY <1>7, AccessAssumption DEF Configure, TypeOK, visits
  <2>2. VisitInv'
    BY <1>7, VisitsStay DEF Configure, TypeOK
  <2> QED
    BY <1>7, <2>1, <2>2 DEF Configure, SinceInv, Since, LinksInv, visits
<1> QED
  BY <1>1, <1>2, <1>3, <1>4, <1>5, <1>6, <1>7

-----------------------------------------------------------------------------
(* The steps of a visitor. *)

\* The others are as they were.
OthersStay(p) ==
    \A q \in Requests \ {p} :
        /\ pc'[q] = pc[q] /\ req'[q] = req[q] /\ claims'[q] = claims[q] /\ ask'[q] = ask[q]
        /\ ids'[q] = ids[q] /\ shown'[q] = shown[q]
        /\ public'[q] = public[q] /\ opened'[q] = opened[q]

LEMMA OneVisit ==
    ASSUME Inv, NEW p \in Requests, UNCHANGED <<db, operator>>, TypeOK', OthersStay(p),
           Since(p)', Visit(p)'
    PROVE  Inv'
<1>1. ASSUME NEW q \in Requests, q # p
      PROVE  Since(q)' /\ Visit(q)'
  <2>1. Since(q) /\ Visit(q)
    BY DEF Inv, SinceInv, VisitInv
  <2> QED
    BY <1>1, <2>1 DEF OthersStay, Since, Visit, operator
<1>2. LinksInv'
  BY DEF Inv, LinksInv, operator
<1> QED
  BY <1>1, <1>2 DEF Inv, SinceInv, VisitInv

\* The end of a request.
LEMMA DoneStep ==
    ASSUME Inv, NEW p \in Requests, NEW here, Done(p, here)
    PROVE  Inv'
<1>1. NoRequest \in Request /\ NoScope \in Scope
  BY AccessAssumption DEF NoRequest, Request, Routes, NoID, Contents, NoScope, Scope
<1>2. TypeOK'
  BY <1>1 DEF Inv, TypeOK, Done, At, operator, PCs
<1>3. OthersStay(p) /\ pc'[p] = "idle"
  BY DEF Inv, TypeOK, Done, At, OthersStay
<1>4. Since(p)' /\ Visit(p)'
  BY <1>3 DEF Since, Visit
<1> QED
  BY <1>2, <1>3, <1>4, OneVisit DEF Done

LEMMA ArriveStep ==
    ASSUME Inv, NEW p \in Requests, Arrive(p)
    PROVE  Inv'
<1>1. PICK t \in Credentials, route \in Routes :
          /\ claims' = [claims EXCEPT ![p] = t]
          /\ \E r \in Asked(route) : req' = [req EXCEPT ![p] = r]
  BY DEF Arrive
<1>2. PICK r \in Asked(route) : req' = [req EXCEPT ![p] = r]
  BY <1>1
<1>3. t \in tokens \cup {NoToken}
  BY DEF Credentials
<1>4. r \in Request
  <2>1. PICK libs \in AskScopes \cup {{}}, types \in AskTypes \cup {{}}, f \in Filters, c \in Contents :
            r = [route |-> route, libs |-> libs, types |-> types, filter |-> f, id |-> c]
    BY AccessAssumption DEF Asked, NoID, Contents
  <2> QED
    BY <2>1 DEF Request
<1>5. TypeOK'
  BY <1>1, <1>2, <1>3, <1>4, AccessAssumption DEF Inv, TypeOK, Arrive, At, operator, PCs
<1>6. OthersStay(p)
  BY <1>1, <1>2 DEF Inv, TypeOK, Arrive, At, OthersStay
<1>7. pc'[p] = "gate" /\ public'[p] = floor /\ opened'[p] = ~required
  BY DEF Inv, TypeOK, Arrive, At
<1>8. Since(p)' /\ Visit(p)'
  BY <1>7 DEF Since, Visit, Arrive, operator
<1> QED
  BY <1>5, <1>6, <1>8, OneVisit DEF Arrive

LEMMA PassStep ==
    ASSUME Inv, NEW p \in Requests, Pass(p)
    PROVE  Inv'
<1>1. PICK a \in Asks(req[p], claims[p]) : ask' = [ask EXCEPT ![p] = a]
  BY DEF Pass
<1>2. a \in Scope
  BY AskTypesOK DEF Inv, TypeOK
<1>3. TypeOK'
  BY <1>1, <1>2 DEF Inv, TypeOK, Pass, At, operator, PCs
<1>4. OthersStay(p) /\ pc[p] = "gate" /\ pc'[p] = "scope" /\ ask'[p] = a
  BY <1>1 DEF Inv, TypeOK, Pass, At, OthersStay
<1>5. claims[p] = NoToken => opened[p]
  BY <1>4 DEF Inv, SinceInv, Since, Pass, Admitted
<1>6. Since(p)' /\ Visit(p)'
  BY <1>4, <1>5 DEF Inv, SinceInv, Since, Visit, Pass, operator
<1> QED
  BY <1>3, <1>4, <1>6, OneVisit DEF Pass

LEMMA ReadFloorStep ==
    ASSUME Inv, NEW p \in Requests, ReadFloor(p)
    PROVE  Inv'
<1> DEFINE allowed == AllowedLibraryIDs(floor, ask[p].libs)
<1>1. /\ allowed # {} /\ allowed \subseteq floor
      /\ CleanIDs(ask[p].libs) # {} => allowed \subseteq ask[p].libs
  BY FloorBounds DEF ReadFloor, DenyAll
<1>2. floor \subseteq Libraries
  BY AccessAssumption DEF Inv, TypeOK
<1>3. OthersStay(p) /\ pc[p] = "scope" /\ pc'[p] = "query" /\ ids'[p] = allowed
  BY DEF Inv, TypeOK, ReadFloor, At, OthersStay
<1>4. TypeOK'
  <2>1. ids' \in [Requests -> SUBSET Libraries] /\ pc' \in [Requests -> PCs]
    BY <1>1, <1>2 DEF Inv, TypeOK, ReadFloor, At, PCs
  <2>2. \A q \in Requests : pc'[q] \in {"query", "answered"} => ids'[q] # {}
    BY <1>1, <1>3 DEF Inv, TypeOK, OthersStay
  <2> QED
    BY <2>1, <2>2 DEF Inv, TypeOK, ReadFloor, operator
<1>5. Since(p) /\ Visit(p)
  BY DEF Inv, SinceInv, VisitInv
<1>6. Since(p)' /\ Visit(p)'
  BY <1>1, <1>3, <1>5 DEF Since, Visit, ReadFloor, operator
<1> QED
  BY <1>3, <1>4, <1>6, OneVisit DEF ReadFloor

\* Queries show contents.
LEMMA ContainedTypes ==
    ASSUME NEW d \in Tables, NEW r \in Request, NEW a, NEW libs
    PROVE  Contained(d, r, a, libs) \subseteq Contents \cup SourceItems
<1> SUFFICES ASSUME NEW c \in Contained(d, r, a, libs), c \notin SourceItems
             PROVE  c \in Contents
  OBVIOUS
<1>1. \A types, f : CatalogMedia(d, libs, types, f) \subseteq Contents
  BY DEF CatalogMedia, EpisodeItems, MediaItems, Tables, Contents
<1>2. DetailFound(d, libs, c) => c \in Contents
  BY DEF DetailFound
<1>3. \A x : SeriesSeasons(d, libs, x) \subseteq Contents /\ SeasonEpisodes(d, libs, x) \subseteq Contents
  BY DEF SeriesSeasons, SeasonEpisodes, Contents
<1>4. Items \subseteq Contents
  BY DEF Contents
<1> QED
  BY <1>1, <1>2, <1>3, <1>4, ShownByRoute

LEMMA QueryStep ==
    ASSUME Inv, NEW p \in Requests, Query(p)
    PROVE  Inv'
<1> DEFINE answer == Contained(db, req[p], ask[p], ids[p])
<1>1. db \in Tables /\ req[p] \in Request
  BY AccessAssumption DEF Inv, TypeOK
<1>2. answer \subseteq Contents \cup SourceItems
  BY <1>1, ContainedTypes
<1>3. OthersStay(p) /\ pc[p] = "query" /\ pc'[p] = "answered" /\ shown'[p] = answer
  BY DEF Inv, TypeOK, Query, At, OthersStay
<1>4. TypeOK'
  <2>1. shown' \in [Requests -> SUBSET (Contents \cup SourceItems)] /\ pc' \in [Requests -> PCs]
    BY <1>2 DEF Inv, TypeOK, Query, At, PCs
  <2>2. \A q \in Requests : pc'[q] \in {"query", "answered"} => ids'[q] # {}
    BY <1>3 DEF Inv, TypeOK, Query, OthersStay
  <2> QED
    BY <2>1, <2>2 DEF Inv, TypeOK, Query, operator
<1>5. Since(p) /\ Visit(p)
  BY DEF Inv, SinceInv, VisitInv
<1>6. Since(p)' /\ Visit(p)'
  BY <1>3, <1>5 DEF Since, Visit, Query, operator
<1> QED
  BY <1>3, <1>4, <1>6, OneVisit DEF Query

\* The strengthened invariant holds of every reachable state.
THEOREM Invariance == Spec => []Inv
<1>1. Init => Inv
  BY Initially
<1>2. Inv /\ [Next]_vars => Inv'
  <2> SUFFICES ASSUME Inv, [Next]_vars
               PROVE  Inv'
    OBVIOUS
  <2>1. CASE \/ CreateToken \/ SaveCatalogLink \/ DeleteCatalogLink \/ CatalogLogin
             \/ SetPublicLibraryIDs \/ RequirePassword \/ Configure
    BY <2>1, OperatorStep
  <2>2. ASSUME NEW p \in Requests,
               \/ Arrive(p) \/ Pass(p) \/ Refuse(p) \/ ReadFloor(p) \/ DeniedAll(p)
               \/ Query(p) \/ QueryFails(p) \/ Reply(p)
        PROVE  Inv'
    <3>1. CASE Refuse(p) \/ DeniedAll(p) \/ QueryFails(p) \/ Reply(p)
      BY <3>1, DoneStep DEF Refuse, DeniedAll, QueryFails, Reply
    <3> QED
      BY <2>2, <3>1, ArriveStep, PassStep, ReadFloorStep, QueryStep
  <2>3. CASE UNCHANGED vars
    BY <2>3 DEF vars, operator, visits, Inv, TypeOK, SinceInv, Since, VisitInv, Visit, LinksInv
  <2> QED
    BY <2>1, <2>2, <2>3 DEF Next
<1> QED
  BY <1>1, <1>2, PTL DEF Spec

\* Every variable keeps its type, and no query is asked without libraries, which
\* would be asked of all.
THEOREM Typing == Spec => []TypeOK
<1>1. Inv => TypeOK
  BY DEF Inv
<1> QED
  BY <1>1, Invariance, PTL

-----------------------------------------------------------------------------
(* What answers hold. *)

\* A content of a detail, a season or an episode list is scoped by the shelf of
\* its series.
LEMMA ShownAtHome ==
    ASSUME Inv, NEW p \in Requests, pc[p] = "answered", NEW c \in shown[p] \ SourceItems
    PROVE  c \in Contents /\ Home(c) \cap ids[p] # {}
<1>1. db \in Tables /\ EpisodesWithSeries(db) /\ req[p] \in Request
  BY AccessAssumption DEF Inv, TypeOK
<1>2. c \in Contained(db, req[p], ask[p], ids[p]) /\ ids[p] # {} /\ c \in Contents
  BY DEF Inv, TypeOK, VisitInv, Visit
<1>3. ASSUME NEW types, NEW f, c \in CatalogMedia(db, ids[p], types, f)
      PROVE  Home(c) \cap ids[p] # {}
  <2>1. c \in Titles /\ db.shelf[c] \cap ids[p] # {}
    BY <1>1, <1>2, <1>3, ListedInScope
  <2> QED
    BY <1>2, <2>1 DEF Home
<1>4. CASE c \in Items /\ db.shelf[c] \cap ids[p] # {}
  BY <1>2, <1>4 DEF Home, Titles
<1>5. CASE DetailFound(db, ids[p], c)
  BY <1>2, <1>5 DEF DetailFound, InScope, Home
<1>6. CASE c \in SeriesSeasons(db, ids[p], req[p].id)
  <2>1. c \notin Items /\ db.shelf[SeriesOf[c]] \cap ids[p] # {}
    BY <1>2, <1>6, QueriesAssumption DEF SeriesSeasons, InScope
  <2> QED
    BY <1>2, <2>1 DEF Home, Shelf
<1>7. CASE c \in SeasonEpisodes(db, ids[p], req[p].id)
  <2>1. c \notin Items /\ db.shelf[SeriesOf[c]] \cap ids[p] # {}
    BY <1>2, <1>7, QueriesAssumption DEF SeasonEpisodes, InScope
  <2> QED
    BY <1>2, <2>1 DEF Home, Shelf
<1> QED
  BY <1>1, <1>2, <1>3, <1>4, <1>5, <1>6, <1>7, ShownByRoute

\* Whatever the database or the host answers on any route, each content is in a
\* library that was public while the request ran and that its token, if it
\* names libraries, names; no other library is named with a detail; lists keep
\* to the token's media types; and whoever presented nothing came while the
\* catalog was open.
THEOREM AnswersAreEntitled == Spec => []Entitled
<1>1. Inv => Entitled
  <2> SUFFICES ASSUME Inv, NEW p \in Requests, pc[p] = "answered"
               PROVE  /\ claims[p] = NoToken => opened[p]
                      /\ \A c \in shown[p] \ SourceItems :
                            /\ Home(c) \cap public[p] # {}
                            /\ Bounding(claims[p]) => Home(c) \cap public[p] \cap claims[p].libs # {}
                            /\ req[p].route = "detail" =>
                                  /\ Named(p, c) \subseteq public[p]
                                  /\ Bounding(claims[p]) => Named(p, c) \subseteq claims[p].libs
                            /\ (req[p].route \in {"media", "page"} /\ claims[p].types # {} /\ c \in Items) =>
                                  db.type[c] \in StoreMediaTypes(claims[p].types)
    BY DEF Entitled
  <2>1. Visit(p)
    BY DEF Inv, VisitInv
  <2>2. /\ claims[p] = NoToken => opened[p]
        /\ ask[p] \in Asks(req[p], claims[p])
        /\ ids[p] # {} /\ ids[p] \subseteq public[p]
    BY <2>1 DEF Visit
  <2>3. Bounding(claims[p]) => ids[p] \subseteq claims[p].libs
    BY <2>1, <2>2, AskedWithin DEF Visit
  <2>4. ASSUME NEW c \in shown[p] \ SourceItems
        PROVE  /\ Home(c) \cap public[p] # {}
               /\ Bounding(claims[p]) => Home(c) \cap public[p] \cap claims[p].libs # {}
               /\ req[p].route = "detail" =>
                     /\ Named(p, c) \subseteq public[p]
                     /\ Bounding(claims[p]) => Named(p, c) \subseteq claims[p].libs
    <3>1. Home(c) \cap ids[p] # {}
      BY <2>4, ShownAtHome
    <3>2. Named(p, c) \subseteq ids[p]
      BY <2>2 DEF Named, ItemLibraries, QualityFolders
    <3> QED
      BY <2>2, <2>3, <3>1, <3>2
  <2>5. ASSUME NEW c \in shown[p] \ SourceItems,
               req[p].route \in {"media", "page"}, claims[p].types # {}, c \in Items
        PROVE  db.type[c] \in StoreMediaTypes(claims[p].types)
    <3>1. db \in Tables /\ EpisodesWithSeries(db) /\ req[p] \in Request
      BY AccessAssumption DEF Inv, TypeOK
    <3>2. /\ ask[p].types # {}
          /\ StoreMediaTypes(ask[p].types) \subseteq StoreMediaTypes(claims[p].types)
      BY <2>2, <2>5, TypesWithin
    <3>3. StoreMediaTypes(ask[p].types) # {}
      BY <3>2 DEF StoreMediaTypes
    <3>4. c \in Contained(db, req[p], ask[p], ids[p])
      BY <2>1 DEF Visit
    <3>5. \/ \E f : c \in CatalogMedia(db, ids[p], StoreMediaTypes(ask[p].types), f)
          \/ db.type[c] \in StoreMediaTypes(ask[p].types)
      BY <2>5, <3>1, <3>4, ShownByRoute
    <3>6. db.type[c] \in StoreMediaTypes(ask[p].types)
      <4>1. ASSUME NEW f, c \in CatalogMedia(db, ids[p], StoreMediaTypes(ask[p].types), f)
            PROVE  db.type[c] \in StoreMediaTypes(ask[p].types)
        BY <2>2, <2>5, <3>1, <3>3, <4>1, ListedOfType
      <4> QED
        BY <3>5, <4>1
    <3> QED
      BY <3>2, <3>6
  <2> QED
    BY <2>2, <2>4, <2>5
<1> QED
  BY <1>1, Invariance, PTL

\* A page that was given away stays where it is: as long as its link is not
\* deleted a slug leads to the same name, and no two links share one.
THEOREM PagesStay == Spec => LinksKeepTheirPage
<1> DEFINE A == /\ \A n \in Names : links[n] # NoLink /\ links'[n] # NoLink => links'[n].slug = links[n].slug
                /\ \A m, n \in Names : m # n /\ links'[m] # NoLink => links'[m].slug # links'[n].slug
<1>1. ASSUME Inv, Inv', [Next]_vars
      PROVE  A
  <2>1. \A m, n \in Names : m # n /\ links'[m] # NoLink => links'[m].slug # links'[n].slug
    BY <1>1 DEF Inv, LinksInv
  <2>2. ASSUME NEW n \in Names, links[n] # NoLink, links'[n] # NoLink
        PROVE  links'[n].slug = links[n].slug
    <3>1. CASE UNCHANGED links
      BY <3>1
    <3>2. CASE SaveCatalogLink
      <4>1. PICK slug : links' = [links EXCEPT ![saving.name] = SavedLink(slug)] \/ UNCHANGED links
        BY <3>2 DEF SaveCatalogLink
      <4> QED
        BY <1>1, <2>2, <4>1 DEF Inv, TypeOK, SavedLink
    <3>3. CASE DeleteCatalogLink
      BY <1>1, <2>2, <3>3 DEF DeleteCatalogLink, Inv, TypeOK
    <3> QED
      BY <1>1, <3>1, <3>2, <3>3 DEF Next, CreateToken, CatalogLogin, SetPublicLibraryIDs,
         RequirePassword, Configure, Arrive, Pass, Refuse, ReadFloor, DeniedAll, Query, QueryFails,
         Reply, Done, operator, vars
  <2> QED
    BY <2>1, <2>2
<1>2. Inv /\ Inv' /\ [Next]_vars => [A]_vars
  BY <1>1
<1>3. LinksKeepTheirPage <=> [][A]_vars
  BY DEF LinksKeepTheirPage
<1> QED
  BY <1>2, <1>3, Invariance, PTL DEF Spec

\* What the filters of the store offer is in its lists.
LEMMA OfferedIsListed ==
    ASSUME NEW d \in Tables, NEW libs, libs # {}, NEW types
    PROVE  /\ \A g \in CatalogGenres(d, libs, types) :
                 CatalogMedia(d, libs, types, [NoFilter EXCEPT !.genre = {g}]) # {}
           /\ (types # {"episode"} \/ \A e \in Episodes : SeriesOf[e] \in d.matched) =>
                 \A y \in CatalogYears(d, libs, types) :
                    CatalogMedia(d, libs, types, [NoFilter EXCEPT !.from = y, !.to = y]) # {}
<1> DEFINE ByGenre(g) == [NoFilter EXCEPT !.genre = {g}]
           ByYear(y)  == [NoFilter EXCEPT !.from = y, !.to = y]
<1>1. \A g : /\ ByGenre(g).genre = {g} /\ ByGenre(g).hits = Contents
             /\ ByGenre(g).from = 0 /\ ByGenre(g).to = 0
  BY DEF NoFilter
<1>2. \A y : /\ ByYear(y).genre = {} /\ ByYear(y).hits = Contents
             /\ ByYear(y).from = y /\ ByYear(y).to = y
  BY DEF NoFilter
<1>3. /\ d.matched \subseteq Items /\ \A c \in Titles : d.year[c] \in Nat
      /\ Items \subseteq Contents /\ Episodes \subseteq Contents
      /\ Items \subseteq Titles /\ Episodes \subseteq Titles
  <2>1. Years \cup {0} \subseteq Nat
    BY QueriesAssumption
  <2>2. d.year \in [Titles -> Years \cup {0}]
    BY DEF Tables
  <2> QED
    BY <2>1, <2>2 DEF Tables, Contents, Titles
<1>4. ASSUME NEW c, Shelved(d, libs, c)
      PROVE  InScope(d.shelf[c], libs)
  BY <1>4 DEF Shelved, InScope
<1>5. CASE types = {"episode"}
  <2>1. ASSUME NEW g \in CatalogGenres(d, libs, types)
        PROVE  CatalogMedia(d, libs, types, ByGenre(g)) # {}
    <3>1. PICK e \in FilteredEpisodes(d, libs) : SeriesOf[e] \in d.matched /\ g \in d.genres[SeriesOf[e]]
      BY <1>5, <2>1 DEF CatalogGenres
    <3>2. e \in Episodes /\ InScope(d.shelf[e], libs)
      BY <3>1, <1>4 DEF FilteredEpisodes
    <3>3. e \in EpisodeItems(d, libs, ByGenre(g))
      BY <1>1, <1>3, <3>1, <3>2 DEF EpisodeItems
    <3> QED
      BY <1>5, <3>3 DEF CatalogMedia
  <2>2. ASSUME \A e \in Episodes : SeriesOf[e] \in d.matched, NEW y \in CatalogYears(d, libs, types)
        PROVE  CatalogMedia(d, libs, types, ByYear(y)) # {}
    <3>1. PICK e \in FilteredEpisodes(d, libs) : d.year[e] = y
      BY <1>5, <2>2 DEF CatalogYears
    <3>2. e \in Episodes /\ InScope(d.shelf[e], libs)
      BY <3>1, <1>4 DEF FilteredEpisodes
    <3>3. e \in EpisodeItems(d, libs, ByYear(y))
      BY <1>2, <1>3, <2>2, <3>1, <3>2 DEF EpisodeItems
    <3> QED
      BY <1>5, <3>3 DEF CatalogMedia
  <2> QED
    BY <1>5, <2>1, <2>2
<1>6. CASE types # {"episode"}
  <2>1. ASSUME NEW g \in CatalogGenres(d, libs, types)
        PROVE  CatalogMedia(d, libs, types, ByGenre(g)) # {}
    <3>1. PICK i \in FilteredItems(d, libs, types) : g \in d.genres[i]
      BY <1>6, <2>1 DEF CatalogGenres
    <3>2. i \in d.matched /\ InScope(d.shelf[i], libs) /\ (types = {} \/ d.type[i] \in types)
      BY <3>1, <1>4 DEF FilteredItems
    <3>3. i \in MediaItems(d, libs, types, ByGenre(g))
      BY <1>1, <1>3, <3>1, <3>2 DEF MediaItems, ItemMatches
    <3> QED
      BY <1>6, <3>3 DEF CatalogMedia
  <2>2. ASSUME NEW y \in CatalogYears(d, libs, types)
        PROVE  CatalogMedia(d, libs, types, ByYear(y)) # {}
    <3>1. PICK i \in FilteredItems(d, libs, types) : d.year[i] = y
      BY <1>6, <2>2 DEF CatalogYears
    <3>2. i \in d.matched /\ InScope(d.shelf[i], libs) /\ (types = {} \/ d.type[i] \in types) /\ y # 0
      BY <2>2, <3>1, <1>4 DEF FilteredItems, CatalogYears
    <3>3. i \in MediaItems(d, libs, types, ByYear(y))
      BY <1>2, <1>3, <3>1, <3>2 DEF MediaItems, ItemMatches
    <3> QED
      BY <1>6, <3>3 DEF CatalogMedia
  <2> QED
    BY <1>6, <2>1, <2>2
<1> QED
  BY <1>5, <1>6

\* No empty choices: a genre or a year that the filters offer has items in the
\* list of the same scope.
THEOREM OfferedChoicesLead == Spec => []FiltersLeadSomewhere
<1>1. Inv => FiltersLeadSomewhere
  <2>1. ASSUME Inv
        PROVE  db \in Tables /\ \A p \in Requests : pc[p] = "answered" => ids[p] # {}
    BY <2>1, AccessAssumption DEF Inv, TypeOK
  <2> QED
    BY <2>1, OfferedIsListed DEF FiltersLeadSomewhere, HasGenre, HasYear
<1> QED
  BY <1>1, Invariance, PTL

-----------------------------------------------------------------------------
(* What is listed opens. *)

\* What a list is scoped to is within what its visitor opens things by.
LEMMA AskedAllowed ==
    ASSUME NEW libs, NEW r, NEW t, NEW a \in Asks(r, t), t.libs = {} \/ Bounding(t)
    PROVE  AllowedLibraryIDs(libs, a.libs) \subseteq AllowedLibraryIDs(libs, t.libs)
<1>1. CASE t.libs = {}
  BY <1>1, FloorBounds DEF AllowedLibraryIDs, CleanIDs
<1>2. CASE Bounding(t)
  <2>1. a.libs \subseteq t.libs /\ CleanIDs(a.libs) # {}
    BY <1>2, AskedWithin
  <2> QED
    BY <2>1 DEF AllowedLibraryIDs, CleanIDs
<1> QED
  BY <1>1, <1>2

\* What is listed in a scope is found in a larger one.
LEMMA ListedIsFound ==
    ASSUME NEW d \in Tables, EpisodesWithSeries(d), NEW libs, libs # {}, NEW more, libs \subseteq more,
           NEW types, NEW f, NEW c \in CatalogMedia(d, libs, types, f)
    PROVE  DetailFound(d, more, c)
<1>1. /\ c \in Titles /\ d.shelf[c] \cap libs # {} /\ d.shelf[c] \subseteq Shelf(d, c)
      /\ (IF c \in Items THEN c ELSE SeriesOf[c]) \in d.matched
  BY ListedInScope
<1>2. Shelf(d, c) \cap more # {}
  BY <1>1
<1> QED
  BY <1>1, <1>2 DEF DetailFound, InScope, Titles, Contents

\* The seasons and the episodes of what is found are found.
LEMMA PartsAreFound ==
    ASSUME NEW d \in Tables, NEW libs, libs # {}, NEW whole, DetailFound(d, libs, whole),
           NEW c \in SeriesSeasons(d, libs, whole) \cup SeasonEpisodes(d, libs, whole)
    PROVE  DetailFound(d, libs, c)
<1>1. CASE c \in SeriesSeasons(d, libs, whole)
  <2>1. c \in Seasons /\ SeriesOf[c] = whole /\ c \notin Items /\ whole \in Items
    BY <1>1, QueriesAssumption DEF SeriesSeasons
  <2> QED
    BY <2>1 DEF DetailFound, Shelf, Contents
<1>2. CASE c \in SeasonEpisodes(d, libs, whole)
  <2>1. /\ c \in Episodes /\ SeasonOf[c] = whole /\ c \notin Items
        /\ whole \in Seasons /\ whole \notin Items /\ SeriesOf[whole] = SeriesOf[c]
    BY <1>2, QueriesAssumption DEF SeasonEpisodes
  <2> QED
    BY <2>1 DEF DetailFound, Shelf, Contents
<1> QED
  BY <1>1, <1>2

\* No dead ends: what the database lists opens, and so do the seasons and the
\* episodes of what opens, unless the floor changed meanwhile.
THEOREM NoDeadEnds == Spec => []ListedOpens
<1>1. Inv => ListedOpens
  <2> SUFFICES ASSUME Inv, NEW p \in Requests, Openable(p), NEW c \in shown[p] \ SourceItems
               PROVE  Opens(p, c)
    BY DEF ListedOpens
  <2> DEFINE wide == AllowedLibraryIDs(floor, claims[p].libs)
  <2>1. db \in Tables /\ EpisodesWithSeries(db) /\ req[p] \in Request
    BY AccessAssumption DEF Inv, TypeOK
  <2>2. /\ ask[p] \in Asks(req[p], claims[p]) /\ ids[p] # {}
        /\ ids[p] = AllowedLibraryIDs(floor, ask[p].libs)
        /\ c \in Contained(db, req[p], ask[p], ids[p])
    BY DEF Inv, VisitInv, Visit, Openable
  <2>3. ASSUME wide # {}, DetailFound(db, wide, c)
        PROVE  Opens(p, c)
    BY <2>3 DEF Opens, DenyAll
  <2>4. CASE req[p].route \in {"media", "page"}
    <3>1. DirectMediaTypes(ask[p].types) /\ (claims[p].libs = {} \/ Bounding(claims[p]))
      BY <2>4 DEF Openable
    <3>2. ids[p] \subseteq wide
      BY <2>2, <3>1, AskedAllowed
    <3>3. \E types, f : c \in CatalogMedia(db, ids[p], types, f)
      BY <2>1, <2>2, <2>4, <3>1, ShownByRoute
    <3>4. PICK types, f : c \in CatalogMedia(db, ids[p], types, f)
      BY <3>3
    <3>5. DetailFound(db, wide, c)
      BY <2>1, <2>2, <3>2, <3>4, ListedIsFound
    <3> QED
      BY <2>2, <2>3, <3>2, <3>5
  <2>5. CASE req[p].route \notin {"media", "page"}
    <3>1. \/ DetailFound(db, ids[p], c)
          \/ /\ req[p].route \in {"seasons", "episodes"}
             /\ c \in SeriesSeasons(db, ids[p], req[p].id) \cup SeasonEpisodes(db, ids[p], req[p].id)
      BY <2>1, <2>2, <2>5, ShownByRoute
    <3>2. ids[p] = wide
      <4>1. req[p].route # "filters"
        BY <2>1, <2>2, ShownByRoute
      <4> QED
        BY <2>2, <2>5, <4>1 DEF Asks
    <3>3. CASE DetailFound(db, ids[p], c)
      BY <2>2, <2>3, <3>2, <3>3
    <3>4. CASE /\ req[p].route \in {"seasons", "episodes"}
               /\ c \in SeriesSeasons(db, ids[p], req[p].id) \cup SeasonEpisodes(db, ids[p], req[p].id)
      <4>1. DetailFound(db, ids[p], req[p].id)
        BY <3>2, <3>4 DEF Openable, Opens
      <4>2. DetailFound(db, ids[p], c)
        BY <2>1, <2>2, <3>4, <4>1, PartsAreFound
      <4> QED
        BY <2>2, <2>3, <3>2, <4>2
    <3> QED
      BY <3>1, <3>3, <3>4
  <2> QED
    BY <2>4, <2>5
<1> QED
  BY <1>1, Invariance, PTL
=============================================================================
