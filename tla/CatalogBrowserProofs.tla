------------------------ MODULE CatalogBrowserProofs ------------------------
(***************************************************************************)
(* Proofs about CatalogBrowser, for any queries, results and page sizes.   *)
(*                                                                         *)
(* HeadIsCurrent follows from an invariant about what is in flight: every  *)
(* fetch that is not aborted is of the toolbar's query.  ListIsPrefix is   *)
(* strengthened by what a page in flight continues: while it is fresh its  *)
(* token is the list's, which is where the list ends.                      *)
(***************************************************************************)
EXTENDS CatalogBrowser, SequenceTheorems, TLAPS

\* Nothing in flight is of a toolbar that was moved past.
FlightInv ==
    /\ timer => main = {}
    /\ \A f \in main : f.query = toolbar /\ f.token = NoToken
    /\ asks \subseteq {Scope[toolbar]}
    /\ HeadIsCurrent

\* One page is loaded at a time, and it is the one after the list.
MoreInv ==
    /\ \A f, g \in more : f = g
    /\ more # {} => loadingMore
    /\ \A f \in more : f.token # NoToken
    /\ \A f \in more : f.fresh /\ list.whole => f.query = list.head /\ f.token = list.next

\* The list ends where its token says.
ListInv ==
    list.whole =>
        /\ list.ver \in 1 .. Len(versions[list.head])
        /\ list.next # NoToken => list.next.at = Len(list.items)
        /\ ListIsPrefix

Inv == TypeOK /\ FlightInv /\ MoreInv /\ ListInv

-----------------------------------------------------------------------------
(* Pages. *)

\* The end of a page.
LEMMA PageEnds ==
    ASSUME NEW result \in Seq(Items), NEW at \in Nat, NEW size \in Nat \ {0}
    PROVE  LET m == IF at + size < Len(result) THEN at + size ELSE Len(result)
           IN  /\ Page(result, at, size) = SubSeq(result, at + 1, m)
               /\ Page(result, at, size) \in Seq(Items)
               /\ Len(Page(result, at, size)) = IF at < m THEN m - at ELSE 0
<1> DEFINE m == IF at + size < Len(result) THEN at + size ELSE Len(result)
<1>1. m \in Nat /\ m <= Len(result)
  BY LenProperties
<1>2. \A i \in at + 1 .. m : i \in 1 .. Len(result)
  BY <1>1
<1>3. \A i \in at + 1 .. m : result[i] \in Items
  BY <1>2, ElementOfSeq
<1>4. /\ SubSeq(result, at + 1, m) \in Seq(Items)
      /\ Len(SubSeq(result, at + 1, m)) = IF at + 1 <= m THEN m - (at + 1) + 1 ELSE 0
  BY <1>1, <1>2, SubSeqProperties
<1> QED
  BY <1>1, <1>4 DEF Page

\* A page after the first at items makes a prefix a longer one, and the token
\* after it is none exactly if that is all.
LEMMA PageContinues ==
    ASSUME NEW result \in Seq(Items), NEW at \in Nat, at <= Len(result),
           NEW size \in Nat \ {0}, NEW kind \in {"offset", "cursor"}
    PROVE  LET longer == SubSeq(result, 1, at) \o Page(result, at, size)
               next   == TokenAfter(kind, result, at, size)
           IN  /\ Len(longer) <= Len(result)
               /\ longer = SubSeq(result, 1, Len(longer))
               /\ next = NoToken <=> Len(longer) = Len(result)
               /\ next # NoToken => next.at = Len(longer)
<1> DEFINE m == IF at + size < Len(result) THEN at + size ELSE Len(result)
           longer == SubSeq(result, 1, at) \o Page(result, at, size)
<1>1. m \in Nat /\ m <= Len(result) /\ at <= m
  BY LenProperties
<1>2. Page(result, at, size) = SubSeq(result, at + 1, m) /\ Len(Page(result, at, size)) = m - at
  <2>1. /\ Page(result, at, size) = SubSeq(result, at + 1, m)
        /\ Len(Page(result, at, size)) = IF at < m THEN m - at ELSE 0
    BY PageEnds
  <2> QED
    BY <1>1, <2>1
<1>3. longer = SubSeq(result, 1, m)
  <2>1. SubSeq(result, 1, at) \o SubSeq(result, at + 1, m) = SubSeq(result, 1, m)
    <3>1. 1 \in 1 .. Len(result) + 1 /\ at \in 1 - 1 .. Len(result) /\ m \in at .. Len(result)
      BY <1>1, LenProperties
    <3> QED
      BY <3>1, ConcatAdjacentSubSeq
  <2> QED
    BY <1>2, <2>1
<1>4. Len(longer) = m
  BY <1>1, <1>3, SubSeqProperties
<1>5. at + Len(Page(result, at, size)) = m
  BY <1>1, <1>2
<1>6. TokenAfter(kind, result, at, size) = IF m < Len(result) THEN [kind |-> kind, at |-> m] ELSE NoToken
  BY <1>5 DEF TokenAfter
<1>7. [kind |-> kind, at |-> m] # NoToken
  BY DEF NoToken
<1> QED
  BY <1>1, <1>3, <1>4, <1>6, <1>7

\* Answers have their type.
LEMMA AnswerTypes ==
    ASSUME TypeOK, NEW f \in Fetch, NEW a \in Answers(f)
    PROVE  /\ a \in Answer
           /\ ~a.lost => \E v \in 1 .. Len(versions[f.query]) :
                           \E at \in Starts(f.query, f.token, versions[f.query][v]) :
                              /\ at \in Nat /\ versions[f.query][v] \in Seq(Items)
                              /\ a = PageAnswer(KindOf(f.query), versions[f.query][v], at, PageSize, v)
<1>1. NoAnswer \in Answer /\ NoAnswer.lost
  BY DEF NoAnswer, Answer, NoToken, Token
<1>2. ASSUME NEW v \in 1 .. Len(versions[f.query]),
             NEW at \in Starts(f.query, f.token, versions[f.query][v])
      PROVE  /\ at \in Nat /\ versions[f.query][v] \in Seq(Items)
             /\ PageAnswer(KindOf(f.query), versions[f.query][v], at, PageSize, v) \in Answer
  <2>1. f.query \in Queries /\ f.token \in Token
    BY DEF Fetch
  <2>2. versions[f.query] \in Seq(Results)
    BY <2>1 DEF TypeOK
  <2>3. versions[f.query][v] \in Results
    BY <2>2, ElementOfSeq
  <2>4. versions[f.query][v] \in Seq(Items)
    BY <2>3, BrowserAssumption
  <2>5. at \in Nat
    BY <2>1, <2>4, LenProperties DEF Starts, Token
  <2>6. /\ Page(versions[f.query][v], at, PageSize) \in Seq(Items)
        /\ Len(Page(versions[f.query][v], at, PageSize)) \in Nat
    BY <2>4, <2>5, PageEnds, LenProperties, BrowserAssumption
  <2>7. TokenAfter(KindOf(f.query), versions[f.query][v], at, PageSize) \in Token
    BY <2>5, <2>6 DEF TokenAfter, Token, NoToken, KindOf
  <2>8. v \in Nat /\ Len(versions[f.query][v]) \in Nat
    BY <2>4, LenProperties
  <2> QED
    BY <2>4, <2>5, <2>6, <2>7, <2>8 DEF PageAnswer, Answer
<1>3. a = NoAnswer \/ \E v \in 1 .. Len(versions[f.query]) :
                         \E at \in Starts(f.query, f.token, versions[f.query][v]) :
                            a = PageAnswer(KindOf(f.query), versions[f.query][v], at, PageSize, v)
  BY DEF Answers
<1> QED
  BY <1>1, <1>2, <1>3

\* The list a first page makes.
LEMMA FirstPageTypes ==
    ASSUME NEW q \in Queries, NEW a \in Answer
    PROVE  FirstPage(q, a) \in List
  BY DEF FirstPage, List, Answer

-----------------------------------------------------------------------------
(* The start. *)

\* The page the server embeds.
LEMMA EmbeddedPage ==
    LET a == PageAnswer("offset", FirstResult[Home], 0, BootSize, 1)
    IN  /\ a \in Answer
        /\ a.items = SubSeq(FirstResult[Home], 1, Len(a.items))
        /\ Len(a.items) <= Len(FirstResult[Home])
        /\ a.total = Len(FirstResult[Home])
        /\ a.next = NoToken <=> Len(a.items) = Len(FirstResult[Home])
        /\ a.next # NoToken => a.next.at = Len(a.items)
<1> DEFINE r == FirstResult[Home]
<1>1. r \in Seq(Items) /\ BootSize \in Nat \ {0} /\ Len(r) \in Nat
  BY BrowserAssumption, LenProperties
<1>2. Page(r, 0, BootSize) \in Seq(Items) /\ Len(Page(r, 0, BootSize)) \in Nat
  BY <1>1, PageEnds, LenProperties
<1>3. SubSeq(r, 1, 0) \o Page(r, 0, BootSize) = Page(r, 0, BootSize)
  BY <1>1, <1>2, SubSeqEmpty, ConcatEmptySeq
<1>4. /\ Len(Page(r, 0, BootSize)) <= Len(r)
      /\ Page(r, 0, BootSize) = SubSeq(r, 1, Len(Page(r, 0, BootSize)))
      /\ TokenAfter("offset", r, 0, BootSize) = NoToken <=> Len(Page(r, 0, BootSize)) = Len(r)
      /\ TokenAfter("offset", r, 0, BootSize) # NoToken =>
            TokenAfter("offset", r, 0, BootSize).at = Len(Page(r, 0, BootSize))
  <2>1. 0 <= Len(r)
    BY <1>1
  <2> HIDE DEF r
  <2> QED
    BY <1>1, <1>3, <2>1, PageContinues
<1>5. TokenAfter("offset", r, 0, BootSize) \in Token
  BY <1>2 DEF TokenAfter, Token, NoToken
<1> QED
  BY <1>1, <1>2, <1>4, <1>5 DEF PageAnswer, Answer

LEMMA InitInv == Init => Inv
<1> SUFFICES ASSUME Init PROVE Inv
  OBVIOUS
<1> DEFINE b == PageAnswer("offset", FirstResult[Home], 0, BootSize, 1)
<1>1. NoAnswer \in Answer /\ NoAnswer.lost
  BY DEF NoAnswer, Answer, NoToken, Token
<1>2. b \in Answer /\ b.ver = 1 /\ ~b.lost
  BY EmbeddedPage DEF PageAnswer
<1>3. list \in List
  BY <1>1, <1>2, FirstPageTypes, BrowserAssumption DEF Init
<1>4. \A q \in Queries : versions[q] \in Seq(Results) /\ Len(versions[q]) = 1 /\ versions[q][1] = FirstResult[q]
  <2> TAKE q \in Queries
  <2>1. versions[q] = <<FirstResult[q]>> /\ FirstResult[q] \in Results
    BY BrowserAssumption DEF Init
  <2> QED
    BY <2>1
<1>5. versions \in [Queries -> Seq(Results)]
  BY <1>4 DEF Init
<1>6. TypeOK
  <2>1. toolbar \in Queries /\ Scope[Home] \in Scopes
    BY BrowserAssumption DEF Init, Scopes
  <2>2. filters \in Scopes \cup {NoScope} /\ asks \subseteq Scopes
    BY <2>1 DEF Init
  <2>3. main = {} /\ more = {} /\ loadingMore = FALSE /\ error = FALSE /\ stale = FALSE
    BY DEF Init
  <2>4. timer = TRUE
    BY DEF Init
  <2>5. {changes, clicks, edits} \subseteq Nat
    BY DEF Init
  <2> QED
    BY <1>3, <1>5, <2>1, <2>2, <2>3, <2>4, <2>5 DEF TypeOK
<1>7. FlightInv
  BY <1>1 DEF Init, FlightInv, HeadIsCurrent, FirstPage
<1>8. MoreInv
  BY DEF Init, MoreInv
<1>9. ListInv
  <2>1. CASE list = FirstPage(Home, NoAnswer)
    BY <1>1, <2>1 DEF ListInv, FirstPage
  <2>2. CASE list = FirstPage(Home, b)
    <3>1. list.items = b.items /\ list.next = b.next /\ list.total = b.total /\ list.head = Home /\ list.ver = 1
      BY <2>2, <1>2 DEF FirstPage
    <3>2. versions[list.head][list.ver] = FirstResult[Home] /\ Len(versions[list.head]) = 1
      BY <3>1, <1>4, BrowserAssumption
    <3> HIDE DEF b
    <3>3. /\ b.items = SubSeq(FirstResult[Home], 1, Len(b.items))
          /\ Len(b.items) <= Len(FirstResult[Home])
          /\ b.total = Len(FirstResult[Home])
          /\ b.next = NoToken <=> Len(b.items) = Len(FirstResult[Home])
          /\ b.next # NoToken => b.next.at = Len(b.items)
      BY EmbeddedPage DEF b
    <3> QED
      BY <3>1, <3>2, <3>3 DEF ListInv, ListIsPrefix
  <2> QED
    BY <2>1, <2>2 DEF Init
<1> QED
  BY <1>6, <1>7, <1>8, <1>9 DEF Inv

-----------------------------------------------------------------------------
(* Types. *)

LEMMA TypeStep == Inv /\ [Next]_vars => TypeOK'
<1> SUFFICES ASSUME Inv, [Next]_vars PROVE TypeOK'
  OBVIOUS
<1> USE DEF Inv
<1>0. NoAnswer \in Answer
  BY DEF NoAnswer, Answer, NoToken, Token
<1>1. ASSUME NEW fs \in SUBSET Fetch PROVE Outdated(fs) \in SUBSET Fetch
  BY DEF Outdated, Fetch
<1>2. ASSUME NEW q \in Queries PROVE Scope[q] \in Scopes
  BY DEF Scopes
<1>3. CASE ChangeToolbar
  <2>1. \A q \in Queries : FiltersEffect(q) => asks' \subseteq Scopes
    BY <1>2 DEF FiltersEffect, TypeOK
  <2>2. list' \in List /\ more' \subseteq Fetch /\ error' \in BOOLEAN
    <3>1. CASE UNCHANGED <<list, more, error>>
      BY <3>1 DEF TypeOK
    <3>2. ASSUME NEW f \in main, list' = FirstPage(f.query, NoAnswer), more' = Outdated(more), UNCHANGED error
          PROVE  list' \in List /\ more' \subseteq Fetch /\ error' \in BOOLEAN
      BY <3>2, <1>0, <1>1, FirstPageTypes DEF TypeOK, Fetch
    <3>3. CASE error' = TRUE /\ UNCHANGED <<list, more>>
      BY <3>3 DEF TypeOK
    <3> QED
      BY <1>3, <3>1, <3>2, <3>3 DEF ChangeToolbar, AbortOutcome
  <2>3. toolbar' \in Queries /\ asks' \subseteq Scopes
    BY <1>3, <2>1 DEF ChangeToolbar
  <2> QED
    BY <1>3, <2>2, <2>3 DEF ChangeToolbar, Aborted, TypeOK
<1>4. CASE StartFetch
  <2>1. [no |-> changes, query |-> toolbar, token |-> NoToken, fresh |-> TRUE] \in Fetch
    BY DEF TypeOK, Fetch, NoToken, Token
  <2>2. main = {}
    BY <1>4 DEF StartFetch, FlightInv
  <2> QED
    BY <1>4, <2>1, <2>2 DEF StartFetch, TypeOK
<1>5. CASE FetchDone
  <2> PICK f \in main : \E a \in Answers(f) :
        /\ list' = FirstPage(f.query, a) /\ main' = main \ {f} /\ more' = Outdated(more)
        /\ UNCHANGED <<versions, toolbar, timer, loadingMore, error, filters, asks, stale,
                       changes, clicks, edits>>
    BY <1>5 DEF FetchDone
  <2> PICK a \in Answers(f) :
        /\ list' = FirstPage(f.query, a) /\ main' = main \ {f} /\ more' = Outdated(more)
        /\ UNCHANGED <<versions, toolbar, timer, loadingMore, error, filters, asks, stale,
                       changes, clicks, edits>>
    BY <1>5 DEF FetchDone
  <2>1. f \in Fetch /\ f.query \in Queries
    BY DEF TypeOK, Fetch
  <2>2. a \in Answer
    BY <2>1, AnswerTypes
  <2>3. list' \in List /\ more' \subseteq Fetch
    BY <2>1, <2>2, <1>1, FirstPageTypes DEF TypeOK
  <2> QED
    BY <2>3 DEF TypeOK
<1>6. CASE FetchFails
  BY <1>6 DEF FetchFails, TypeOK
<1>7. CASE FiltersDone
  BY <1>7 DEF FiltersDone, TypeOK
<1>8. CASE FiltersFail
  BY <1>8 DEF FiltersFail, TypeOK
<1>9. CASE LoadMore
  <2>1. [no |-> clicks, query |-> toolbar, token |-> list.next, fresh |-> toolbar = list.head] \in Fetch
    BY DEF TypeOK, Fetch, List
  <2> QED
    BY <1>9, <2>1 DEF LoadMore, TypeOK
<1>10. CASE MoreDone
  <2> PICK f \in more : \E a \in Answers(f) :
        /\ list' = Extended(list, f, a) /\ more' = more \ {f} /\ loadingMore' = FALSE
        /\ UNCHANGED <<versions, toolbar, timer, main, error, filters, asks, stale,
                       changes, clicks, edits>>
    BY <1>10 DEF MoreDone
  <2> PICK a \in Answers(f) :
        /\ list' = Extended(list, f, a) /\ more' = more \ {f} /\ loadingMore' = FALSE
        /\ UNCHANGED <<versions, toolbar, timer, main, error, filters, asks, stale,
                       changes, clicks, edits>>
    BY <1>10 DEF MoreDone
  <2>1. f \in Fetch /\ f.query \in Queries
    BY DEF TypeOK, Fetch
  <2>2. a \in Answer
    BY <2>1, AnswerTypes
  <2>3. list.items \o a.items \in Seq(Items)
    BY <2>2, ConcatProperties DEF TypeOK, List, Answer
  <2>4. Extended(list, f, a) \in List
    BY <2>1, <2>2, <2>3 DEF TypeOK, List, Answer, Extended
  <2> QED
    BY <2>4 DEF TypeOK
<1>11. CASE MoreFails
  BY <1>11 DEF MoreFails, TypeOK
<1>12. CASE Edit
  <2> PICK q \in Queries, r \in Results : versions' = [versions EXCEPT ![q] = Append(@, r)]
    BY <1>12 DEF Edit
  <2>1. versions' \in [Queries -> Seq(Results)]
    BY DEF TypeOK
  <2> QED
    BY <1>12, <2>1 DEF Edit, TypeOK
<1>13. CASE UNCHANGED vars
  BY <1>13 DEF vars, TypeOK
<1> QED
  BY <1>3, <1>4, <1>5, <1>6, <1>7, <1>8, <1>9, <1>10, <1>11, <1>12, <1>13 DEF Next

-----------------------------------------------------------------------------
(* What is in flight. *)

LEMMA FlightStep == Inv /\ [Next]_vars => FlightInv'
<1> SUFFICES ASSUME Inv, [Next]_vars PROVE FlightInv'
  OBVIOUS
<1> USE DEF Inv
<1>1. CASE ChangeToolbar
  <2>1. PICK q \in Queries : toolbar' = q /\ FiltersEffect(q)
    BY <1>1 DEF ChangeToolbar
  <2>2. timer' /\ main' = {} /\ UNCHANGED <<filters, stale>>
    BY <1>1 DEF ChangeToolbar, Aborted
  <2>3. asks' \subseteq {Scope[q]} /\ (asks' = {} /\ ~stale => filters = Scope[q])
    BY <2>1 DEF FiltersEffect, FlightInv, HeadIsCurrent
  <2> QED
    BY <2>1, <2>2, <2>3 DEF FlightInv, HeadIsCurrent
<1>2. CASE StartFetch
  <2>1. main = {}
    BY <1>2 DEF StartFetch, FlightInv
  <2>2. main' = {[no |-> changes, query |-> toolbar, token |-> NoToken, fresh |-> TRUE]}
    BY <1>2, <2>1 DEF StartFetch
  <2>3. UNCHANGED <<toolbar, asks, stale, filters>> /\ timer' = FALSE
    BY <1>2 DEF StartFetch
  <2>4. main' # {} /\ \A f \in main' : f.query = toolbar' /\ f.token = NoToken
    BY <2>2, <2>3
  <2>5. asks' \subseteq {Scope[toolbar']} /\ (asks' = {} /\ ~stale' => filters' = Scope[toolbar'])
    BY <2>3 DEF FlightInv, HeadIsCurrent
  <2>6. HeadIsCurrent'
    BY <2>4, <2>5 DEF HeadIsCurrent
  <2> QED
    BY <2>3, <2>4, <2>5, <2>6 DEF FlightInv
<1>3. CASE FetchDone
  BY <1>3 DEF FetchDone, FirstPage, FlightInv, HeadIsCurrent
<1>4. CASE FetchFails
  BY <1>4 DEF FetchFails, FlightInv, HeadIsCurrent
<1>5. CASE FiltersDone
  BY <1>5 DEF FiltersDone, FlightInv, HeadIsCurrent
<1>6. CASE FiltersFail
  BY <1>6 DEF FiltersFail, FlightInv, HeadIsCurrent
<1>7. CASE LoadMore
  BY <1>7 DEF LoadMore, FlightInv, HeadIsCurrent
<1>8. CASE MoreDone
  <2>1. list'.head = list.head
    BY <1>8 DEF MoreDone, Extended, TypeOK, List
  <2> QED
    BY <1>8, <2>1 DEF MoreDone, FlightInv, HeadIsCurrent
<1>9. CASE MoreFails
  BY <1>9 DEF MoreFails, FlightInv, HeadIsCurrent
<1>10. CASE Edit
  BY <1>10 DEF Edit, FlightInv, HeadIsCurrent
<1>11. CASE UNCHANGED vars
  BY <1>11 DEF vars, FlightInv, HeadIsCurrent
<1> QED
  BY <1>1, <1>2, <1>3, <1>4, <1>5, <1>6, <1>7, <1>8, <1>9, <1>10, <1>11 DEF Next

-----------------------------------------------------------------------------
(* The list and the page that continues it. *)

\* A first page, whatever was in flight for the list before it.
LEMMA NewList ==
    ASSUME Inv, NEW q \in Queries, NEW a \in Answer,
           list' = FirstPage(q, a), more' = Outdated(more), UNCHANGED <<versions, loadingMore>>,
           ~a.lost => /\ a.ver \in 1 .. Len(versions[q])
                      /\ a = PageAnswer(KindOf(q), versions[q][a.ver], 0, PageSize, a.ver)
                      /\ versions[q][a.ver] \in Seq(Items)
    PROVE  MoreInv' /\ ListInv'
<1>1. MoreInv'
  <2>1. \A f \in more' : \E g \in more : f = [g EXCEPT !.fresh = FALSE]
    BY DEF Outdated
  <2>2. \A f, g \in more' : f = g
    BY <2>1 DEF Inv, MoreInv
  <2>3. \A f \in more' : ~f.fresh /\ f.token # NoToken
    BY <2>1 DEF Inv, MoreInv, TypeOK, Fetch
  <2>4. more' # {} => loadingMore'
    BY <2>1 DEF Inv, MoreInv
  <2> QED
    BY <2>2, <2>3, <2>4 DEF MoreInv
<1>2. CASE a.lost
  <2>1. ~list'.whole
    BY <1>2 DEF FirstPage
  <2> QED
    BY <1>1, <2>1 DEF ListInv
<1>3. CASE ~a.lost
  <2> DEFINE r == versions[q][a.ver]
  <2>1. r \in Seq(Items) /\ Len(r) \in Nat /\ PageSize \in Nat \ {0}
    BY <1>3, BrowserAssumption, LenProperties
  <2>2. KindOf(q) \in {"offset", "cursor"}
    BY DEF KindOf
  <2>3. a.items = Page(r, 0, PageSize) /\ a.next = TokenAfter(KindOf(q), r, 0, PageSize)
        /\ a.total = IF 0 < Len(r) THEN Len(r) ELSE 0
    BY <1>3 DEF PageAnswer
  <2>4. SubSeq(r, 1, 0) \o a.items = a.items
    BY <2>1, SubSeqEmpty, ConcatEmptySeq DEF Answer
  <2> HIDE DEF r
  <2>5. /\ Len(a.items) <= Len(r)
        /\ a.items = SubSeq(r, 1, Len(a.items))
        /\ a.next = NoToken <=> Len(a.items) = Len(r)
        /\ a.next # NoToken => a.next.at = Len(a.items)
    BY <2>1, <2>2, <2>3, <2>4, PageContinues
  <2>6. a.total = Len(r)
    BY <2>1, <2>3
  <2> QED
    BY <1>1, <1>3, <2>5, <2>6 DEF ListInv, ListIsPrefix, FirstPage, r
<1> QED
  BY <1>1, <1>2, <1>3

\* A page that continues the list.
LEMMA LongerList ==
    ASSUME Inv, NEW f \in more, NEW a \in Answers(f),
           list' = Extended(list, f, a), UNCHANGED versions
    PROVE  ListInv'
<1> USE DEF Inv
<1>1. /\ list'.items = list.items \o a.items /\ list'.next = a.next /\ list'.total = list.total
      /\ list'.head = list.head /\ list'.ver = list.ver
      /\ list'.whole = (/\ list.whole /\ f.fresh /\ ~a.lost /\ a.ver = list.ver
                        /\ f.token.kind = KindOf(f.query))
  BY DEF Extended, TypeOK, List
<1> SUFFICES ASSUME list'.whole
             PROVE  ListInv'
  BY DEF ListInv
<1>2. list.whole /\ f.fresh /\ ~a.lost /\ a.ver = list.ver /\ f.token.kind = KindOf(f.query)
  BY <1>1
<1>3. f.query = list.head /\ f.token = list.next /\ f.token # NoToken
  BY <1>2 DEF MoreInv
<1>4. f \in Fetch
  BY DEF TypeOK
<1> DEFINE r  == versions[list.head][list.ver]
           at == Len(list.items)
<1>5. /\ list.ver \in 1 .. Len(versions[list.head])
      /\ list.next.at = at
      /\ at <= Len(r) /\ list.items = SubSeq(r, 1, at) /\ list.total = Len(r)
  BY <1>2, <1>3 DEF ListInv, ListIsPrefix
<1>6. r \in Seq(Items) /\ a = PageAnswer(KindOf(list.head), r, at, PageSize, list.ver)
  <2>1. PICK v \in 1 .. Len(versions[f.query]) :
            \E x \in Starts(f.query, f.token, versions[f.query][v]) :
               /\ x \in Nat /\ versions[f.query][v] \in Seq(Items)
               /\ a = PageAnswer(KindOf(f.query), versions[f.query][v], x, PageSize, v)
    BY <1>2, <1>4, AnswerTypes
  <2>2. PICK x \in Starts(f.query, f.token, versions[f.query][v]) :
               /\ x \in Nat /\ versions[f.query][v] \in Seq(Items)
               /\ a = PageAnswer(KindOf(f.query), versions[f.query][v], x, PageSize, v)
    BY <2>1
  <2>3. v = list.ver
    BY <1>2, <2>2 DEF PageAnswer
  <2>4. x = f.token.at
    BY <1>2, <2>2 DEF Starts
  <2> QED
    BY <1>3, <1>5, <2>2, <2>3, <2>4
<1>7. at \in Nat /\ KindOf(list.head) \in {"offset", "cursor"} /\ PageSize \in Nat \ {0}
  BY LenProperties, BrowserAssumption DEF TypeOK, List, KindOf
<1>8. a.items = Page(r, at, PageSize) /\ a.next = TokenAfter(KindOf(list.head), r, at, PageSize)
  BY <1>6 DEF PageAnswer
<1> HIDE DEF r, at
<1>9. list'.items = SubSeq(r, 1, at) \o Page(r, at, PageSize)
  BY <1>1, <1>5, <1>8
<1>10. /\ Len(list'.items) <= Len(r)
       /\ list'.items = SubSeq(r, 1, Len(list'.items))
       /\ list'.next = NoToken <=> Len(list'.items) = Len(r)
       /\ list'.next # NoToken => list'.next.at = Len(list'.items)
  BY <1>1, <1>5, <1>6, <1>7, <1>8, <1>9, PageContinues
<1> QED
  BY <1>1, <1>5, <1>10 DEF ListInv, ListIsPrefix, r

LEMMA ListStep == Inv /\ [Next]_vars => MoreInv' /\ ListInv'
<1> SUFFICES ASSUME Inv, [Next]_vars PROVE MoreInv' /\ ListInv'
  OBVIOUS
<1> USE DEF Inv
<1>0. ASSUME UNCHANGED <<versions, list, more, loadingMore>>
      PROVE  MoreInv' /\ ListInv'
  BY <1>0 DEF MoreInv, ListInv, ListIsPrefix
<1>1. CASE ChangeToolbar
  <2>1. CASE UNCHANGED <<list, more, error>>
    BY <1>0, <1>1, <2>1 DEF ChangeToolbar
  <2>2. ASSUME NEW f \in main, list' = FirstPage(f.query, NoAnswer), more' = Outdated(more)
        PROVE  MoreInv' /\ ListInv'
    <3>1. NoAnswer \in Answer /\ NoAnswer.lost
      BY DEF NoAnswer, Answer, NoToken, Token
    <3>2. f.query \in Queries
      BY DEF TypeOK, Fetch
    <3>3. UNCHANGED <<versions, loadingMore>>
      BY <1>1 DEF ChangeToolbar
    <3> QED
      BY <2>2, <3>1, <3>2, <3>3, NewList
  <2>3. CASE UNCHANGED <<list, more>>
    BY <1>0, <1>1, <2>3 DEF ChangeToolbar
  <2> QED
    BY <1>1, <2>1, <2>2, <2>3 DEF ChangeToolbar, AbortOutcome
<1>2. CASE StartFetch
  BY <1>0, <1>2 DEF StartFetch
<1>3. CASE FetchDone
  <2> PICK f \in main : \E a \in Answers(f) :
        /\ list' = FirstPage(f.query, a) /\ main' = main \ {f} /\ more' = Outdated(more)
        /\ UNCHANGED <<versions, toolbar, timer, loadingMore, error, filters, asks, stale,
                       changes, clicks, edits>>
    BY <1>3 DEF FetchDone
  <2> PICK a \in Answers(f) :
        /\ list' = FirstPage(f.query, a) /\ more' = Outdated(more)
        /\ UNCHANGED <<versions, loadingMore>>
    OBVIOUS
  <2>1. f \in Fetch /\ f.query \in Queries /\ f.token = NoToken
    BY DEF TypeOK, Fetch, FlightInv
  <2>2. a \in Answer
    BY <2>1, AnswerTypes
  <2>3. \A result : Starts(f.query, f.token, result) = {0}
    BY <2>1 DEF Starts, NoToken, KindOf
  <2>4. ~a.lost => /\ a.ver \in 1 .. Len(versions[f.query])
                   /\ a = PageAnswer(KindOf(f.query), versions[f.query][a.ver], 0, PageSize, a.ver)
                   /\ versions[f.query][a.ver] \in Seq(Items)
    <3> SUFFICES ASSUME ~a.lost
                 PROVE  /\ a.ver \in 1 .. Len(versions[f.query])
                        /\ a = PageAnswer(KindOf(f.query), versions[f.query][a.ver], 0, PageSize, a.ver)
                        /\ versions[f.query][a.ver] \in Seq(Items)
      OBVIOUS
    <3>1. PICK v \in 1 .. Len(versions[f.query]) :
             /\ versions[f.query][v] \in Seq(Items)
             /\ a = PageAnswer(KindOf(f.query), versions[f.query][v], 0, PageSize, v)
      BY <2>1, <2>3, AnswerTypes
    <3>2. a.ver = v
      BY <3>1 DEF PageAnswer
    <3> QED
      BY <3>1, <3>2
  <2> QED
    BY <2>1, <2>2, <2>4, NewList
<1>4. CASE FetchFails
  BY <1>0, <1>4 DEF FetchFails
<1>5. CASE FiltersDone
  BY <1>0, <1>5 DEF FiltersDone
<1>6. CASE FiltersFail
  BY <1>0, <1>6 DEF FiltersFail
<1>7. CASE LoadMore
  <2>1. more = {} /\ list.next # NoToken
    BY <1>7 DEF LoadMore, MayLoadMore, MoreInv
  <2>2. /\ more' = {[no |-> clicks, query |-> toolbar, token |-> list.next, fresh |-> toolbar = list.head]}
        /\ loadingMore' /\ UNCHANGED <<versions, list>>
    BY <1>7, <2>1 DEF LoadMore
  <2>3. \A f \in more' : f.query = toolbar /\ f.token = list.next /\ f.fresh = (toolbar = list.head)
    BY <2>2
  <2>4. MoreInv'
    BY <2>1, <2>2, <2>3 DEF MoreInv
  <2> QED
    BY <2>2, <2>4 DEF ListInv, ListIsPrefix
<1>8. CASE MoreDone
  <2> PICK f \in more : \E a \in Answers(f) :
        /\ list' = Extended(list, f, a) /\ more' = more \ {f} /\ loadingMore' = FALSE
        /\ UNCHANGED <<versions, toolbar, timer, main, error, filters, asks, stale,
                       changes, clicks, edits>>
    BY <1>8 DEF MoreDone
  <2>1. more' = {}
    BY DEF MoreInv
  <2>2. MoreInv'
    BY <2>1 DEF MoreInv
  <2>3. ListInv'
    BY LongerList
  <2> QED
    BY <2>2, <2>3
<1>9. CASE MoreFails
  <2>1. more' = {} /\ UNCHANGED <<versions, list>>
    BY <1>9 DEF MoreFails, MoreInv
  <2> QED
    BY <2>1 DEF MoreInv, ListInv, ListIsPrefix
<1>10. CASE Edit
  <2>1. PICK q \in Queries, r \in Results : versions' = [versions EXCEPT ![q] = Append(@, r)]
    BY <1>10 DEF Edit
  <2>2. UNCHANGED <<list, more, loadingMore>>
    BY <1>10 DEF Edit
  <2>3. versions[list.head] \in Seq(Results) /\ list.head \in Queries
    BY DEF TypeOK, List
  <2>4. \A v \in 1 .. Len(versions[list.head]) :
           v \in 1 .. Len(versions'[list.head]) /\ versions'[list.head][v] = versions[list.head][v]
    <3>1. CASE list.head = q
      <4>1. versions'[q] = Append(versions[q], r)
        BY <2>1 DEF TypeOK
      <4> QED
        BY <3>1, <4>1, <2>3, AppendProperties
    <3>2. CASE list.head # q
      BY <3>2, <2>1, <2>3 DEF TypeOK
    <3> QED
      BY <3>1, <3>2
  <2>5. MoreInv'
    BY <2>2 DEF MoreInv
  <2>6. ListInv'
    BY <2>2, <2>4 DEF ListInv, ListIsPrefix
  <2> QED
    BY <2>5, <2>6
<1>11. CASE UNCHANGED vars
  BY <1>0, <1>11 DEF vars
<1> QED
  BY <1>1, <1>2, <1>3, <1>4, <1>5, <1>6, <1>7, <1>8, <1>9, <1>10, <1>11 DEF Next

-----------------------------------------------------------------------------

\* The inductive invariant.
THEOREM Invariance == Spec => []Inv
<1>1. Inv /\ [Next]_vars => Inv'
  BY TypeStep, FlightStep, ListStep DEF Inv
<1> QED
  BY <1>1, InitInv, PTL DEF Spec

\* The browser's state has its type; at most one first page is in flight that
\* is not aborted (Catalog.tsx:36-126).
THEOREM Typing == Spec => []TypeOK
<1>1. Inv => TypeOK
  BY DEF Inv
<1> QED
  BY <1>1, Invariance, PTL

\* When nothing is pending the first page and the filters are those of the
\* toolbar, or their fetch failed (Catalog.tsx:69-113).
THEOREM HeadStaysCurrent == Spec => []HeadIsCurrent
<1>1. Inv => HeadIsCurrent
  BY DEF Inv, FlightInv
<1> QED
  BY <1>1, Invariance, PTL

\* The pages of one list and one version join up, for every result and page
\* size (Catalog.tsx:115-127, catalog_media.go:28-31,89-91).
THEOREM PagesJoin == Spec => []ListIsPrefix
<1>1. Inv => ListIsPrefix
  BY DEF Inv, ListInv, ListIsPrefix
<1> QED
  BY <1>1, Invariance, PTL

-----------------------------------------------------------------------------
(* Pages of the past, which the code lets in by one way only.              *)

\* Nobody changes the query of the toolbar while a page of load more is fetched.
MoreOfToolbar == \A f \in more : f.query = toolbar

\* At rest every page is of the toolbar's query.
ToolbarInv == ~timer /\ main = {} /\ ~error => list.of = {toolbar}

\* As long as the toolbar waits for the pages of load more, nothing of a query
\* that was moved past is shown at rest, whatever fails, comes late or is clicked
\* during the debounce: the page that loadMore appends without a look at the
\* toolbar is the only one (Catalog.tsx:67-69, 118-124).
THEOREM OnlyMoreOutlives == Spec => ([]MoreOfToolbar => []NoPageOfThePast)
<1>1. Init => ToolbarInv
  BY DEF Init, ToolbarInv
<1>2. Inv /\ MoreOfToolbar /\ ToolbarInv /\ [Next]_vars => ToolbarInv'
  <2> SUFFICES ASSUME Inv, MoreOfToolbar, ToolbarInv, [Next]_vars PROVE ToolbarInv'
    OBVIOUS
  <2>1. CASE ChangeToolbar
    BY <2>1 DEF ChangeToolbar, ToolbarInv
  <2>2. CASE StartFetch
    BY <2>2 DEF StartFetch, ToolbarInv
  <2>3. CASE FetchDone
    BY <2>3 DEF FetchDone, FirstPage, Inv, FlightInv, ToolbarInv
  <2>4. CASE FetchFails
    BY <2>4 DEF FetchFails, ToolbarInv
  <2>5. CASE FiltersDone
    BY <2>5 DEF FiltersDone, ToolbarInv
  <2>6. CASE FiltersFail
    BY <2>6 DEF FiltersFail, ToolbarInv
  <2>7. CASE LoadMore
    BY <2>7 DEF LoadMore, ToolbarInv
  <2>8. CASE MoreDone
    <3>1. PICK f \in more : \E a : list' = Extended(list, f, a)
      BY <2>8 DEF MoreDone
    <3>2. f.query = toolbar /\ (list'.of = list.of \/ list'.of = list.of \cup {f.query})
      BY <3>1 DEF MoreOfToolbar, Extended, Inv, TypeOK, List
    <3> QED
      BY <2>8, <3>2 DEF MoreDone, ToolbarInv
  <2>9. CASE MoreFails
    BY <2>9 DEF MoreFails, ToolbarInv
  <2>10. CASE Edit
    BY <2>10 DEF Edit, ToolbarInv
  <2>11. CASE UNCHANGED vars
    BY <2>11 DEF vars, ToolbarInv
  <2> QED
    BY <2>1, <2>2, <2>3, <2>4, <2>5, <2>6, <2>7, <2>8, <2>9, <2>10, <2>11 DEF Next
<1>3. ToolbarInv => NoPageOfThePast
  BY DEF ToolbarInv, NoPageOfThePast
<1> QED
  BY <1>1, <1>2, <1>3, Invariance, PTL DEF Spec
=============================================================================
