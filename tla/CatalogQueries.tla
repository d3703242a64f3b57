--------------------------- MODULE CatalogQueries ---------------------------
(***************************************************************************)
(* The catalog queries (internal/store/catalog_media.go,                   *)
(* catalog_filters.go, catalog_item.go, catalog_series.go,                 *)
(* catalog_quality.go) as relational operators over a state of the host's  *)
(* tables.  ids are the libraries of allowedLibraryIDs; no ids would be no *)
(* restriction, which is why a query is not asked when all is denied.      *)
(*                                                                         *)
(* Columns that only dress a row are left out, and so are order and pages  *)
(* (CatalogBrowser); a missing year is 0, a search the contents whose      *)
(* titles it matches.                                                      *)
(***************************************************************************)
EXTENDS LibraryScope

CONSTANTS
    Items,        \* media_items: movies, series and others
    Seasons,
    Episodes,
    SeriesOf,     \* of seasons and episodes
    SeasonOf,     \* of episodes
    Genres,
    Years

Contents == Items \cup Seasons \cup Episodes

Titles == Items \cup Episodes

\* shelf is media_item_libraries and episode_libraries, files the folders of
\* the files that are not missing, closed the folders that are not enabled.
Tables ==
    [matched : SUBSET Items,
     type    : [Items -> {"movie", "series", "audiobook", "ebook"}],
     genres  : [Items -> SUBSET Genres],
     year    : [Titles -> Years \cup {0}],
     shelf   : [Titles -> SUBSET Libraries],
     files   : [Titles -> SUBSET Libraries],
     closed  : SUBSET Libraries]

\* What the host keeps of its own tables: an episode is in libraries of its
\* series only.
EpisodesWithSeries(d) == \A e \in Episodes : d.shelf[e] \subseteq d.shelf[SeriesOf[e]]

ASSUME QueriesAssumption ==
    /\ Items \cap Seasons = {} /\ Items \cap Episodes = {} /\ Seasons \cap Episodes = {}
    /\ SeriesOf \in [Seasons \cup Episodes -> Items]
    /\ SeasonOf \in [Episodes -> Seasons]
    /\ \A e \in Episodes : SeriesOf[SeasonOf[e]] = SeriesOf[e]
    /\ Years \subseteq Nat \ {0}

\* The shelf that the details of a content are scoped by.
Shelf(d, c) == d.shelf[IF c \in Items THEN c ELSE SeriesOf[c]]

InScope(libs, ids) == ids = {} \/ libs \cap ids # {}

-----------------------------------------------------------------------------
(* Lists. *)

\* What a list is filtered by; no genre and year 0 are no filter.
Filter == [hits : SUBSET Contents, genre : SUBSET Genres, from : Years \cup {0}, to : Years \cup {0}]

NoFilter == [hits |-> Contents, genre |-> {}, from |-> 0, to |-> 0]

\* A missing year satisfies neither bound.
ItemMatches(d, ids, types, f, i) ==
    /\ InScope(d.shelf[i], ids)
    /\ types = {} \/ d.type[i] \in types
    /\ i \in f.hits
    /\ f.genre \subseteq d.genres[i]
    /\ f.from = 0 \/ d.year[i] >= f.from
    /\ f.to = 0 \/ (d.year[i] # 0 /\ d.year[i] <= f.to)

\* Mutant of MediaItems: the status is not asked for.
MediaItemsAny(d, ids, types, f) == {i \in Items : ItemMatches(d, ids, types, f, i)}

\* CatalogMedia, but for episodes.
MediaItems(d, ids, types, f) == {i \in d.matched : ItemMatches(d, ids, types, f, i)}

\* catalogEpisodeMedia.  A missing year is 0, which is before any upper bound.
EpisodeItems(d, ids, f) ==
    {e \in Episodes :
        /\ SeriesOf[e] \in d.matched
        /\ InScope(d.shelf[e], ids)
        /\ {e, SeriesOf[e]} \cap f.hits # {}
        /\ f.genre \subseteq d.genres[SeriesOf[e]]
        /\ f.from = 0 \/ d.year[e] >= f.from
        /\ f.to = 0 \/ d.year[e] <= f.to}

CatalogMedia(d, ids, types, f) ==
    IF types = {"episode"} THEN EpisodeItems(d, ids, f) ELSE MediaItems(d, ids, types, f)

-----------------------------------------------------------------------------
(* Filters. *)

\* The join with the libraries asks for one in scope.
Shelved(d, ids, c) == \E l \in d.shelf[c] : ids = {} \/ l \in ids

\* Mutant of FilteredItems: of every item.
FilteredItemsAny(d, ids, types) ==
    {i \in Items : Shelved(d, ids, i) /\ (types = {} \/ d.type[i] \in types)}

FilteredItems(d, ids, types) ==
    {i \in d.matched : Shelved(d, ids, i) /\ (types = {} \/ d.type[i] \in types)}

FilteredEpisodes(d, ids) == {e \in Episodes : Shelved(d, ids, e)}

\* The genres offered.
CatalogGenres(d, ids, types) ==
    UNION {d.genres[i] : i \in IF types = {"episode"}
                               THEN {SeriesOf[e] : e \in FilteredEpisodes(d, ids)} \cap d.matched
                               ELSE FilteredItems(d, ids, types)}

\* The years offered; those of episodes whatever the status of the series.
CatalogYears(d, ids, types) ==
    {d.year[c] : c \in IF types = {"episode"}
                       THEN FilteredEpisodes(d, ids)
                       ELSE FilteredItems(d, ids, types)} \ {0}

-----------------------------------------------------------------------------
(* Details. *)

\* catalogRootItemDetail, catalogSeasonDetail and catalogEpisodeDetail, tried
\* in turn: each knows its own contents, the last two by their series.
DetailFound(d, ids, c) ==
    /\ c \in Contents
    /\ (IF c \in Items THEN c ELSE SeriesOf[c]) \in d.matched
    /\ InScope(Shelf(d, c), ids)

\* CatalogItemLibraries.
ItemLibraries(d, ids, c) == {l \in Shelf(d, c) \ d.closed : ids = {} \/ l \in ids}

\* CatalogItemQualities, CatalogSeasonQualities and CatalogEpisodeQualities: the
\* folders of the files whose qualities are listed.
QualityFolders(d, ids, c) ==
    {l \in UNION {d.files[t] : t \in IF c \in Seasons THEN {e \in Episodes : SeasonOf[e] = c} ELSE {c}} :
        ids = {} \/ l \in ids}

\* CatalogSeriesSeasons, which does not ask for the status.
SeriesSeasons(d, ids, series) ==
    {s \in Seasons : SeriesOf[s] = series /\ InScope(d.shelf[series], ids)}

\* CatalogSeasonEpisodes.
SeasonEpisodes(d, ids, season) ==
    {e \in Episodes : SeasonOf[e] = season /\ InScope(d.shelf[SeriesOf[e]], ids)}
=============================================================================
