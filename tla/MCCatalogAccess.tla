--------------------------- MODULE MCCatalogAccess ---------------------------
EXTENDS CatalogAccess

CONSTANTS film, show, season, episode, drama, other

MCSeriesOf == [c \in {season, episode} |-> show]
MCSeasonOf == [c \in {episode} |-> season]

\* Everything is matched; the film is in one library, the series in both, its
\* episode in the other ...
Whole ==
    [matched |-> Items,
     type    |-> [i \in Items |-> IF i = film THEN "movie" ELSE "series"],
     genres  |-> [i \in Items |-> {drama}],
     year    |-> [c \in Titles |-> IF c = show THEN 0 ELSE 1],
     shelf   |-> [c \in Titles |-> IF c = film THEN {1} ELSE IF c = show THEN {1, 2} ELSE {2}],
     files   |-> [c \in Titles |-> {2}],
     closed  |-> {}]

\* ... or the series is not matched and in one library, and the film is a book
\* in both.
Partial ==
    [Whole EXCEPT !.matched = {film}, !.type = [@ EXCEPT ![film] = "ebook"],
                  !.shelf = [@ EXCEPT ![film] = {1, 2}, ![show] = {2}]]

MCDatabases == {Whole, Partial}

MCFloors == {{}, {1}, {1, 2}}

MCTokenScopes == {{1}, {1, other}}
MCTokenTypes == {{}, {"movie", "ebook"}}
MCAskScopes == {{}, {2}, {other}}
MCAskTypes == {{}, {"tv"}, {"episode"}, {"movie", "ebook"}}
MCFilters == {NoFilter, [NoFilter EXCEPT !.hits = {show, season}, !.genre = {drama}]}
=============================================================================
