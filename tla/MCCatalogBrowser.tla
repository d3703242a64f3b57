--------------------------- MODULE MCCatalogBrowser ---------------------------
EXTENDS CatalogBrowser

\* The home query is of the database; the other asks for a library, and for a
\* type that the host lists.
MCRoute == [q \in Queries |-> IF q = Home THEN "db" ELSE "host"]
MCScope == [q \in Queries |-> IF q = Home THEN "plain" ELSE "library"]

\* Five items, and four of them after the first left.
MCResults == {<<1, 2, 3, 4, 5>>, <<2, 3, 4, 5>>}
MCFirstResult == [q \in Queries |-> <<1, 2, 3, 4, 5>>]
=============================================================================
