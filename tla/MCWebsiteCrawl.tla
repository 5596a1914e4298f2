--------------------------- MODULE MCWebsiteCrawl ---------------------------
(* Instances of WebsiteCrawl small enough for TLC. *)
EXTENDS WebsiteCrawl, Functions

CONSTANT Entries \* bound: the entries of the longest sitemap

\* No sitemap, one entry, or as many different ones as there may be.
Sitemaps == {<<>>} \cup [{1} -> Url \cup {Stray}] \cup Injection(1..Entries, Url)

SmallInit == \E s \in Sitemaps : InitWith(s)
FairSpec == SmallInit /\ [][Next]_vars /\ Fairness
=============================================================================
