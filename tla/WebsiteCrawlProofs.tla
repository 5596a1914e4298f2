------------------------- MODULE WebsiteCrawlProofs -------------------------
(***************************************************************************)
(* Proofs about WebsiteCrawl, for every finite set of URLs, every sitemap  *)
(* and every page limit.                                                   *)
(***************************************************************************)
EXTENDS WebsiteCrawl, FiniteSetTheorems, TLAPS

\* Whose final URL is known and whose links are not.
Landed == {"rendering", "pushed"}

\* The page that u leads to is in the list.
Answered(u) == \E f \in landed[u] : pages[f] > 0

\* A page that is in the list, or is being rendered for it, is remembered, and no other
\* handler is rendering it.
PagesAreSeen ==
    /\ \A f \in Url : pages[f] \in {0, 1} /\ (pages[f] = 1 => f \in seen)
    /\ \A u \in Url, n \in Try : handler[u][n].pc = "rendering" =>
          handler[u][n].final \in seen /\ pages[handler[u][n].final] = 0
    /\ \A u, v \in Url, n, m \in Try :
          /\ handler[u][n].pc = "rendering" /\ handler[v][m].pc = "rendering"
          /\ handler[u][n].final = handler[v][m].final
          => u = v /\ n = m

\* Of a handler and its retry, one at most goes on with the page that they lead to.
HandlersHaveLanded ==
    \A u \in Url, n \in Try :
        /\ handler[u][n].pc # "none" => request[u] # "absent"
        /\ handler[u][n].pc \in Landed =>
              /\ landed[u] = {handler[u][n].final}
              /\ \A m \in Try : handler[u][m].pc \in Landed => n = m
        /\ handler[u][n].pc = "pushed" => pages[handler[u][n].final] = 1

\* A URL leads to one page, which is remembered.
LandedAreSeen ==
    \A u \in Url : landed[u] \subseteq seen /\ \A f, g \in landed[u] : f = g

\* A request that is handled was skipped or failed, or its page is in the list and no
\* handler of it is going to add anything.
HandledAreAnswered ==
    \A u \in Url : request[u] = "handled" =>
        \/ skipped = 1 \/ u \in failed
        \/ Answered(u) /\ \A n \in Try : handler[u][n].pc \notin Landed

\* What is found is requested, or something was skipped.
FoundAreRequested ==
    status = "crawling" /\ skipped = 0 =>
        \A u \in Seeds(sitemap) \cup found : request[u] # "absent"

\* When the result is complete no handler is going to add anything.
CompleteIsQuiet ==
    Complete =>
        /\ \A u \in Seeds(sitemap) \cup found : request[u] # "absent"
        /\ \A u \in Url : /\ request[u] # "absent" => Answered(u)
                          /\ \A n \in Try : handler[u][n].pc \notin Landed

CrawlInvariant ==
    /\ TypeOK /\ PagesAreSeen /\ HandlersHaveLanded /\ LandedAreSeen
    /\ HandledAreAnswered /\ FoundAreRequested /\ CompleteIsQuiet

-----------------------------------------------------------------------------
\* The bounds of the counts.
LEMMA UrlsAreCounted ==
    /\ Cardinality(Url) \in Nat \ {0}
    /\ {0, 1} \subseteq 0..2 * Cardinality(Url)
    /\ \A s \in SUBSET Url : IsFiniteSet(s) /\ Cardinality(s) \in 0..Cardinality(Url)
  <1>1. Cardinality(Url) \in Nat /\ Cardinality(Url) # 0
    BY WebsiteCrawlAssumption, FS_CardinalityType, FS_EmptySet
  <1>2. \A s \in SUBSET Url : IsFiniteSet(s) /\ Cardinality(s) \in 0..Cardinality(Url)
    BY <1>1, WebsiteCrawlAssumption, FS_Subset, FS_CardinalityType
  <1> QED BY <1>1, <1>2

LEMMA Handlers ==
    /\ NoHandler \in Handler /\ NoHandler.pc = "none"
    /\ Ended \in Handler /\ Ended.pc = "ended"
    /\ \A q \in Handler : q.final \in Url
  BY WebsiteCrawlAssumption DEF Handler, NoHandler, Ended

\* The seeds are URLs.
LEMMA SeedsAreURLs == \A s : Seeds(s) \subseteq Url
  BY WebsiteCrawlAssumption DEF Seeds, SitemapURLs

-----------------------------------------------------------------------------
\* A handler learns its final URL: it is a duplicate, or the first one to remember it.
LEMMA LandStep ==
    ASSUME CrawlInvariant, NEW u \in Url, NEW n \in Try, Land(u, n)
    PROVE  CrawlInvariant'
  <1> USE DEF CrawlInvariant
  <1>1. PICK f \in IF landed[u] = {} THEN Url ELSE landed[u] :
           /\ landed' = [landed EXCEPT ![u] = {f}]
           /\ \/ /\ f \in seen /\ skipped' = 1
                 /\ handler' = [handler EXCEPT ![u][n] = Ended]
                 /\ Return(u, n, {})
                 /\ UNCHANGED seen
              \/ /\ f \notin seen /\ seen' = seen \cup {f}
                 /\ handler' = [handler EXCEPT ![u][n] = [pc |-> "rendering", final |-> f]]
                 /\ UNCHANGED <<request, skipped>>
    BY DEF Land, LandAs
  <1>2. /\ handler[u][n].pc = "checking" /\ status # "failed"
        /\ UNCHANGED <<sitemap, tries, observed, accepted, failed, pages, found, status, counted>>
    BY DEF Land, LandAs
  <1>3. /\ f \in Url /\ landed' \in [Url -> SUBSET Url] /\ landed'[u] = {f}
        /\ \A v \in Url : v # u => landed'[v] = landed[v]
        /\ landed[u] = {} \/ landed[u] = {f}
    BY <1>1 DEF TypeOK, LandedAreSeen
  <1>4. /\ request' \in [Url -> {"absent", "pending", "running", "handled"}]
        /\ \A v \in Url : /\ request'[v] # request[v] => v = u /\ f \in seen /\ request'[v] = "handled"
                          /\ request'[v] = "absent" <=> request[v] = "absent"
        /\ status # "crawling" => \A v \in Url : request'[v] = request[v]
    BY <1>1 DEF TypeOK, Return, Awaited
  <1>5. PICK q \in Handler :
           /\ handler' = [handler EXCEPT ![u][n] = q]
           /\ \/ f \in seen /\ skipped' = 1 /\ seen' = seen /\ q.pc = "ended"
              \/ /\ f \notin seen /\ skipped' = skipped /\ seen' = seen \cup {f}
                 /\ q.pc = "rendering" /\ q.final = f /\ UNCHANGED request
    <2> DEFINE r == [pc |-> "rendering", final |-> f]
    <2>1. r \in Handler /\ r.pc = "rendering" /\ r.final = f
      BY <1>3 DEF Handler
    <2> HIDE DEF r
    <2>2. \/ /\ f \in seen /\ skipped' = 1 /\ seen' = seen
             /\ handler' = [handler EXCEPT ![u][n] = Ended]
          \/ /\ f \notin seen /\ skipped' = skipped /\ seen' = seen \cup {f}
             /\ handler' = [handler EXCEPT ![u][n] = r] /\ UNCHANGED request
      BY <1>1 DEF r
    <2> QED BY <2>1, <2>2, Handlers
  <1>6. /\ handler' \in [Url -> [Try -> Handler]]
        /\ handler'[u][n] = q
        /\ \A v \in Url, m \in Try : v # u \/ m # n => handler'[v][m] = handler[v][m]
    BY <1>5 DEF TypeOK
  <1>7. TypeOK'
    BY <1>2, <1>3, <1>4, <1>5, <1>6 DEF TypeOK
  <1>8. PagesAreSeen'
    BY <1>2, <1>3, <1>5, <1>6 DEF PagesAreSeen
  <1>9. LandedAreSeen'
    BY <1>3, <1>5 DEF LandedAreSeen
  \* What has landed is remembered: a second handler of the request is a duplicate.
  <1>10. f \notin seen => landed[u] = {}
    BY <1>3 DEF LandedAreSeen
  <1>11. HandlersHaveLanded'
    <2>1. \A v \in Url, m \in Try : handler'[v][m].pc # "none" => request'[v] # "absent"
      BY <1>2, <1>4, <1>6 DEF HandlersHaveLanded
    <2>2. ASSUME NEW v \in Url, NEW m \in Try, handler'[v][m].pc \in Landed
          PROVE  landed'[v] = {handler'[v][m].final}
      <3>1. CASE v = u /\ m = n
        <4>1. handler'[v][m] = q /\ landed'[v] = {f}
          BY <1>3, <1>6, <3>1
        <4>2. q.final = f
          BY <1>5, <2>2, <4>1 DEF Landed
        <4> QED BY <4>1, <4>2
      <3>2. CASE ~(v = u /\ m = n)
        <4>1. landed[v] = {handler'[v][m].final}
          BY <1>6, <2>2, <3>2 DEF HandlersHaveLanded
        <4> QED BY <1>3, <4>1
      <3> QED BY <3>1, <3>2
    <2>3. q.pc \in Landed => \A m \in Try : handler[u][m].pc \notin Landed
      BY <1>5, <1>10 DEF HandlersHaveLanded, Landed
    <2>4. \A v \in Url, m, k \in Try :
             handler'[v][m].pc \in Landed /\ handler'[v][k].pc \in Landed => m = k
      BY <1>6, <2>3 DEF HandlersHaveLanded
    <2>5. ASSUME NEW v \in Url, NEW m \in Try, handler'[v][m].pc = "pushed"
          PROVE  pages'[handler'[v][m].final] = 1
      <3>1. ~(v = u /\ m = n)
        BY <1>5, <1>6, <2>5
      <3> QED BY <1>2, <1>6, <2>5, <3>1 DEF HandlersHaveLanded
    <2> QED BY <2>1, <2>2, <2>4, <2>5 DEF HandlersHaveLanded
  <1>12. \A v \in Url : Answered(v) => Answered(v)'
    BY <1>2, <1>3 DEF Answered
  <1>13. HandledAreAnswered'
    BY <1>2, <1>3, <1>4, <1>5, <1>6, <1>10, <1>12 DEF HandledAreAnswered, Answered, Landed
  <1>14. FoundAreRequested'
    BY <1>2, <1>4, <1>5, SeedsAreURLs DEF FoundAreRequested, TypeOK
  <1>15. CompleteIsQuiet'
    <2>1. Complete' = Complete /\ (Complete => status = "collected")
      BY <1>2 DEF Complete
    <2>2. Complete => f \in seen
      BY <1>2, <1>10 DEF CompleteIsQuiet, Answered, HandlersHaveLanded
    <2> QED BY <1>2, <1>4, <1>5, <1>6, <1>12, <2>1, <2>2, SeedsAreURLs
            DEF CompleteIsQuiet, Landed, TypeOK
  <1> QED BY <1>7, <1>8, <1>9, <1>11, <1>13, <1>14, <1>15

\* A page is appended to the list.
LEMMA PushStep ==
    ASSUME CrawlInvariant, NEW u \in Url, NEW n \in Try, Push(u, n)
    PROVE  CrawlInvariant'
  <1> USE DEF CrawlInvariant
  <1> DEFINE f == handler[u][n].final
             q == [pc |-> "pushed", final |-> f]
  <1>1. /\ handler[u][n].pc = "rendering"
        /\ pages' = [pages EXCEPT ![f] = @ + 1]
        /\ seen' = seen \cup {f}
        /\ UNCHANGED <<sitemap, request, tries, observed, accepted, failed, skipped, found, landed,
                       status, counted>>
    BY DEF Push
  <1>2. f \in Url /\ q \in Handler /\ q.pc = "pushed" /\ q.final = f
        /\ handler' = [handler EXCEPT ![u][n] = q]
    <2>1. handler[u][n] \in Handler
      BY DEF TypeOK
    <2>2. f \in Url /\ q \in Handler
      BY <2>1 DEF Handler
    <2>3. [handler[u][n] EXCEPT !.pc = "pushed"] = q
      BY <2>1 DEF Handler
    <2> QED BY <2>2, <2>3 DEF Push
  <1> HIDE DEF q
  <1>3. /\ handler' \in [Url -> [Try -> Handler]]
        /\ handler'[u][n] = q
        /\ \A v \in Url, m \in Try : v # u \/ m # n => handler'[v][m] = handler[v][m]
    BY <1>2 DEF TypeOK
  <1> HIDE DEF f
  <1>4. f \in seen /\ pages[f] = 0
    BY <1>1 DEF PagesAreSeen, f
  <1>5. /\ pages'[f] = 1
        /\ \A g \in Url : g # f => pages'[g] = pages[g]
    BY <1>1, <1>2, <1>4 DEF TypeOK
  <1>6. /\ \A v \in Url, m \in Try : handler'[v][m].pc = "rendering" =>
              handler'[v][m] = handler[v][m] /\ handler[v][m].final # f
    BY <1>1, <1>2, <1>3 DEF PagesAreSeen, f
  <1>7. PagesAreSeen'
    <2>1. \A g \in Url : pages'[g] \in {0, 1} /\ (pages'[g] = 1 => g \in seen')
      BY <1>1, <1>5 DEF PagesAreSeen
    <2>2. \A v \in Url, m \in Try : handler'[v][m].pc = "rendering" =>
             handler'[v][m].final \in seen' /\ pages'[handler'[v][m].final] = 0
      BY <1>1, <1>3, <1>5, <1>6, Handlers DEF PagesAreSeen
    <2> QED BY <1>6, <2>1, <2>2 DEF PagesAreSeen
  <1>8. TypeOK'
    <2>1. pages' \in [Url -> 0..2 * Cardinality(Url)]
      <3>1. \A g \in Url : pages'[g] \in 0..2 * Cardinality(Url)
        BY <1>7, UrlsAreCounted DEF PagesAreSeen
      <3>2. pages' = [g \in Url |-> pages'[g]]
        BY <1>1 DEF TypeOK
      <3> QED BY <3>1, <3>2
    <2> QED BY <1>1, <1>2, <1>3, <2>1 DEF TypeOK
  <1>9. LandedAreSeen'
    BY <1>1 DEF LandedAreSeen
  <1>10. \A v \in Url, m \in Try : /\ handler'[v][m].final = handler[v][m].final
                                   /\ handler'[v][m].pc \in Landed <=> handler[v][m].pc \in Landed
                                   /\ handler'[v][m].pc = "none" <=> handler[v][m].pc = "none"
    BY <1>1, <1>2, <1>3 DEF Landed, f
  <1>11. \A g \in Url : pages[g] = 1 => pages'[g] = 1
    BY <1>5
  <1>12. HandlersHaveLanded'
    <2>1. \A v \in Url, m \in Try : handler'[v][m].pc = "pushed" =>
             pages'[handler'[v][m].final] = 1
      BY <1>2, <1>3, <1>5, <1>11, Handlers DEF HandlersHaveLanded
    <2> QED BY <1>1, <1>10, <2>1 DEF HandlersHaveLanded
  <1>13. \A v \in Url : Answered(v) => Answered(v)'
    BY <1>1, <1>5, <1>7 DEF Answered, PagesAreSeen, TypeOK
  <1>14. HandledAreAnswered'
    BY <1>1, <1>10, <1>13 DEF HandledAreAnswered
  <1>15. FoundAreRequested'
    BY <1>1 DEF FoundAreRequested
  <1>16. CompleteIsQuiet'
    BY <1>1, <1>10, <1>13 DEF CompleteIsQuiet, Complete
  <1> QED BY <1>7, <1>8, <1>9, <1>12, <1>14, <1>15, <1>16

\* A handler adds what its page links to, and returns.
LEMMA LinkStep ==
    ASSUME CrawlInvariant, NEW u \in Url, NEW n \in Try, Link(u, n)
    PROVE  CrawlInvariant'
  <1> USE DEF CrawlInvariant
  <1>1. PICK links \in SUBSET (Url \cup {Stray}), taken \in SUBSET Url :
           LET urls == links \cap Url
               new == urls \ observed IN
           /\ observed' = observed \cup new
           /\ accepted' = accepted \cup taken
           /\ found' = found \cup urls
           /\ skipped' = IF ~ links \subseteq Url \/ new # taken THEN 1 ELSE skipped
           /\ Return(u, n, IF status = "crawling" THEN taken \cup (urls \ new) ELSE {})
    BY DEF Link, LinkAs
  <1>2. /\ handler[u][n].pc = "pushed" /\ handler' = [handler EXCEPT ![u][n] = Ended]
        /\ UNCHANGED <<sitemap, tries, seen, failed, pages, landed, status, counted>>
    BY DEF Link, LinkAs
  <1>3. /\ handler' \in [Url -> [Try -> Handler]]
        /\ handler'[u][n] = Ended
        /\ \A v \in Url, m \in Try : v # u \/ m # n => handler'[v][m] = handler[v][m]
    BY <1>2, Handlers DEF TypeOK
  <1>4. /\ request' \in [Url -> {"absent", "pending", "running", "handled"}]
        /\ \A v \in Url : /\ request'[v] = "handled" /\ request[v] # "handled" => v = u
                          /\ request[v] # "absent" => request'[v] # "absent"
        /\ status # "crawling" => \A v \in Url : request'[v] = request[v]
        /\ status = "crawling" /\ skipped' = 0 => \A v \in links \cap Url : request'[v] # "absent"
    BY <1>1 DEF TypeOK, Return, Awaited
  <1>5. skipped' \in {skipped, 1} /\ found' = found \cup (links \cap Url)
    BY <1>1
  <1>6. TypeOK'
    BY <1>1, <1>2, <1>3, <1>4, <1>5 DEF TypeOK
  <1>7. \A v \in Url, m \in Try : /\ handler'[v][m] \in {handler[v][m], Ended}
                                  /\ handler'[v][m].pc # "none" => request'[v] # "absent"
    BY <1>2, <1>3, <1>4 DEF HandlersHaveLanded
  <1>8. PagesAreSeen' /\ LandedAreSeen'
    BY <1>2, <1>7, Handlers DEF PagesAreSeen, LandedAreSeen
  <1>9. HandlersHaveLanded'
    BY <1>2, <1>7, Handlers DEF HandlersHaveLanded, Landed
  \* The page is in the list, and no other handler of the request landed.
  <1>10. Answered(u) /\ \A m \in Try : handler'[u][m].pc \notin Landed
    BY <1>2, <1>3, Handlers DEF HandlersHaveLanded, Landed, Answered
  <1>11. HandledAreAnswered'
    BY <1>2, <1>4, <1>5, <1>7, <1>10, Handlers DEF HandledAreAnswered, Answered, Landed
  <1>12. FoundAreRequested'
    BY <1>2, <1>4, <1>5, SeedsAreURLs DEF FoundAreRequested, TypeOK
  <1>13. CompleteIsQuiet'
    BY <1>2 DEF CompleteIsQuiet, Complete, Landed
  <1> QED BY <1>6, <1>8, <1>9, <1>11, <1>12, <1>13

\* An attempt fails, and its handler ends or goes on.
LEMMA FailingStep ==
    ASSUME CrawlInvariant, NEW u \in Url, Throw(u) \/ Timeout(u)
    PROVE  CrawlInvariant'
  <1> USE DEF CrawlInvariant
  <1>1. /\ status = "crawling"
        /\ tries' = tries \/ tries' = [tries EXCEPT ![u] = 1]
        /\ \/ request' = [request EXCEPT ![u] = "pending"] /\ failed' = failed
           \/ request' = [request EXCEPT ![u] = "handled"] /\ failed' = failed \cup {u}
        /\ handler' = handler \/ handler' = [handler EXCEPT ![u][Current(u)] = Ended]
        /\ UNCHANGED <<sitemap, seen, observed, accepted, skipped, pages, found, landed, status,
                       counted>>
    BY DEF Throw, Timeout, TimeoutAs, Failing, Awaited
  <1>2. request[u] # "absent"
    BY DEF Throw, Timeout, TimeoutAs, Awaited
  <1>3. /\ \A v \in Url : /\ request'[v] = "absent" <=> request[v] = "absent"
                          /\ request'[v] = "handled" => request[v] = "handled" \/ v \in failed'
        /\ request' \in [Url -> {"absent", "pending", "running", "handled"}]
        /\ failed \subseteq failed' /\ failed' \subseteq Url /\ tries' \in [Url -> 0..1]
    <2>1. tries' \in [Url -> 0..1]
      <3>1. tries \in [Url -> 0..1] /\ 1 \in 0..1
        BY DEF TypeOK
      <3>2. CASE tries' = [tries EXCEPT ![u] = 1]
        BY <3>1, <3>2
      <3> QED BY <1>1, <3>1, <3>2
    <2>2. CASE request' = [request EXCEPT ![u] = "pending"] /\ failed' = failed
      BY <1>2, <2>1, <2>2 DEF TypeOK
    <2>3. CASE request' = [request EXCEPT ![u] = "handled"] /\ failed' = failed \cup {u}
      BY <1>2, <2>1, <2>3 DEF TypeOK
    <2> QED BY <1>1, <2>2, <2>3
  <1>4. /\ handler' \in [Url -> [Try -> Handler]]
        /\ \A v \in Url, m \in Try : handler'[v][m] \in {handler[v][m], Ended}
        /\ \A v \in Url, m \in Try : handler'[v][m].pc # "none" => request[v] # "absent"
    <2>1. CASE handler' = handler
      BY <2>1 DEF TypeOK, HandlersHaveLanded
    <2>2. CASE handler' = [handler EXCEPT ![u][Current(u)] = Ended]
      BY <1>2, <2>2, Handlers DEF TypeOK, HandlersHaveLanded
    <2> QED BY <1>1, <2>1, <2>2
  <1>5. TypeOK'
    <2>1. UNCHANGED <<sitemap, seen, observed, accepted, skipped, pages, found, landed, status,
                      counted>>
      BY <1>1
    <2> QED BY <1>3, <1>4, <2>1 DEF TypeOK
  <1>6. PagesAreSeen' /\ LandedAreSeen'
    <2>1. \A v \in Url, m \in Try : handler'[v][m].pc = "rendering" => handler'[v][m] = handler[v][m]
      BY <1>4, Handlers
    <2> QED BY <1>1, <2>1 DEF PagesAreSeen, LandedAreSeen
  <1>7. HandlersHaveLanded'
    <2>1. \A v \in Url, m \in Try : /\ handler'[v][m].pc # "none" => request'[v] # "absent"
                                    /\ handler'[v][m].pc \in Landed => handler'[v][m] = handler[v][m]
                                    /\ handler'[v][m].pc = "pushed" => handler'[v][m] = handler[v][m]
      BY <1>3, <1>4, Handlers DEF Landed
    <2> QED BY <1>1, <2>1 DEF HandlersHaveLanded
  <1>8. HandledAreAnswered'
    BY <1>1, <1>3, <1>4, Handlers DEF HandledAreAnswered, Answered, Landed
  <1>9. FoundAreRequested' /\ CompleteIsQuiet'
    BY <1>1, <1>3, SeedsAreURLs DEF FoundAreRequested, CompleteIsQuiet, Complete, TypeOK
  <1> QED BY <1>5, <1>6, <1>7, <1>8, <1>9

\* Crawlee starts a request.
LEMMA StartStep ==
    ASSUME CrawlInvariant, NEW u \in Url, Start(u)
    PROVE  CrawlInvariant'
  <1> USE DEF CrawlInvariant
  <1> DEFINE n == Current(u)
             q == [pc |-> "checking", final |-> handler[u][n].final]
  <1>1. /\ status = "crawling" /\ request[u] = "pending"
        /\ request' = [request EXCEPT ![u] = "running"]
        /\ UNCHANGED <<sitemap, tries, seen, observed, accepted, failed, skipped, pages, found,
                       landed, status, counted>>
    BY DEF Start
  <1>2. n \in Try
    BY DEF Current, Try, TypeOK
  <1>3. q \in Handler /\ q.pc = "checking" /\ handler' = [handler EXCEPT ![u][n] = q]
    <2>1. handler[u][n] \in Handler
      BY <1>2 DEF TypeOK
    <2>2. q \in Handler
      BY <2>1 DEF Handler
    <2>3. [handler[u][n] EXCEPT !.pc = "checking"] = q
      BY <2>1 DEF Handler
    <2> QED BY <2>2, <2>3 DEF Start
  <1> HIDE DEF n, q
  <1>4. /\ handler' \in [Url -> [Try -> Handler]]
        /\ handler'[u][n] = q
        /\ \A v \in Url, m \in Try : v # u \/ m # n => handler'[v][m] = handler[v][m]
    BY <1>2, <1>3 DEF TypeOK
  <1>5. /\ request' \in [Url -> {"absent", "pending", "running", "handled"}]
        /\ request'[u] = "running"
        /\ \A v \in Url : v # u => request'[v] = request[v]
    BY <1>1 DEF TypeOK
  <1>6. TypeOK'
    BY <1>1, <1>4, <1>5 DEF TypeOK
  <1>7. \A v \in Url, m \in Try : \/ handler'[v][m] = handler[v][m]
                                  \/ handler'[v][m].pc = "checking" /\ v = u
    BY <1>3, <1>4
  <1>8. PagesAreSeen' /\ LandedAreSeen'
    BY <1>1, <1>7 DEF PagesAreSeen, LandedAreSeen
  <1>9. HandlersHaveLanded'
    BY <1>1, <1>5, <1>7 DEF HandlersHaveLanded, Landed
  <1>10. HandledAreAnswered'
    BY <1>1, <1>5, <1>7 DEF HandledAreAnswered, Answered, Landed
  <1>11. FoundAreRequested' /\ CompleteIsQuiet'
    BY <1>1, <1>5, SeedsAreURLs DEF FoundAreRequested, CompleteIsQuiet, Complete, TypeOK
  <1> QED BY <1>6, <1>8, <1>9, <1>10, <1>11

\* The run ends: what is complete has nothing pending, skipped or failed.
LEMMA FinishStep ==
    ASSUME CrawlInvariant, Finish
    PROVE  CrawlInvariant'
  <1> USE DEF CrawlInvariant
  <1>1. /\ status = "crawling" /\ Running = {}
        /\ skipped' = IF Pending = {} THEN skipped ELSE 1
        /\ counted' = Cardinality(failed) + skipped'
        /\ status' \in {"collected", "failed"}
        /\ UNCHANGED <<sitemap, request, tries, handler, seen, observed, accepted, failed, pages,
                       found, landed>>
    BY DEF Finish
  <1>2. /\ IsFiniteSet(failed) /\ Cardinality(failed) \in 0..Cardinality(Url)
        /\ skipped \in {0, 1} /\ skipped' \in {0, 1}
    BY <1>1, UrlsAreCounted DEF TypeOK
  <1>3. counted' \in 0..Cardinality(Url) + 1
    BY <1>1, <1>2, UrlsAreCounted
  <1>4. TypeOK'
    BY <1>1, <1>2, <1>3 DEF TypeOK
  <1>5. PagesAreSeen' /\ LandedAreSeen' /\ HandlersHaveLanded'
    BY <1>1 DEF PagesAreSeen, LandedAreSeen, HandlersHaveLanded
  <1>6. HandledAreAnswered'
    BY <1>1 DEF HandledAreAnswered, Answered
  <1>7. ASSUME Complete'
        PROVE  /\ Pending = {} /\ skipped = 0 /\ failed = {}
               /\ \A u \in Url : request[u] \in {"absent", "handled"}
    <2>1. counted' = 0
      BY <1>7 DEF Complete
    <2>2. Cardinality(failed) = 0 /\ skipped' = 0
      BY <1>1, <1>2, <2>1, UrlsAreCounted
    <2>3. Pending = {} /\ skipped = 0 /\ failed = {}
      BY <1>1, <1>2, <2>2, FS_EmptySet
    <2> QED BY <1>1, <2>3 DEF Pending, Running, TypeOK
  <1>8. CompleteIsQuiet'
    <2> SUFFICES ASSUME Complete'
                 PROVE  /\ \A u \in Seeds(sitemap) \cup found : request[u] # "absent"
                        /\ \A u \in Url : /\ request[u] # "absent" => Answered(u)
                                          /\ \A n \in Try : handler[u][n].pc \notin Landed
      BY <1>1 DEF CompleteIsQuiet, Answered
    <2>1. \A u \in Seeds(sitemap) \cup found : request[u] # "absent"
      BY <1>1, <1>7 DEF FoundAreRequested
    <2>2. \A u \in Url : request[u] = "handled" =>
             Answered(u) /\ \A n \in Try : handler[u][n].pc \notin Landed
      BY <1>7 DEF HandledAreAnswered
    <2>3. \A u \in Url, n \in Try : request[u] = "absent" => handler[u][n].pc \notin Landed
      BY DEF HandlersHaveLanded, Landed
    <2> QED BY <1>7, <2>1, <2>2, <2>3
  <1>9. FoundAreRequested'
    BY <1>1 DEF FoundAreRequested
  <1> QED BY <1>4, <1>5, <1>6, <1>8, <1>9

\* Every step preserves the invariant.
LEMMA CrawlStep ==
    ASSUME CrawlInvariant, [Next]_vars
    PROVE  CrawlInvariant'
  <1>1. CASE Abort
    <2>1. status' = "failed"
          /\ UNCHANGED <<sitemap, request, tries, handler, seen, observed, accepted, failed, skipped,
                         pages, found, landed, counted>>
      BY <1>1 DEF Abort
    <2> QED BY <2>1 DEF CrawlInvariant, TypeOK, PagesAreSeen, LandedAreSeen, HandlersHaveLanded,
                        HandledAreAnswered, Answered, FoundAreRequested, CompleteIsQuiet, Complete
  <1>2. CASE UNCHANGED vars
    BY <1>2 DEF vars, CrawlInvariant, TypeOK, PagesAreSeen, LandedAreSeen, HandlersHaveLanded,
                HandledAreAnswered, Answered, FoundAreRequested, CompleteIsQuiet, Complete
  <1> QED BY <1>1, <1>2, StartStep, FailingStep, LandStep, PushStep, LinkStep, FinishStep DEF Next

LEMMA CrawlStart == Init => CrawlInvariant
  <1> SUFFICES ASSUME NEW s \in Seq(Url \cup {Stray}), InitWith(s)
               PROVE  CrawlInvariant
    BY DEF Init
  <1>1. Seeds(s) \subseteq Url /\ SitemapSkipped(s) \in {0, 1}
    BY SeedsAreURLs DEF SitemapSkipped
  <1>2. TypeOK
    BY <1>1, Handlers, UrlsAreCounted DEF InitWith, TypeOK
  <1> QED BY <1>1, <1>2, Handlers
          DEF InitWith, CrawlInvariant, PagesAreSeen, HandlersHaveLanded, LandedAreSeen,
              HandledAreAnswered, FoundAreRequested, CompleteIsQuiet, Complete, Landed

\* What late handlers of ingestWebsite may still do to pages and links is bounded in every
\* reachable state by the named facts above.
THEOREM CrawlInvariance == Spec => []CrawlInvariant
  BY CrawlStart, CrawlStep, PTL DEF Spec

\* The queue, the handlers and the counts of ingestWebsite keep their types; no request
\* has more than one retry.
THEOREM WebsiteTypeInvariance == Spec => []TypeOK
  BY CrawlInvariance, PTL DEF CrawlInvariant

\* No page is in the list twice (seenFinalURLs), whatever redirects lead to it and
\* however handlers that timed out run beside their own retries.
THEOREM PagesAreSingle == Spec => []AcquiredOnce
  <1>1. CrawlInvariant => AcquiredOnce
    BY DEF CrawlInvariant, PagesAreSeen, AcquiredOnce
  <1> QED BY <1>1, CrawlInvariance, PTL

\* A result that counts nothing as failed or skipped (completeJob) has every seed and
\* everything that its pages link to.
THEOREM CompleteResultsAreClosed == Spec => []CompleteIsClosed
  <1>1. CrawlInvariant => CompleteIsClosed
    BY SeedsAreURLs DEF CrawlInvariant, CompleteIsQuiet, Answered, CompleteIsClosed, TypeOK
  <1> QED BY <1>1, CrawlInvariance, PTL

\* Behind the back of the job that stores them, only the pages of a partial crawl grow.
THEOREM CompleteResultsAreFinal == Spec => LatePagesArePartial
  <1>1. CrawlInvariant /\ [Next]_vars => [status = "collected" /\ pages' # pages => counted > 0]_vars
    <2> SUFFICES ASSUME CrawlInvariant, [Next]_vars, status = "collected", pages' # pages
                 PROVE  counted > 0
      OBVIOUS
    <2>1. PICK u \in Url, n \in Try : Push(u, n)
      BY DEF Next, Start, Throw, Timeout, TimeoutAs, Failing, Land, LandAs, Link, LinkAs, Finish,
             Abort, vars
    <2>2. counted # 0
      BY <2>1 DEF Push, CrawlInvariant, CompleteIsQuiet, Complete, Landed
    <2> QED BY <2>2, UrlsAreCounted DEF CrawlInvariant, TypeOK
  <1> QED BY <1>1, CrawlInvariance, PTL DEF Spec, LatePagesArePartial
=============================================================================
