---------------------------- MODULE WebsiteCrawl ----------------------------
(***************************************************************************)
(* The collection of one website (ingestWebsite in crawler/index.ts): the  *)
(* seeds from the sitemap, concurrent request handlers that follow         *)
(* redirects and links up to the page limit, one retry of each request,    *)
(* and the counts that decide whether the coverage is complete.  The site  *)
(* redirects a URL to the same place each time it is asked.                *)
(*                                                                         *)
(* Of the count of skipped pages only whether there are any is kept: it is *)
(* what makes the coverage partial.                                        *)
(*                                                                         *)
(* The queue and its scheduling are Crawlee's (external).  Crawlee stops   *)
(* waiting for a handler after 30 s and retries or fails the request, but  *)
(* JavaScript cannot stop the handler: it goes on beside its own retry and *)
(* even beside the rest of the job.  A handler is divided where it awaits. *)
(***************************************************************************)
EXTENDS Naturals, Sequences, FiniteSets

CONSTANTS Url,      \* canonical URLs within the configured path
          Root,     \* the source's location
          Stray,    \* an entry or a link that is malformed, unsafe or out of scope
          MaxPages

ASSUME WebsiteCrawlAssumption ==
    /\ IsFiniteSet(Url) /\ Root \in Url /\ Stray \notin Url
    /\ MaxPages \in Nat \ {0}

VARIABLES
    sitemap,  \* the locations that the sitemap lists
    request,  \* the requests of the queue, one for each URL
    tries,    \* the failed attempts of a request: maxRequestRetries is 1
    handler,  \* the request handlers by request and attempt
    seen, observed, accepted, failed,
    skipped,  \* 0, or 1 when anything was skipped
    pages,    \* how often a final URL is in the list of pages
    found,    \* history: the URLs that an acquired page links to
    landed,   \* history: where the requests of a URL ended up
    status,   \* of the job's collection
    counted   \* the failed and skipped counts of the result, once it is made

vars == <<sitemap, request, tries, handler, seen, observed, accepted, failed, skipped,
          pages, found, landed, status, counted>>

Try == {1, 2}
Handler == [pc : {"none", "checking", "rendering", "pushed", "ended"}, final : Url]
NoHandler == [pc |-> "none", final |-> Root]
Ended == [pc |-> "ended", final |-> Root]

TypeOK ==
    /\ sitemap \in Seq(Url \cup {Stray})
    /\ request \in [Url -> {"absent", "pending", "running", "handled"}]
    /\ tries \in [Url -> 0..1]
    /\ handler \in [Url -> [Try -> Handler]]
    /\ seen \subseteq Url /\ observed \subseteq Url /\ accepted \subseteq Url
    /\ failed \subseteq Url
    /\ skipped \in 0..1
    /\ pages \in [Url -> 0..2 * Cardinality(Url)]
    /\ found \subseteq Url
    /\ landed \in [Url -> SUBSET Url]
    /\ status \in {"crawling", "collected", "failed"}
    /\ counted \in 0..Cardinality(Url) + 1

-----------------------------------------------------------------------------
(* Seeds. *)

\* Where the sitemap's entries in scope are, among the first MaxPages.
SitemapURLs(s) == {i \in DOMAIN s : i <= MaxPages /\ s[i] \in Url}

\* sitemapSeeds does not pass on entries over the limit and stray ones.
SitemapSkipped(s) == IF SitemapURLs(s) = DOMAIN s THEN 0 ELSE 1

\* [...new Set([root, ...sitemap.urls])].slice(0, maxPages)
Seeds(s) ==
    LET upTo(i) == {Root} \cup {s[k] : k \in {j \in SitemapURLs(s) : j <= i}}
    IN  {Root} \cup {s[i] : i \in {j \in SitemapURLs(s) : Cardinality(upTo(j)) <= MaxPages}}

InitWith(s) ==
    /\ sitemap = s
    /\ request = [u \in Url |-> IF u \in Seeds(s) THEN "pending" ELSE "absent"]
    /\ tries = [u \in Url |-> 0]
    /\ handler = [u \in Url |-> [n \in Try |-> NoHandler]]
    /\ seen = {} /\ failed = {}
    /\ observed = Seeds(s) /\ accepted = Seeds(s)
    /\ skipped = SitemapSkipped(s)
    /\ pages = [u \in Url |-> 0]
    /\ found = {}
    /\ landed = [u \in Url |-> {}]
    /\ status = "crawling" /\ counted = 0

\* With whatever the sitemap lists.
Init == \E s \in Seq(Url \cup {Stray}) : InitWith(s)

-----------------------------------------------------------------------------
(* Requests. *)

Handled == {u \in Url : request[u] = "handled"}

\* The handler that Crawlee waits for.
Current(u) == tries[u] + 1
Awaited(u, n) == status = "crawling" /\ request[u] = "running" /\ n = Current(u)

Start(u) ==
    /\ status = "crawling" /\ request[u] = "pending"
    /\ Cardinality(Handled) < MaxPages
    /\ request' = [request EXCEPT ![u] = "running"]
    /\ handler' = [handler EXCEPT ![u][Current(u)].pc = "checking"]
    /\ UNCHANGED <<sitemap, tries, seen, observed, accepted, failed, skipped, pages, found,
                   landed, status, counted>>

\* A handler returns, to nobody when Crawlee has given it up.
Return(u, n, added) ==
    request' = [v \in Url |-> IF v = u /\ Awaited(u, n) THEN "handled"
                              ELSE IF v \in added /\ request[v] = "absent" THEN "pending"
                              ELSE request[v]]

LandAs(u, n, duplicates, remembered) ==
    /\ handler[u][n].pc = "checking" /\ status # "failed"
    /\ \E f \in IF landed[u] = {} THEN Url ELSE landed[u] :
          /\ landed' = [landed EXCEPT ![u] = {f}]
          /\ \/ /\ f \in seen
                /\ skipped' = IF duplicates THEN 1 ELSE skipped
                /\ handler' = [handler EXCEPT ![u][n] = Ended]
                /\ Return(u, n, {})
                /\ UNCHANGED seen
             \/ /\ f \notin seen
                /\ seen' = seen \cup (IF remembered THEN {f} ELSE {})
                /\ handler' = [handler EXCEPT ![u][n] = [pc |-> "rendering", final |-> f]]
                /\ UNCHANGED <<request, skipped>>
    /\ UNCHANGED <<sitemap, tries, observed, accepted, failed, pages, found, status, counted>>

\* Mutated: the URL is remembered only with its page, after the renderer's await.
LandForgetful(u, n) == LandAs(u, n, TRUE, FALSE)

\* Mutated: a duplicate is not counted.
LandUncounted(u, n) == LandAs(u, n, FALSE, TRUE)

\* The response passed the checks and its final URL is known.
Land(u, n) == LandAs(u, n, TRUE, TRUE)

\* The page is complete, rendered where it had to be.
Push(u, n) ==
    /\ handler[u][n].pc = "rendering" /\ status # "failed"
    /\ pages' = [pages EXCEPT ![handler[u][n].final] = @ + 1]
    /\ seen' = seen \cup {handler[u][n].final}
    /\ handler' = [handler EXCEPT ![u][n].pc = "pushed"]
    /\ UNCHANGED <<sitemap, request, tries, observed, accepted, failed, skipped, found, landed,
                   status, counted>>

\* enqueueLinks: new URLs are accepted in some order while there is room; one
\* that was refused is returned to the queue when it is met again.
LinkAs(u, n, scope, refused) ==
    /\ handler[u][n].pc = "pushed" /\ status # "failed"
    /\ \E links \in SUBSET (Url \cup {Stray}) :
       LET urls == links \cap scope
           new == urls \ observed
           room == MaxPages - Cardinality(accepted) IN
       \E taken \in SUBSET new :
          /\ Cardinality(taken) = IF Cardinality(new) < room THEN Cardinality(new) ELSE room
          /\ observed' = observed \cup new
          /\ accepted' = accepted \cup taken
          /\ found' = found \cup urls
          /\ skipped' = IF ~ links \subseteq scope \/ (refused /\ new # taken) THEN 1 ELSE skipped
          /\ Return(u, n, IF status = "crawling" THEN taken \cup (urls \ new) ELSE {})
    /\ handler' = [handler EXCEPT ![u][n] = Ended]
    /\ UNCHANGED <<sitemap, tries, seen, failed, pages, landed, status, counted>>

\* Mutated: a link over the limit is dropped and not counted.
LinkUncounted(u, n) == LinkAs(u, n, Url, FALSE)

\* Mutated: a link is followed out of the configured path.
LinkAnywhere(u, n) == LinkAs(u, n, Url \cup {Stray}, TRUE)

Link(u, n) == LinkAs(u, n, Url, TRUE)

\* The attempt is retried, or the request has failed for good.
Failing(u, retried) ==
    /\ IF retried
       THEN /\ tries' = [tries EXCEPT ![u] = 1]
            /\ request' = [request EXCEPT ![u] = "pending"]
            /\ UNCHANGED failed
       ELSE /\ failed' = failed \cup {u}
            /\ request' = [request EXCEPT ![u] = "handled"]
            /\ UNCHANGED tries
    /\ UNCHANGED <<sitemap, seen, observed, accepted, skipped, pages, found, landed, status,
                   counted>>

\* Navigation, a check of the response or enqueueLinks throws.
Throw(u) ==
    /\ Awaited(u, Current(u))
    /\ handler[u][Current(u)].pc \in {"checking", "pushed"}
    /\ handler' = [handler EXCEPT ![u][Current(u)] = Ended]
    /\ Failing(u, tries[u] = 0)

TimeoutAs(u, retried) ==
    /\ Awaited(u, Current(u))
    /\ handler[u][Current(u)].pc \in {"checking", "rendering", "pushed"}
    /\ Failing(u, retried)
    /\ UNCHANGED handler

\* Mutated: a request that timed out is retried for as long as it does.
TimeoutUnlimited(u) == TimeoutAs(u, TRUE)

\* requestHandlerTimeoutSecs: the handler goes on, but nobody waits for it.
Timeout(u) == TimeoutAs(u, tries[u] = 0)

-----------------------------------------------------------------------------
(* The end of the run. *)

Running == {u \in Url : request[u] = "running"}
Pending == {u \in Url : request[u] = "pending"}

\* crawler.run returns, and what is still pending is skipped.
Finish ==
    /\ status = "crawling" /\ Running = {}
    /\ Pending = {} \/ Cardinality(Handled) >= MaxPages
    /\ skipped' = IF Pending = {} THEN skipped ELSE 1
    /\ counted' = Cardinality(failed) + skipped'
    /\ status' = IF \E u \in Url : pages[u] > 0 THEN "collected" ELSE "failed"
    /\ UNCHANGED <<sitemap, request, tries, handler, seen, observed, accepted, failed, pages,
                   found, landed>>

\* crawler.run throws.
Abort ==
    /\ status = "crawling"
    /\ status' = "failed"
    /\ UNCHANGED <<sitemap, request, tries, handler, seen, observed, accepted, failed, skipped,
                   pages, found, landed, counted>>

-----------------------------------------------------------------------------
Next ==
    \/ \E u \in Url : \/ Start(u) \/ Throw(u) \/ Timeout(u)
                      \/ \E n \in Try : Land(u, n) \/ Push(u, n) \/ Link(u, n)
    \/ Finish \/ Abort

Spec == Init /\ [][Next]_vars

\* Nothing is assumed of the handlers: a renderer may hang.
Fairness ==
    /\ \A u \in Url : WF_vars(Start(u)) /\ WF_vars(Timeout(u))
    /\ WF_vars(Finish)

-----------------------------------------------------------------------------
(* Properties. *)

\* The result says nothing failed and nothing was skipped (completeJob).
Complete == status = "collected" /\ counted = 0

\* No page is in the list twice, whatever redirects lead to it and although a
\* handler that timed out runs beside its own retry (seenFinalURLs).
AcquiredOnce == \A u \in Url : pages[u] <= 1

\* A complete result has every seed and everything its pages link to.
CompleteIsClosed ==
    Complete => \A u \in Seeds(sitemap) \cup found : \E f \in landed[u] : pages[f] > 0

\* The list of pages, which the job goes on to store, grows behind its back only
\* when the crawl says it is partial (and so cannot be published).
LatePagesArePartial ==
    [][status = "collected" /\ pages' # pages => counted > 0]_vars

\* The crawl ends, although handlers hang.
CrawlEnds == <>(status # "crawling")

\* What the site lists in its sitemap and is in scope is in a complete result,
\* as skipped files are retained (docs/FINAL_PLAN.md:108).
SitemapIsCovered ==
    Complete => \A i \in DOMAIN sitemap :
        sitemap[i] \in Url => \E f \in landed[sitemap[i]] : pages[f] > 0
=============================================================================
