# Verification of dokosoko-service

TLA+ models of the parts of dokosoko-service where several processes, requests or
transactions work on the same rows, the TLC runs that check them on small instances and
the TLAPS proofs that carry the results to every instance. Paths in this file are relative to
the repository's root.

## 1. The system

dokosoko-service is a control plane and an MCP endpoint for API integrations. One Go process
(`cmd/dokosoko`) serves the administration API, the OAuth broker and the MCP endpoint and runs
its background workers under a supervisor; any number of its replicas may share one PostgreSQL
database. A Node process (`crawler/index.ts`) claims crawl jobs from the same database. A
static console (`app/`) talks to the administration API. Nothing is shared between processes
but the database, so almost everything that is hard in this code happens between two SQL
statements.

### Components

| component | code | state | operations |
|---|---|---|---|
| report delivery outbox | `internal/reporting`, `internal/store/postgres_execution.go` | `report_submissions` | submit (idempotent), claim a batch under a lease, deliver, complete, retry, fail |
| usage outbox | `internal/tools/runtime_authorization_hooks.go` | `authorization_usage_events` | enqueue after a call, claim, deliver, complete, retry |
| backoff | both of the above | none | attempts to delay |
| OAuth broker | `internal/identity/broker.go`, `internal/store/postgres_identity.go` | `oauth_states`, `oauth_authorization_codes`, `oauth_access_tokens`, delegated tokens in `secrets` | begin, callback, exchange, authenticate, provider test |
| identity settings | `internal/platform/service_identity.go`, `internal/store/postgres_identity.go` | `identity_providers`, `identity_provider_tests`, client secrets in `secrets` | configure, test, activate, disable, disconnect, account state |
| retention janitor | `internal/platform/identity_oauth_retention.go` | none of its own | sweep stale rows, orphaned tokens and client secrets |
| website collection | `crawler/index.ts` (`ingestWebsite`) | the request queue, the sets and counts of one run | seeds, handlers, links, retries, coverage |
| crawler | `crawler/index.ts`, `crawler/candidate-persistence.ts` | `crawl_jobs`, `crawl_job_documents`, `knowledge_documents`, `developer_asset_ingestion_runs`, the state of `sources` | claim, heartbeat, fetch, store a page, persist typed candidates, complete, fail |
| source publication | `internal/platform/service_source_publication.go`, `internal/store/postgres_knowledge.go` | `source_publications`, `sources`, documents and runs as above | review, publish, queue, change visibility |
| uploaded sources | `internal/httpapi/server_upload.go`, `internal/store/postgres_knowledge.go`, `app/lib/source-creation-request.ts`, `app/lib/source-input-replacement.ts` | `source_creation_requests`, `source_input_replacements`, the upload directory, drafts in local storage | create once, replace once, recover, remove what nobody refers to |
| supervisor | `internal/lifecycle/supervisor.go` | readiness of workers | start, restart after error or panic, stop |
| knowledge processing | `internal/platform/knowledge_processing.go`, `internal/store/knowledge_processing_stage.go` | `developer_asset_ingestion_stages` | claim a batch, call the AI provider, finish, accept |
| developer assets | `internal/platform/developer_asset_*.go` | SDKs, contracts, documentation library, bindings, index | create, import, review, publish, retire |
| integrations, recipes | `internal/platform/integration_*.go`, `recipe_*.go` | integrations, their publications and recipes | edit, preflight, publish, approve |
| MCP endpoint, tool runtime | `internal/httpapi/server_mcp_*.go`, `internal/tools` | confirmations, tool calls | list, preview, confirm, call |
| AI runtime | `internal/platform/ai_*.go`, `internal/store/postgres_ai.go`, `internal/ai` | provider settings, `ai_budget_days`, `ai_budget_reservations` | configure, reserve, call, fail over, settle |
| authentication | `internal/auth`, `internal/store/postgres_auth.go` | administrators, sessions, second factors | log in, verify, revoke |
| rate limiter | `internal/ratelimit` | a map under a mutex | allow |
| native plugins, MCP bridge | `internal/nativeplugins`, `internal/mcpbridge` | catalogue snapshots, plugin state | load, call |
| vault, configuration, network policy | `internal/secrets`, `internal/config`, `internal/netpolicy` | none | pure functions |
| console, deployment, examples | `app/`, `deploy/`, `examples/`, `extensions/` | none of the system's | |

### How they interact

* A tool call of the MCP endpoint that succeeded enqueues a usage event; its failure to do so
  does not fail the call. The support tools of the MCP endpoint call `reporting.Service.submit`.
* The delivery loops, the janitor and the requests of administrators all run the same SQL
  statements against rows that other processes have in hand. Claims are taken with a lease and
  `FOR UPDATE SKIP LOCKED`; ends of claims are conditional on `lease_owner`.
* The crawler writes what reviewers read. Both change the row of the source; the crawler's
  transactions check the lease of their job, the reviewers' the revision of the source.
* Recipes, analyses, the tool builder and knowledge processing all call AI providers through
  `generateAIStructured`, which reserves and settles a daily budget that all replicas share.
* The console sends its request keys again when an answer was lost, from any tab of a reviewer;
  the server remembers the keys with the rows that they made.
* The broker holds a customer's token (a row of `secrets`) that no other row refers to while a
  request runs; the janitor deletes rows of `secrets` no other row refers to.

### What is hard, and what makes each component correct

* *Outboxes.* A lease (30 s) covers a batch of 25 deliveries of up to 10 s each, so a slow batch
  is claimed a second time while the first worker still sends it. Correct means: retries stay
  within their budget, outcomes are recorded for cause and by the holder only, repeated calls
  make one row, and every row is settled although workers crash.
* *Broker.* Between consuming a code and creating a token the delegated secret has no row; the
  sweep must not take it then and must take it when the request died. A provider that is
  disabled, changed or disconnected must not leave usable sign-ins behind, although revisions
  start at 1 again with the next provider.
* *Crawler and publication.* Attempts of one job follow one another, and the first may still be
  at work. What a reviewer sees must be the work of one attempt, agree with the typed run, and
  be the latest crawl when it is published; the source's verdict must be that of its last
  review, and indicators found later must withdraw what was published.
* *Collection of a website.* Crawlee gives up a request handler after 30 s, but JavaScript cannot
  stop it: it goes on beside its own retry and even after the run. Redirects lead different URLs to one
  page, and a page limit meets retries, duplicates and the sitemap. Correct means that what is said to
  be complete is, because only complete crawls may be published.
* *Provider settings.* A test, a configuration and an activation each take several statements, and
  client secrets are stored before anything refers to them. What is active must have been tested as it is.
* *Uploaded sources.* Three things must agree without a transaction across them: a row, a file and a
  draft in a browser. Files of uncertain commits must stay, retries must not create twice, and who was
  refused must be able to go on.
* *Knowledge batches and AI calls.* Claims lapse while the call they were made for goes on; results
  must not be stored twice, and budgets must hold up to what lapsed.
* *Rate limiter.* Windows in a full map under a wall clock.
* *Locks.* All this relies on transactions that take row locks in several orders.

## 2. Modules

| module | models | extends / uses |
|---|---|---|
| `LeasedRows` | rows of an outbox table and the five statements on them | |
| `LeasedRowsProofs` | lemmas about those statements | `LeasedRows` |
| `DeliveryPromise` | abstract: what an outbox promises | |
| `ReportOutbox` | `submit`, `RunDelivery` and the table | `LeasedRows`, `DeliveryPromise` |
| `ReportOutboxProofs` | theorems about `ReportOutbox` | `ReportOutbox`, `LeasedRowsProofs` |
| `UsageOutbox` | the usage events and their workers | `LeasedRows` |
| `UsageOutboxProofs` | theorems about `UsageOutbox` | `UsageOutbox`, `LeasedRowsProofs`, `DeliveryPromise` |
| `OAuthBroker` | sign-ins, provider (in one step), sweeps of tokens | |
| `ProviderSettings` | provider settings and connection tests, statement by statement, sweeps of client secrets | |
| `SourceCrawl` | crawls of one source and their publication | |
| `SourceCrawlProofs` | theorems about `SourceCrawl` | `SourceCrawl` |
| `WebsiteCrawl` | what `Collect` of `SourceCrawl` stands for, of a website | |
| `WebsiteCrawlProofs` | theorems about `WebsiteCrawl` | `WebsiteCrawl` |
| `SourceLocks` | the row locks of the transactions of `SourceCrawl` | |
| `SourceUploads` | creation and replacement of uploaded sources: console, server, files | |
| `KnowledgeStages` | claims and results of knowledge batches | |
| `AIBudget` | the daily token budget | |
| `FixedWindow` | the rate limiter | |
| `Backoff` | both delay functions of the outboxes | |
| `BoundsProofs` | theorems about `FixedWindow` and `AIBudget`, lemmas about `Backoff`, sums over sets | these three |
| `MCReportOutbox`, `MCUsageOutbox`, `MCSourceCrawl`, `MCWebsiteCrawl` | values of constants for TLC, symmetry sets, sitemaps | the module named |
| `MCIdentity` | `OAuthBroker` and `ProviderSettings`, one at a time | both |
| `IdentityProofs` | theorems about both and what `MCIdentity` puts together | `MCIdentity` |
| `MCParts` | six small parts that do not act on one another, one at a time | `SourceLocks`, `SourceUploads`, `KnowledgeStages`, `FixedWindow`, `AIBudget`, `Backoff` |
| `PartsProofs` | theorems about the six and what `MCParts` puts together | `MCParts`, `BoundsProofs` |

Definitions whose comment starts with "Mutated:" are wrong on purpose. They stand before the
definition they imitate, are used by nothing, and show that a property would notice such a bug.

### ReportOutbox and LeasedRows

`rows` is the table `report_submissions`, `keyOf` its unique index on deployment, actor, kind
and digest. Times are kept as what is left of them (`due`), so that the clock is one action
(`Tick`) and the state space finite. A client's call is two steps, the INSERT
(`StoreNew`, `StoreRepeated`) and the audit event (`Acknowledge`, or `LoseCall` when it fails).
A worker is one run of `RunDelivery`: `Start` draws its owner, `Claim` is the claiming
statement, `Deliver` one request to the destination with all three outcomes, `Record` the
statement that follows it and `Conflict` the `ErrConflict` that ends the run. `Crash` stops a
worker at any point with its batch in hand. `copy` is the attempt count the claim *returned*,
which the code uses instead of the one in the table.

The code sends a batch in the order of the claim; `Deliver` takes any order, which contains it.
The two constants that make overtaking possible (30 s, 25 deliveries of up to 10 s) appear as
`Tick` being possible at any time.

`ImplementsPromise` is `ReportOutbox => DeliveryPromise` under the mapping "queued and
delivering are pending".

### UsageOutbox

The same rows with two differences of the code: no failure is final and the claim's attempts
only choose the delay, so attempts are counted up to `DelayCap`, from where on all are alike. The
endpoint (`up`) is external and may do anything.

### OAuthBroker

A sign-in has one row at a time (`row`), consumed by the request that works for it (`pc`); the
steps of a request are the calls it makes, in the order of `Callback` and `Exchange`, each of
which may fail, and each followed by the recheck the code makes there. `elapsed` counts a
request's time; `Tick` does not pass `RequestLimit`, because every outside call has a timeout.
`Sweep` is `DeleteStaleOAuthArtifacts`, one transaction, possible at any time, because the janitor,
requests and administrators all call it, the latter two best-effort. A sweep that is cut off by
its batch limit deletes a part of what `Sweep` deletes; this is not modelled. `Disconnect` makes the
next provider start at revision 1, with `life` as a history variable telling the two apart, and
`crossed` marks the requests that ran across a disconnect.

### ProviderSettings

What is one step in `OAuthBroker` (there for what sign-ins see of it) is here each statement of
`ConfigureIdentity`, `ActivateIdentityProvider` and `DisableIdentityProvider`: `ReadSettings`, then
`CreateCredential` or `CheckTest`, then the save (`SaveConfiguration`, `SaveState`), which writes the
whole row that was read on condition of its revision, then `DropCredential`, which may fail. A save whose
answer is lost is followed by the cleanup of an error; the foreign key (`Referable`, and the check in
`DropCredential`) is what protects the credential then. A test is `BeginTest`, `ClaimTest`, `ReadTested`,
`PassTest`. A configuration is named by the incarnation of the provider and the revision it was entered at.

`ActiveWasTested` has one exception, `content.life < connections`, and it is one of the code: a request that
read the provider before a disconnect may save what it read over the next provider, if that has by then
reached the same revision (`internal/platform/service_identity.go:216-244`,
`internal/store/postgres_identity.go:30`; the id of the provider is kept out of the condition).

### SourceCrawl

One source. A document is one content at one URL. `jobs` are numbered in the order of
`queued_at`; the unique index on active jobs is `NoneActive`. A crawler process goes
`Claim`, `Collect` (any non-empty set of pages, any of them with indicators, complete or not),
`StorePage` for each page, `Persist` (the typed run and its `review_ready` state, one
transaction), `Complete`; any of these may throw (`GiveUp`, then `Fail`) and the process may
crash between them. Of the lease only its end is kept: `Expire` makes the lease of a running job
run out, a heartbeat being what keeps that from happening. A reviewer opens any crawl, `Submit` is
`Service.PublishSource` up to the store, `Publish` the transaction.

Left out: other sources (each is its own instance of the model), runs of OpenAPI contracts, whose
own publication is a different path, the requirement of finished knowledge processing (a
request that is refused for it is `Abandon`), titles, hashes and the library's typed documents. The
hash over what was reviewed is modelled by what it decides: `seen` is compared with `links` in the
transaction. Lease owners are assumed to differ, as generated ones do;
`DOKOSOKO_CRAWLER_WORKER_ID` can make them equal.

### WebsiteCrawl

One run of `ingestWebsite`. `sitemap` is what the site lists, any sequence in `Spec` and the runs'
bounded ones in `MCWebsiteCrawl`; `Seeds` are the root and the URLs of the
sitemap up to the page limit. A request (`request`, `tries`) is Crawlee's, a handler is the code's function
for one attempt at it and is divided where it awaits: `Land` up to the final URL and the check of
`seenFinalURLs`, `Push` when the page is rendered and appended, `Link` when its links are enqueued.
`Throw` ends a handler and its attempt, `Timeout` only its attempt: the handler goes on, for as long as the
process is not ended by a failed run. `Finish` makes the result, whose failed and skipped counts decide the
coverage. The history variables `found` and `landed` say which URLs pages link to and where
requests ended up. A URL redirects to the same place each time it is asked; a page that is
quarantined is acquired like any other, and its indicators are `SourceCrawl`'s.

### SourceUploads

One reviewer with several tabs. An upload is numbered, the number is the name of its file, and the key of
an attempt is the number of its first upload. A tab remembers one attempt for creation and one
for replacement; local storage (`draft`) has one for creation and one for each source. `Send` prepares the
attempt as the console does and sends it; the server's steps (`CreateSource`, `ReplaceInput`, `Recover`,
`Refuse`, `Fail`) may come much later, or after the tab was closed, and their answers may be
heard or not. `Commit` ends in an answer or in an uncertain commit. `ChangeSource` is whoever else changes
the source. A source that is being imported cannot be replaced, which is one of the failures of `Fail`; a
failed write of local storage is `LoseDraft`. Creating a website is the same without a file.

### KnowledgeStages

One ingestion run. `stages` are the rows of its attempts at batches, in order; a request reads the
status (`ReadStatus`), claims (`ClaimStage`, one transaction that fails all overdue claims), rechecks
that nobody else has completed the batch, calls the provider and stores the result if its claim is still
running (`SaveStage`). `Lapse` makes a claim three minutes old, with its request at work or not.

### AIBudget

One product, workload and day with a budget. `Reserve` deletes the reservations that have expired, adds those that
have not to what is used, and refuses or reserves, in one transaction (the row of the day is locked);
`Settle` deletes the reservation and adds the tokens of the answer. `SettleFails` is the error that
`finishAI` ignores. A failed call may turn to the backup, which reserves again. `Expire` may come at any time: the
two minutes are set by the process's clock and read by the database's. The history variable `slack` adds up
what the code cannot account for: tokens of an answer beyond its estimate, and the estimates of
reservations that were deleted before they were settled. `spent` counts tokens of answers; what a call that timed out cost
at the provider is known to nobody here.

### FixedWindow

`windows` is the map with its limit on entries, `Allow` the method with its pruning. The clock is the wall clock
(`time.Now().UTC()`), so it may be set (`SetClock`). `recent` is a history of what a key was allowed
in each of the last `Duration` ticks of time that really passed.

### Backoff

The loop of both delay functions as a recursive function, with its condition in `Doubled`.

### SourceLocks

What `SourceCrawl` takes for granted, that its steps are atomic and end, rests on row locks. Each
connection runs one transaction after another, takes the rows in the order of its statements
and holds them to the end. Four rows are told apart: the source, its latest job, the documents,
the typed run. The foreign key of the run takes `FOR KEY SHARE` on the source, which conflicts with
`FOR UPDATE`; it is treated as a lock like the others, which can only add waiting. `End` is at the same
time COMMIT, ROLLBACK and PostgreSQL's own deadlock detection.

## 3. Runs

| run | question | bounds | result |
|---|---|---|---|
| `report_workers` | retry budget, outcomes, inductive invariant, one row per key, who ends a claim | 2 workers, 2 clients, 2 keys, 2 rows, batch of 2, 2 attempts, 1 lapse | holds |
| `report_live` | how often a row is sent, and when by two at once; every submission is settled; refinement of `DeliveryPromise`, its liveness included | 2 workers, 1 row, 2 attempts, 2 lapses | holds under fairness |
| `usage_outbox` | no event is made up or recorded without delivery; it is delivered once the endpoint stays up | 2 workers, 2 events, batch of 2, 1 lapse | holds under fairness |
| `usage_exhausted` | do retries exhaust, as the operations guide says | 1 worker, 1 event | **violated** |
| `identity` | sweeps against requests, disconnects, persistence of tokens; only tested configurations are active; tokens and client secrets without an owner go | 1 sign-in, 2 issuers, 2 incarnations; 2 administrators, 1 test, 2 client secrets, 2 connections | holds, liveness under fairness |
| `crawl_publish` | what a review shows, what is served, that the latest crawl is published | 2 documents, 2 crawls, 1 process, 1 reviewer, 1 lapse | holds |
| `crawl_takeover` | every crawl is decided while two processes take over one another's | 1 document, 2 crawls, 2 processes, 2 lapses | holds under fairness |
| `locks_publish` | does every crawler path take the source row first | 2 connections | **violated** |
| `website` | pages are acquired once, what is complete is, late handlers are harmless, the crawl ends | 3 URLs, page limit 2, sitemaps of 0, 1 and 3 entries | holds, liveness under fairness |
| `website_sitemap` | is every entry of the sitemap in a complete result | 3 URLs, page limit 2, sitemaps of 0 to 2 entries | **violated** |
| `parts` | each of the six small parts, below | below | holds |
| `upload_retry` | can a refused replacement be repeated from the current source | 1 tab, 2 files, 3 uploads, 1 source | **violated** |

The properties of `parts`, and its bounds:

| part | property | bounds |
|---|---|---|
| locks | `NoCircularWait`: transactions never wait in a circle, without a publication | 3 connections, 6 transactions |
| uploads | `FilesAreKept`, `OneSourcePerCreation` | 2 tabs, 2 files to choose from, 3 uploads, 2 sources |
| knowledge | `OneResultPerBatch`, `OneCallPerWindow` | 3 requests, 2 batches, 4 attempts |
| window | `BoundaryBurst`: twice the limit within a duration, and once more for each time the clock was set | 2 keys, a map of 1, limit 2, 8 ticks, 1 setting |
| budget | `BudgetIsKept`: answers use no more than the budget and the slack | 2 callers, 3 reservations of 2 or 3 tokens, budget 5, answers of up to 4 |
| backoff | `CappedDoubling`: base * 2^(n-1) up to the cap, and the loop does not run away | bases to 5, caps to 70, 12 attempts |

### Why the bounds are enough to see what matters

* *Two workers or processes* are what a takeover needs; with two lapses in `report_live`, a row that was
  taken over is taken over again. `MaxLapses` counts crashes and leases
  that ran out on a live worker; the runs have at least one for each actor that can be lost,
  and the theorems hold for any number.
* *Owners* are drawn fresh at every start and may be drawn again once no row and no worker has
  them; one lapse leaves at most one stale owner beside two live ones, so three never block a start.
* *Times* are in ticks: a lease of one tick and delays of one and two keep every order of
  expiry, retry and delivery. In `OAuthBroker`, `Grace = 3 = CodeTTL + 2 * RequestLimit` is the
  smallest value its assumption allows; the real values (15 min, 5 min, 2 min) have more room.
* *One sign-in* is enough for the sweeps and the provider, since sign-ins share nothing but these; two
  incarnations of the provider are what a disconnect and revisions that start again need. *Two
  administrators* and one test interleave a configuration, an activation and a test with a disconnect
  between any two of their steps.
* *Three URLs* under a limit of two let a link, a redirect or an entry of the sitemap be one too many. A
  request has its two attempts in full.
* *Three requests* on two batches: one that is late, one that took over and one that goes on. *A map
  of one window* is full with every second key. *Three uploads* are a first one, its retry and another.
* *Three reservations* with two callers: one that lapses, one that takes its room, and one that must be
  refused; the estimates do not divide the budget.
* *Two crawls* of one source are an older and a latest one, and *two documents* let a crawl store
  one page and not the other. `MaxRevision` bounds only the changes of visibility.
* No safety property depends on these bounds in the end: each one that a run shows to hold is also
  proved (section 5).

Deadlock is not checked where the actors really may all be finished: outboxes with all rows
settled, a source with all its jobs done, sign-ins that have all ended, counters at their bounds.
`locks_publish` checks it; that the locks of the other transactions never wait in a circle is
`NoCircularWait`.

### Fairness

* Workers (`WF` of each worker's step): the supervisor restarts a loop that returned or panicked
  (`internal/lifecycle/supervisor.go`), and each call has a timeout, so a worker that can go on does.
* In `WebsiteCrawl`, `WF` of `Start`, `Timeout` and `Finish`: Crawlee schedules what is pending and
  gives up what takes 30 s. Nothing is assumed of the handlers, so a page may hang for ever.
* In `ProviderSettings`, `WF` of the sweep and of ageing; administrators and tests may stop at any step.
* The clock (`WF` of `Tick`, `Expire`): time passes. In `OAuthBroker` the janitor (`WF` of
  `Sweep`) runs under the supervisor as well.
* Nothing is assumed of clients, administrators, reviewers or the usage endpoint, and `Crash` is
  never fair. Liveness needs the number of lapses to be finite (`MaxLapses`); a crawl that kills its
  process at every attempt is never decided, because attempts of crawls are not limited.

## 4. Findings

* **Retries of usage events never exhaust** (`usage_exhausted`). `docs/OPERATIONS.md:125` has
  operators alert on "authorization-usage deliveries exhausting retries"; the worker answers every
  failure with a retry, and the table has no state for an event that was given up.
* **Not every crawler path takes the source row first** (`locks_publish`). The comment in
  `PublishSource` (`internal/store/postgres_knowledge.go:173-174`) says it does; `storePage` and
  `completeJob` lock the job first. With a job that is queued and claimed between the checks of a
  publication and its transaction the two wait for one another, and PostgreSQL ends one.
  `OnlyPublicationsClose` shows that a publication is always part of such a circle.
* **A full sitemap loses its last entry without a count** (`website_sitemap`). `sitemapSeeds` returns up
  to `maxPages` URLs and counts the entries beyond as skipped; `ingestWebsite` then puts the root before
  them and cuts off at `maxPages` again (`crawler/index.ts:270`), and that URL is counted nowhere. The
  coverage may say complete, although "partial coverage, skipped files, failures" are to be
  retained (`docs/FINAL_PLAN.md:107-108`).
* **A refused replacement cannot be repeated with the same file** (`upload_retry`). The server answers "Open
  the current source before replacing it again" (`internal/httpapi/server_upload.go:77`), but the console
  prepares the old attempt again, with its old revision, from memory or local storage
  (`app/lib/source-input-replacement.ts:15`), and is refused again until the draft is a week old or another file
  is chosen. `docs/PRODUCT_SIMPLIFICATION.md:628-629` says that an uncommitted request can retry the same
  selected file.

## 5. Proofs

All checked by TLAPS, for every value of the constants that satisfies the named assumptions. These say
that numbers are numbers, that values standing for "none" are none of the others, and, beyond
that, only what follows: workers and callers are finitely many (`ReportOutboxAssumption`,
`AIBudgetAssumption`; they are runs of processes), and so are the URLs and the documents of a site
(`WebsiteCrawlAssumption`, `SourceCrawlAssumption`);
every attempt has a delay; the paths of transactions are those of the code (`SourceLocksAssumption`); and
the grace period of orphaned secrets covers two requests and the life of a code between them
(`OAuthBrokerAssumption`), as the constants of the code do.

Every invariant and every action property of the runs that hold is the subject of a theorem. Each of these
follows from an inductive invariant that TLC checked on the run's instance before it was proved.

### The outboxes (LeasedRowsProofs, ReportOutboxProofs, UsageOutboxProofs)

`QueueInvariant` is the inductive invariant of the report outbox: a live worker has an owner nobody
else has; the rows of its batch it still holds carry the attempt count it copied; rows of one claim share a
deadline; and for every row, the attempts beyond the budget are paid for by lapses. `AttemptBudget` alone
is not inductive, because the decision to give up is taken from a worker's copy and the row may
have been claimed since. From it: `RetriesAreBounded`, `OutcomesAreTrue`, `ClaimsEndByHolders`,
`KeysAreIdempotent`, and `OutboxImplementsPromise`, the refinement of the safety part of
`DeliveryPromise` step by step.

`CountsAreSound` is stronger than the two properties that count workers. `SendsAreCounted`
(`DeliveriesAreCounted`) needs every worker that has yet to send a row counted, not only those that still
hold it, because a worker may send after its lease has run out; `SharedOnlyAfterLapses` (`SharingTakesLapses`) needs
the workers counted whose lease has run out or was taken over: there are at most as many as lapses.

The usage outbox has `UsageInvariant`: workers hold stored events, and what they were told has been
taken was. `DeliveriesAreTrue` follows, and `UsageImplementsPromise`: it keeps the same `DeliveryPromise`, its
safety part only, because without final failures nothing is promised while the endpoint is down.

### IdentityProofs

`SecretAges` bounds the age of a delegated secret by the time of the requests that had it and
by what its code has used of its life. Together with the assumption
`Grace >= CodeTTL + 2 * RequestLimit` it gives `GraceCoversRequests`: no sweep takes a secret that
a request is going to hand on. `DisconnectIsFinal` needs, besides the property, that rows of
a sign-in belong to the provider's present incarnation unless the request crossed a disconnect.
`TokensPersist` shows, step by step, that only expiry and a change of the provider or the account make a usable
token unusable: a sweep does not, for it finds the row; nor does the request of another sign-in.

`SettingsInvariant` is about what requests and tests remember: within the life of one connection a revision
names one content, so that a request with the present revision has the present content, and so has a test; a
request that saw a test pass read a verified content or one of a connection that is gone. That is where
the exception of `ActiveWasTested` (`ActivationsAreTested`) comes from. `PartsAreKept` takes what is proved of the
broker and of the settings to `IdentitySpec`, which the run checks.

### SourceCrawlProofs

The inductive invariant joins `TypeOK` with seven facts: jobs are queued in order (`Ordered`), a
job nobody claimed has no evidence (`Fresh`), where an attempt stands is what the frozen links and the
run say as long as it holds its lease (`Progress`), and the four properties, `LatestIsLive` being
the stronger form of `EvidenceIsLive` that also covers the crawl at work. All four invariants and
`PublishesTheLatest` follow for any number of documents, crawls, processes and reviewers.

### WebsiteCrawlProofs

`CrawlInvariant` says what a handler that goes on beside its own retry can do: both lead to the same URL, which
is remembered once, so at most one of the two goes on with the page (`HandlersHaveLanded`); a request is handled
only when its page is in the list and no handler of it will add anything, or when something was counted as failed or
skipped (`HandledAreAnswered`). Hence a complete result is quiet (`CompleteIsQuiet`): its pages are all there, and no
late handler will add to it or to what is linked. `PagesAreSingle`, `CompleteResultsAreClosed` and `CompleteResultsAreFinal`
follow for every sitemap, page limit and site.

### BoundsProofs

Sums over finite sets are the community modules' folds. The library's induction theorems cannot be used (they take an
operator), so induction is over a set of numbers: one that has 0 and with each number the next has them all, because
there is no least one missing (`NumberInduction`, from the library's `WFMin`). From it `SumRecurs` and what
sums do when a set or a function changes.

* `WindowInvariant`: for each key, what was allowed since its window started is counted in it, and what was allowed
  before is within one limit more; a key without a window was allowed no more than one limit. This is what
  pruning an expired window needs, and setting the clock costs one limit each time. `BurstsAreBounded` follows.
* `BudgetInvariant`: what was answered and what the calls at work may still answer is within the budget and the slack, and is
  used, set aside or slack. Of the answers alone this is not inductive: an answer comes when its
  reservation may be long deleted. `BudgetsAreKept` follows for any callers, estimates and answers.
* Delays: the loop is a recursive function of two numbers; the powers it is compared with are not defined to the
  prover, so their law is taken from the number of subsets of a set (`FS_SUBSET`, `PowersOfTwo`).

### PartsProofs

* Locks: without a publication every transaction takes `job`, `source`, `documents`, `run` in an order that
  never returns to an earlier row, so each member of a circle would wait for a later row than the
  one before it (`OnlyPublicationsClose`).
* Knowledge: only the last claim runs, and a request that was told to go on holds a claim on a batch without a result
  or one that was failed for good (`ResultsAreSingle`, `CallsAreSingle`).
* Uploads: of the creations with one content that nobody has seen succeed there is one attempt, the one local storage
  has (`OneAttempt`); a file that a source refers to is of an upload that has been answered or
  recovered, so no removal that is still to come is of it (`FilesHaveSources`). `ReferredFilesAreKept` and
  `CreationsAreSingle` follow.
* `DelaysAreCapped` from the lemmas of `BoundsProofs`, and `PartsAreApart`, which takes what is proved of each part to
  `PartsSpec`, which the run checks.

### Only model-checked

Liveness is out of the prover's reach: `EventuallySettled`, `DeliveredOnceUp`, `RetentionEnds`,
`CredentialsEnd`, `EventuallyDecided`, `CrawlEnds` and the fair part of `ImplementsPromise`. The four
findings are counterexamples and need no proof.

Only proved: the types of `SourceCrawl`; `SecretAges`, the strengthening behind `SecretsOutliveRequests`; and
`UsageImplementsPromise`. No run lists them.

## 6. Plan

1. `ToolConfirmation`: preview, confirmation and execution of an MCP tool call, with its usage event;
   composed with `UsageOutbox`.
2. `IntegrationPublication` and recipes: what a publication freezes and what may change beside it.
3. The acceptance of knowledge results and the readiness of a publication, composed with
   `KnowledgeStages` and `SourceCrawl`.
4. An abstract specification of what a publication promises its readers, which `SourceCrawl` and `WebsiteCrawl`
   together implement.

## 7. Not modelled

* *Functions of their input*: parsing, normalisation and indicators in the crawler, validation of
  fields, the vault, configuration, network policy, adapters of AI providers. The models take their results,
  whatever they are.
* *Rows that are edited one at a time on condition of their revision*: SDKs, contracts, the
  documentation library, services, recipes, the tool builder, sessions and second factors. Each is one
  conditional statement and has no protocol beyond it.
* *Input and output*: routing and decoding in the administration API, the MCP bridge, rendering and forms
  of the console, its translations (a large part of the source files), process entry points.
* *Deployment, examples, extensions, tests*: not part of the running system.
* *Within modelled components*: other sources than the one of `SourceCrawl` (each is an instance of its own),
  contract runs and git sources, OAuth clients and their metadata, a sweep that is cut off by
  its batch limit, a budget of zero (none), the turn of the day in the budget.
