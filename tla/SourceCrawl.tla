---------------------------- MODULE SourceCrawl ----------------------------
(***************************************************************************)
(* The crawls of one documentation source and the publication of what they *)
(* found.  Crawler processes (crawler/index.ts) claim the source's jobs    *)
(* under a lease that they renew, store each page with the assessment of   *)
(* its content, persist the typed candidates and complete the job;         *)
(* reviewers (internal/platform, internal/store) open a crawl, choose      *)
(* documents and publish them.  Every step of either is one transaction.   *)
(*                                                                         *)
(* A document is one content at one URL.  Its assessment is quarantined    *)
(* when its injection indicators are not empty, which may differ from one  *)
(* attempt to the next (the classifier is part of the crawler).  Of a      *)
(* lease only its end is kept: a heartbeat keeps a live lease live and     *)
(* changes no row whose lease has run out.                                 *)
(***************************************************************************)
EXTENDS Naturals, FiniteSets

CONSTANTS Doc,
          Job,         \* the crawl jobs, numbered in the order of queued_at
          Worker,      \* crawler processes: their lease owners differ
          NoWorker,    \* the empty lease_owner column
          Reviewer,
          MaxRevision, \* bound: no change of visibility beyond this revision
          MaxLapses    \* bound: crashes, and leases that run out on a live process

ASSUME SourceCrawlAssumption ==
    /\ IsFiniteSet(Doc)
    /\ Job \subseteq Nat \ {0}
    /\ NoWorker \notin Worker
    /\ MaxRevision \in Nat /\ MaxLapses \in Nat

VARIABLES
    source,    \* the row of sources
    docs,      \* the state of the rows of knowledge_documents
    jobs,      \* the rows of crawl_jobs
    expired,   \* the running jobs whose lease_expires_at has passed
    links,     \* the frozen assessments in crawl_job_documents
    run,       \* the rows of developer_asset_ingestion_runs, which have their job's id
    published, \* the documents of the job's row in source_publications
    worker,    \* where each crawler process is, and its IngestionResult
    review,    \* what each reviewer looks at
    lapses     \* counts the lapses

vars == <<source, docs, jobs, expired, links, run, published, worker, review, lapses>>

NoJob == 0
Lifecycle == {"none", "validated", "published", "quarantined"}
Coverage == {"complete", "partial"}

NoCrawl == [state |-> "none", owner |-> NoWorker, fetched |-> 0, coverage |-> "complete"]
NoRun == [state |-> "none", pages |-> {}, taint |-> {}, coverage |-> "complete"]
NoLinks == [d \in Doc |-> "none"]
Idle == [pc |-> "idle", job |-> NoJob, pages |-> {}, todo |-> {}, taint |-> {},
         coverage |-> "complete", changed |-> {}]
NoReview == [pc |-> "idle", job |-> NoJob, revision |-> 0, selected |-> {}, seen |-> NoLinks]

Source == [state : {"draft", "validated", "published", "quarantined"}, revision : Nat]
Crawl == [state : {"none", "queued", "running", "review", "failed"},
          owner : Worker \cup {NoWorker}, fetched : Nat, coverage : Coverage]
Run == [state : {"none", "review_ready", "published"},
        pages : SUBSET Doc, taint : SUBSET Doc, coverage : Coverage]
Attempt == [pc : {"idle", "claimed", "collected", "persisted", "failing"},
            job : Job \cup {NoJob}, pages : SUBSET Doc, todo : SUBSET Doc,
            taint : SUBSET Doc, coverage : Coverage, changed : SUBSET Doc]
Review == [pc : {"idle", "opened", "checked"}, job : Job \cup {NoJob},
           revision : Nat, selected : SUBSET Doc, seen : [Doc -> Lifecycle]]

TypeOK ==
    /\ source \in Source
    /\ docs \in [Doc -> Lifecycle]
    /\ jobs \in [Job -> Crawl] /\ expired \subseteq Job
    /\ links \in [Job -> [Doc -> Lifecycle]]
    /\ run \in [Job -> Run]
    /\ published \in [Job -> SUBSET Doc]
    /\ worker \in [Worker -> Attempt]
    /\ review \in [Reviewer -> Review]
    /\ lapses \in 0..MaxLapses
    /\ \A w \in Worker : worker[w].pc # "idle" => worker[w].job \in Job
    /\ \A a \in Reviewer : review[a].pc # "idle" => review[a].job \in Job

Init ==
    /\ source = [state |-> "draft", revision |-> 1]
    /\ docs = NoLinks
    /\ jobs = [j \in Job |-> NoCrawl]
    /\ expired = {}
    /\ links = [j \in Job |-> NoLinks]
    /\ run = [j \in Job |-> NoRun]
    /\ published = [j \in Job |-> {}]
    /\ worker = [w \in Worker |-> Idle]
    /\ review = [a \in Reviewer |-> NoReview]
    /\ lapses = 0

-----------------------------------------------------------------------------
(* Administrators. *)

\* crawl_jobs_one_active_per_source_idx
NoneActive == \A j \in Job : jobs[j].state \notin {"queued", "running"}

NextJob(j) == jobs[j].state = "none" /\ \A k \in Job : k < j => jobs[k].state # "none"

\* QueueCrawl, or ReplaceSourceInput when the revision moves as well.
Queue(j, replaced) ==
    /\ NoneActive /\ NextJob(j)
    /\ jobs' = [jobs EXCEPT ![j] = [@ EXCEPT !.state = "queued"]]
    /\ source' = IF replaced THEN [source EXCEPT !.revision = @ + 1] ELSE source
    /\ UNCHANGED <<docs, expired, links, run, published, worker, review, lapses>>

\* UpdateSource
ChangeVisibility ==
    /\ source.revision < MaxRevision
    /\ source' = [source EXCEPT !.revision = @ + 1]
    /\ UNCHANGED <<docs, jobs, expired, links, run, published, worker, review, lapses>>

-----------------------------------------------------------------------------
(* Crawler processes. *)

Lapse == lapses < MaxLapses /\ lapses' = lapses + 1

\* lockJobLease: the job is running, under this owner, and the lease is live.
Holds(w) ==
    /\ worker[w].pc # "idle"
    /\ jobs[worker[w].job].state = "running"
    /\ jobs[worker[w].job].owner = w
    /\ worker[w].job \notin expired

\* The lease of a process that still works runs out (a stalled event loop, a
\* database it does not reach) or, uncounted, one that nobody renews.
Expire(j) ==
    /\ jobs[j].state = "running" /\ j \notin expired
    /\ expired' = expired \cup {j}
    /\ IF \E w \in Worker : worker[w].job = j /\ Holds(w) THEN Lapse ELSE UNCHANGED lapses
    /\ UNCHANGED <<source, docs, jobs, links, run, published, worker, review>>

ClaimJob(w, j, cleared) ==
    /\ jobs' = [jobs EXCEPT ![j] = [NoCrawl EXCEPT !.state = "running", !.owner = w]]
    /\ expired' = expired \ {j}
    /\ links' = IF cleared THEN [links EXCEPT ![j] = NoLinks] ELSE links
    /\ worker' = [worker EXCEPT ![w] = [Idle EXCEPT !.pc = "claimed", !.job = j]]
    /\ UNCHANGED <<source, docs, run, published, review, lapses>>

Claimable(j) == jobs[j].state = "queued" \/ (jobs[j].state = "running" /\ j \in expired)

\* Mutated: the evidence of the attempt before is kept.
ClaimKeepingLinks(w) ==
    /\ worker[w].pc = "idle"
    /\ \E j \in Job : Claimable(j) /\ ClaimJob(w, j, FALSE)

\* Mutated: an expired lease is not taken over.
ClaimOnlyQueued(w) ==
    /\ worker[w].pc = "idle"
    /\ \E j \in Job : jobs[j].state = "queued" /\ ClaimJob(w, j, FALSE)

\* claimJob: a reclaimed job loses the evidence of the attempt before.
Claim(w) ==
    /\ worker[w].pc = "idle"
    /\ \E j \in Job : Claimable(j) /\ ClaimJob(w, j, jobs[j].state = "running")

\* collectSource: some pages, some with indicators, all that were found or not.
Collect(w) ==
    /\ worker[w].pc = "claimed"
    /\ \E pages \in (SUBSET Doc) \ {{}}, coverage \in Coverage : \E taint \in SUBSET pages :
          worker' = [worker EXCEPT ![w] = [@ EXCEPT !.pc = "collected", !.pages = pages,
              !.todo = pages, !.taint = taint, !.coverage = coverage]]
    /\ UNCHANGED <<source, docs, jobs, expired, links, run, published, review, lapses>>

\* The assessment storePageWithReference gives to a page.
Assessed(w, d) ==
    IF d \in worker[w].taint THEN "quarantined"
    ELSE IF docs[d] = "published" THEN "published" ELSE "validated"

Store(w, d, live, frozen) ==
    /\ worker[w].pc = "collected" /\ d \in worker[w].todo
    /\ Holds(w)
    /\ docs' = [docs EXCEPT ![d] = live]
    /\ links' = [links EXCEPT ![worker[w].job][d] = frozen]
    /\ worker' = [worker EXCEPT ![w] = [@ EXCEPT
           !.todo = worker[w].todo \ {d},
           !.changed = worker[w].changed \cup (IF docs[d] # live THEN {d} ELSE {})]]
    /\ UNCHANGED <<source, jobs, expired, run, published, review, lapses>>

\* Mutated: a published document stays published whatever the crawl found in it.
StorePageKeepingPublished(w) ==
    \E d \in Doc : LET s == IF docs[d] = "published" THEN docs[d] ELSE Assessed(w, d)
                   IN  Store(w, d, s, Assessed(w, d))

\* Mutated: a document that is there already is not assessed again.
StorePageOnce(w) ==
    \E d \in Doc : Store(w, d, IF docs[d] = "none" THEN Assessed(w, d) ELSE docs[d],
                         Assessed(w, d))

\* storePageWithReference
StorePage(w) == \E d \in Doc : Store(w, d, Assessed(w, d), Assessed(w, d))

PersistRun(w, identical) ==
    LET me == worker[w] IN
    /\ me.pc = "collected" /\ me.todo = {}
    /\ Holds(w)
    /\ \/ /\ run[me.job].state = "none"
          /\ run' = [run EXCEPT ![me.job] = [state |-> "review_ready", pages |-> me.pages,
                                             taint |-> me.taint, coverage |-> me.coverage]]
       \/ run[me.job].state # "none" /\ identical /\ UNCHANGED run
    /\ worker' = [worker EXCEPT ![w] = [@ EXCEPT !.pc = "persisted"]]
    /\ UNCHANGED <<source, docs, jobs, expired, links, published, review, lapses>>

\* persistDeveloperAssetCandidates: one transaction writes the run up to
\* review_ready; a run that is there already must have the same manifest.
Persist(w) ==
    LET me == worker[w]
    IN  PersistRun(w, run[me.job].pages = me.pages /\ run[me.job].taint = me.taint)

CompleteAs(w, quarantined) ==
    LET me == worker[w]
        target == IF quarantined THEN "quarantined"
                  ELSE IF source.state = "published" THEN "published" ELSE "validated" IN
    /\ me.pc = "persisted"
    /\ Holds(w)
    /\ source' = IF source.state # target \/ me.changed # {}
                 THEN [state |-> target, revision |-> source.revision + 1] ELSE source
    /\ jobs' = [jobs EXCEPT ![me.job] = [state |-> "review", owner |-> NoWorker,
                                         fetched |-> Cardinality(me.pages),
                                         coverage |-> me.coverage]]
    /\ worker' = [worker EXCEPT ![w] = Idle]
    /\ UNCHANGED <<docs, expired, links, run, published, review, lapses>>

\* Mutated: failed and skipped pages do not count.
CompleteIgnoringCoverage(w) == CompleteAs(w, worker[w].taint # {})

\* completeJob
Complete(w) == CompleteAs(w, worker[w].coverage = "partial" \/ worker[w].taint # {})

\* Any step of processJob may throw; without the lease every one does.
GiveUp(w) ==
    /\ worker[w].pc \in {"claimed", "collected", "persisted"}
    /\ worker' = [worker EXCEPT ![w] = [Idle EXCEPT !.pc = "failing", !.job = worker[w].job]]
    /\ UNCHANGED <<source, docs, jobs, expired, links, run, published, review, lapses>>

\* failJob, whose UPDATE finds no row when the lease is gone.
Fail(w) ==
    /\ worker[w].pc = "failing"
    /\ jobs' = IF Holds(w)
               THEN [jobs EXCEPT ![worker[w].job] = [@ EXCEPT
                        !.state = "failed", !.owner = NoWorker, !.coverage = "partial"]]
               ELSE jobs
    /\ worker' = [worker EXCEPT ![w] = Idle]
    /\ UNCHANGED <<source, docs, expired, links, run, published, review, lapses>>

\* The process stops and another takes its place; the rows stay.
Crash(w) ==
    /\ worker[w].pc # "idle"
    /\ worker' = [worker EXCEPT ![w] = Idle]
    /\ Lapse
    /\ UNCHANGED <<source, docs, jobs, expired, links, run, published, review>>

WorkerStep(w) == Claim(w) \/ Collect(w) \/ StorePage(w) \/ Persist(w) \/ Complete(w)
                 \/ GiveUp(w) \/ Fail(w)

-----------------------------------------------------------------------------
(* Reviewers. *)

Linked(j) == {d \in Doc : links[j][d] # "none"}

\* docreview.SafeAssessment
Safe(s) == s \in {"validated", "published"}

Latest(j) == jobs[j].state # "none" /\ \A k \in Job : k > j => jobs[k].state = "none"

\* The job has been reviewed completely: state, fetched, failed and skipped counts.
Reviewable(j) ==
    /\ jobs[j].state = "review"
    /\ jobs[j].fetched > 0 /\ jobs[j].coverage = "complete"

\* A reviewer opens the review of some crawl (SourceReview) and chooses documents.
Open(a) ==
    /\ review[a].pc = "idle"
    /\ \E j \in {k \in Job : jobs[k].state # "none"} :
       \E selected \in (SUBSET Linked(j)) \ {{}} :
          review' = [review EXCEPT ![a] = [NoReview EXCEPT
              !.pc = "opened", !.job = j, !.revision = source.revision, !.selected = selected]]
    /\ UNCHANGED <<source, docs, jobs, expired, links, run, published, worker, lapses>>

\* Service.PublishSource, up to the call of the store: what it read is hashed.
Submit(a) ==
    LET r == review[a] IN
    /\ r.pc = "opened"
    /\ source.state # "quarantined" /\ source.revision = r.revision
    /\ Latest(r.job) /\ Reviewable(r.job)
    /\ published[r.job] = {}
    /\ \A d \in r.selected : Safe(links[r.job][d])
    /\ review' = [review EXCEPT ![a] = [@ EXCEPT !.pc = "checked", !.seen = links[r.job]]]
    /\ UNCHANGED <<source, docs, jobs, expired, links, run, published, worker, lapses>>

PublishJob(a, latest) ==
    LET r == review[a] IN
    /\ r.pc = "checked"
    /\ source.revision = r.revision /\ source.state # "quarantined"
    /\ latest /\ Reviewable(r.job)
    /\ \A d \in r.selected : /\ Safe(links[r.job][d]) /\ Safe(docs[d])
                             /\ links[r.job][d] = r.seen[d]
    /\ run[r.job].state = "review_ready" /\ run[r.job].coverage = "complete"
    /\ Cardinality(run[r.job].pages) = jobs[r.job].fetched
    /\ published[r.job] = {}
    /\ source' = [state |-> "published", revision |-> source.revision + 1]
    /\ published' = [published EXCEPT ![r.job] = r.selected]
    /\ docs' = [d \in Doc |-> IF d \in r.selected /\ docs[d] = "validated"
                              THEN "published" ELSE docs[d]]
    /\ run' = [run EXCEPT ![r.job] = [@ EXCEPT !.state = "published"]]
    /\ review' = [review EXCEPT ![a] = NoReview]
    /\ UNCHANGED <<jobs, expired, links, worker, lapses>>

\* Mutated: the transaction relies on the check before it.
PublishUnlocked(a) == PublishJob(a, TRUE)

\* The transaction of Postgres.PublishSource.
Publish(a) == PublishJob(a, Latest(review[a].job))

\* A request is refused, or its reviewer leaves.
Abandon(a) ==
    /\ review[a].pc # "idle"
    /\ review' = [review EXCEPT ![a] = NoReview]
    /\ UNCHANGED <<source, docs, jobs, expired, links, run, published, worker, lapses>>

-----------------------------------------------------------------------------
Next ==
    \/ \E j \in Job : Expire(j) \/ \E replaced \in BOOLEAN : Queue(j, replaced)
    \/ ChangeVisibility
    \/ \E w \in Worker : WorkerStep(w) \/ Crash(w)
    \/ \E a \in Reviewer : Open(a) \/ Submit(a) \/ Publish(a) \/ Abandon(a)

Spec == Init /\ [][Next]_vars

\* The poll loop of a process that runs goes on, and time passes.
FairSpec ==
    /\ Spec
    /\ \A w \in Worker : WF_vars(WorkerStep(w))
    /\ \A j \in Job : WF_vars(Expire(j))

-----------------------------------------------------------------------------
(* Properties. *)

\* A crawl in review shows what its last attempt fetched and nothing of the
\* attempts before, and the typed run of the job is of the same pages with the
\* same indicators (claimJob, storePageWithReference, ensureRunningRun).
ReviewIsItsEvidence ==
    \A j \in Job : jobs[j].state = "review" =>
        /\ run[j].state # "none"
        /\ Linked(j) = run[j].pages
        /\ {d \in Doc : links[j][d] = "quarantined"} = run[j].taint

\* The frozen assessments of the latest crawl, once in review, agree with the
\* live documents on what is quarantined (storePageWithReference writes both).
EvidenceIsLive ==
    \A j \in Job : Latest(j) /\ jobs[j].state = "review" =>
        \A d \in Linked(j) : Safe(links[j][d]) <=> Safe(docs[d])

\* The source is quarantined exactly when the last crawl that reached review
\* was partial or had indicators, whatever failed, was replaced or was
\* published since (completeJob, PublishSource).
VerdictFollowsReview ==
    \A j \in Job :
        jobs[j].state = "review" /\ (\A k \in Job : k > j => jobs[k].state # "review") =>
            (source.state = "quarantined" <=>
                jobs[j].coverage = "partial" \/ \E d \in Doc : links[j][d] = "quarantined")

\* A document is served as published only when a reviewer chose it, and no
\* crawl since then has quarantined it (PublishSource, storePageWithReference).
PublishedWasReviewed ==
    \A d \in Doc : docs[d] = "published" =>
        \E j \in Job : /\ d \in published[j]
                       /\ \A k \in Job : k >= j => links[k][d] # "quarantined"

\* A step that publishes a crawl finds no later crawl, queued, running or done
\* (PublishSource checks before the transaction and again in it).
PublishesTheLatest ==
    [][\A j \in Job : published'[j] # published[j] => Latest(j)]_vars

\* A queued crawl is reviewed or failed in the end, although processes crash
\* and lose their leases (claimJob, failJob).
EventuallyDecided ==
    \A j \in Job : jobs[j].state = "queued" ~> jobs[j].state \in {"review", "failed"}
=============================================================================
