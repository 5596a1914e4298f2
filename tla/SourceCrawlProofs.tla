-------------------------- MODULE SourceCrawlProofs --------------------------
(***************************************************************************)
(* Proofs about SourceCrawl, for any finite set of documents and any sets  *)
(* of jobs, crawler processes and reviewers.                               *)
(***************************************************************************)
EXTENDS SourceCrawl, FiniteSetTheorems, TLAPS

Quarantined(j) == {d \in Doc : links[j][d] = "quarantined"}

\* Jobs are created in order, and only the last one can be active.
Ordered ==
    \A j, k \in Job : j < k /\ jobs[k].state # "none" =>
        jobs[j].state \notin {"none", "queued", "running"}

\* A job that no process has had yet has no evidence.
Fresh ==
    \A j \in Job : jobs[j].state \in {"none", "queued"} =>
        links[j] = NoLinks /\ run[j].state = "none"

\* What the process that holds a job has written of its result so far.
Progress ==
    \A w \in Worker : Holds(w) =>
        LET me == worker[w] IN
        /\ me.pc = "claimed" => Linked(me.job) = {}
        /\ me.pc = "collected" => /\ me.todo \subseteq me.pages /\ me.taint \subseteq me.pages
                                  /\ Linked(me.job) = me.pages \ me.todo
                                  /\ Quarantined(me.job) = me.taint \ me.todo
        /\ me.pc = "persisted" => /\ run[me.job].state # "none"
                                  /\ run[me.job].pages = me.pages
                                  /\ run[me.job].taint = me.taint
                                  /\ Linked(me.job) = me.pages
                                  /\ Quarantined(me.job) = me.taint

\* EvidenceIsLive, of a crawl in any state.
LatestIsLive ==
    \A j \in Job : Latest(j) =>
        \A d \in Linked(j) : Safe(links[j][d]) <=> Safe(docs[d])

Evidence ==
    /\ Ordered /\ Fresh /\ Progress /\ ReviewIsItsEvidence
    /\ LatestIsLive /\ VerdictFollowsReview /\ PublishedWasReviewed

IInv == TypeOK /\ Evidence

-----------------------------------------------------------------------------
\* The changes of one field of a row, and of a process's place, keep the record's type.
LEMMA QueuedCrawl ==
    ASSUME NEW c \in Crawl
    PROVE  /\ [c EXCEPT !.state = "queued"] \in Crawl
           /\ [c EXCEPT !.state = "queued"].state = "queued"
  BY DEF Crawl

LEMMA FailedCrawl ==
    ASSUME NEW c \in Crawl
    PROVE  [c EXCEPT !.state = "failed", !.owner = NoWorker, !.coverage = "partial"] \in Crawl
  BY DEF Crawl, Coverage

LEMMA PublishedRun ==
    ASSUME NEW r \in Run
    PROVE  [r EXCEPT !.state = "published"] \in Run
  BY DEF Run

LEMMA AttemptAfterPage ==
    ASSUME NEW me \in Attempt, NEW todo \in SUBSET Doc, NEW changed \in SUBSET Doc
    PROVE  /\ [me EXCEPT !.todo = todo, !.changed = changed] \in Attempt
           /\ [me EXCEPT !.todo = todo, !.changed = changed].job = me.job
  BY DEF Attempt

LEMMA TypeOKInitially == Init => TypeOK
  <1> SUFFICES ASSUME Init
               PROVE  TypeOK
    OBVIOUS
  <1>1. NoCrawl \in Crawl /\ NoRun \in Run
    BY DEF NoCrawl, Crawl, NoRun, Run, Coverage
  <1>2. NoLinks \in [Doc -> Lifecycle]
    BY DEF NoLinks, Lifecycle
  <1>3. Idle \in Attempt /\ Idle.pc = "idle"
    BY DEF Idle, Attempt, Coverage
  <1>4. NoReview \in Review /\ NoReview.pc = "idle"
    BY <1>2 DEF NoReview, Review
  <1> QED BY <1>1, <1>2, <1>3, <1>4, SourceCrawlAssumption DEF Init, TypeOK, Source

\* Rows, evidence, crawler processes and reviewers keep their types (storePage,
\* persistDeveloperAssetCandidates, completeJob, PublishSource): one at work knows its job.
THEOREM TypeInvariance == Spec => []TypeOK
  <1>2. TypeOK /\ [Next]_vars => TypeOK'
    <2> SUFFICES ASSUME TypeOK, [Next]_vars
                 PROVE  TypeOK'
      OBVIOUS
    <2> USE DEF TypeOK
    <2>1. ASSUME NEW j \in Job, NEW replaced \in BOOLEAN, Queue(j, replaced)
          PROVE  TypeOK'
      <3>0. jobs[j] \in Crawl
        OBVIOUS
      <3>1. [jobs[j] EXCEPT !.state = "queued"] \in Crawl
        BY <3>0, QueuedCrawl
      <3>2. source' \in Source
        BY <2>1 DEF Queue, Source
      <3> QED BY <2>1, <3>1, <3>2 DEF Queue
    <2>2. ASSUME NEW j \in Job, Expire(j)
          PROVE  TypeOK'
      <3>1. lapses' \in 0..MaxLapses
        BY <2>2, SourceCrawlAssumption DEF Expire, Lapse
      <3> QED BY <2>2, <3>1 DEF Expire
    <2>3. CASE ChangeVisibility
      <3>1. source' \in Source
        BY <2>3 DEF ChangeVisibility, Source
      <3> QED BY <2>3, <3>1 DEF ChangeVisibility
    <2>4. ASSUME NEW w \in Worker, Claim(w)
          PROVE  TypeOK'
      <3> PICK j \in Job : ClaimJob(w, j, jobs[j].state = "running")
        BY <2>4 DEF Claim
      <3>1. [NoCrawl EXCEPT !.state = "running", !.owner = w] \in Crawl
        BY DEF NoCrawl, Crawl, Coverage
      <3>2. [Idle EXCEPT !.pc = "claimed", !.job = j] \in Attempt
        BY DEF Idle, Attempt, Coverage
      <3>3. [Idle EXCEPT !.pc = "claimed", !.job = j].job = j
        BY DEF Idle
      <3>4. links' \in [Job -> [Doc -> Lifecycle]]
        BY DEF ClaimJob, NoLinks, Lifecycle
      <3> QED BY <3>1, <3>2, <3>3, <3>4 DEF ClaimJob
    <2>5. ASSUME NEW w \in Worker, Collect(w)
          PROVE  TypeOK'
      <3> PICK pages \in SUBSET Doc, coverage \in Coverage, taint \in SUBSET Doc :
              worker' = [worker EXCEPT ![w] = [@ EXCEPT !.pc = "collected", !.pages = pages,
                             !.todo = pages, !.taint = taint, !.coverage = coverage]]
        BY <2>5 DEF Collect
      <3> DEFINE new == [worker[w] EXCEPT !.pc = "collected", !.pages = pages,
                             !.todo = pages, !.taint = taint, !.coverage = coverage]
      <3>0. worker[w] \in Attempt /\ worker[w].pc # "idle"
        BY <2>5 DEF Collect
      <3>1. new \in Attempt /\ new.job = worker[w].job /\ worker[w].pc # "idle"
        BY <3>0 DEF Attempt
      <3>2. worker' = [worker EXCEPT ![w] = new]
        OBVIOUS
      <3> HIDE DEF new
      <3> QED BY <2>5, <3>1, <3>2 DEF Collect
    <2>6. ASSUME NEW w \in Worker, StorePage(w)
          PROVE  TypeOK'
      <3> PICK d \in Doc : Store(w, d, Assessed(w, d), Assessed(w, d))
        BY <2>6 DEF StorePage
      <3> DEFINE new == [worker[w] EXCEPT
                  !.todo = worker[w].todo \ {d},
                  !.changed = worker[w].changed \cup
                                  (IF docs[d] # Assessed(w, d) THEN {d} ELSE {})]
      <3>1. Assessed(w, d) \in Lifecycle
        BY DEF Assessed, Lifecycle
      <3>2. docs' \in [Doc -> Lifecycle] /\ links' \in [Job -> [Doc -> Lifecycle]]
        BY <3>1 DEF Store
      <3>a. worker[w] \in Attempt /\ worker[w].pc # "idle"
        BY DEF Store
      <3>b. worker[w].todo \in SUBSET Doc /\ worker[w].changed \in SUBSET Doc
        BY <3>a DEF Attempt
      <3> DEFINE todo == worker[w].todo \ {d}
                 changed == worker[w].changed \cup
                                (IF docs[d] # Assessed(w, d) THEN {d} ELSE {})
      <3>c. todo \in SUBSET Doc /\ changed \in SUBSET Doc
        BY <3>b
      <3>d. /\ [worker[w] EXCEPT !.todo = todo, !.changed = changed] \in Attempt
            /\ [worker[w] EXCEPT !.todo = todo, !.changed = changed].job = worker[w].job
        <4> HIDE DEF todo, changed
        <4> QED BY <3>a, <3>c, AttemptAfterPage
      <3>3. new \in Attempt /\ new.job = worker[w].job /\ worker[w].pc # "idle"
        BY <3>a, <3>d
      <3>4. worker' = [worker EXCEPT ![w] = new]
        BY DEF Store
      <3> HIDE DEF new
      <3> QED BY <3>2, <3>3, <3>4 DEF Store
    <2>7. ASSUME NEW w \in Worker, Persist(w)
          PROVE  TypeOK'
      <3> DEFINE new == [worker[w] EXCEPT !.pc = "persisted"]
      <3>1. new \in Attempt /\ new.job = worker[w].job /\ worker[w].pc # "idle"
        BY <2>7 DEF Attempt, Persist, PersistRun
      <3>2. worker' = [worker EXCEPT ![w] = new]
        BY <2>7 DEF Persist, PersistRun
      <3>3. [state |-> "review_ready", pages |-> worker[w].pages,
             taint |-> worker[w].taint, coverage |-> worker[w].coverage] \in Run
        BY DEF Attempt, Run
      <3>4. run' \in [Job -> Run]
        BY <2>7, <3>3 DEF Persist, PersistRun
      <3> HIDE DEF new
      <3> QED BY <2>7, <3>1, <3>2, <3>4 DEF Persist, PersistRun
    <2>8. ASSUME NEW w \in Worker, Complete(w)
          PROVE  TypeOK'
      <3>1. Cardinality(worker[w].pages) \in Nat /\ worker[w].coverage \in Coverage
        BY SourceCrawlAssumption, FS_Subset, FS_CardinalityType DEF Attempt
      <3>2. source' \in Source
        BY <2>8 DEF Complete, CompleteAs, Source
      <3>3. [state |-> "review", owner |-> NoWorker, fetched |-> Cardinality(worker[w].pages),
             coverage |-> worker[w].coverage] \in Crawl
        BY <3>1 DEF Crawl
      <3>4. jobs' \in [Job -> Crawl]
        BY <2>8, <3>3 DEF Complete, CompleteAs
      <3>5. Idle \in Attempt /\ Idle.pc = "idle"
        BY DEF Idle, Attempt, Coverage
      <3> QED BY <2>8, <3>2, <3>4, <3>5 DEF Complete, CompleteAs
    <2>9. ASSUME NEW w \in Worker, GiveUp(w) \/ Fail(w) \/ Crash(w)
          PROVE  TypeOK'
      <3>1. Idle \in Attempt /\ Idle.pc = "idle"
        BY DEF Idle, Attempt, Coverage
      <3>2. CASE GiveUp(w)
        <4>1. [Idle EXCEPT !.pc = "failing", !.job = worker[w].job] \in Attempt
          BY DEF Idle, Attempt, Coverage
        <4>2. [Idle EXCEPT !.pc = "failing", !.job = worker[w].job].job = worker[w].job
          BY DEF Idle
        <4> QED BY <3>2, <4>1, <4>2 DEF GiveUp
      <3>3. CASE Fail(w)
        <4>1. ASSUME NEW j \in Job
              PROVE  [jobs[j] EXCEPT !.state = "failed", !.owner = NoWorker,
                                     !.coverage = "partial"] \in Crawl
          <5>1. jobs[j] \in Crawl
            BY <4>1
          <5> QED BY <5>1, FailedCrawl
        <4>2. jobs' \in [Job -> Crawl]
          BY <3>3, <4>1 DEF Fail
        <4> QED BY <3>1, <3>3, <4>2 DEF Fail
      <3>4. CASE Crash(w)
        BY <3>1, <3>4, SourceCrawlAssumption DEF Crash, Lapse
      <3> QED BY <2>9, <3>2, <3>3, <3>4
    <2>10. ASSUME NEW a \in Reviewer, Open(a) \/ Abandon(a)
           PROVE  TypeOK'
      <3>1. NoLinks \in [Doc -> Lifecycle]
        BY DEF NoLinks, Lifecycle
      <3>2. NoReview \in Review /\ NoReview.pc = "idle"
        BY <3>1 DEF NoReview, Review
      <3>3. CASE Open(a)
        <4> PICK j \in Job, selected \in SUBSET Doc :
                 review' = [review EXCEPT ![a] = [NoReview EXCEPT
                     !.pc = "opened", !.job = j, !.revision = source.revision,
                     !.selected = selected]]
          BY <3>3 DEF Open, Linked
        <4> DEFINE new == [NoReview EXCEPT !.pc = "opened", !.job = j,
                               !.revision = source.revision, !.selected = selected]
        <4>1. new \in Review /\ new.job = j
          BY <3>1 DEF NoReview, Review, Linked, Source
        <4>2. review' = [review EXCEPT ![a] = new]
          OBVIOUS
        <4> HIDE DEF new
        <4> QED BY <3>3, <4>1, <4>2 DEF Open
      <3>4. CASE Abandon(a)
        BY <3>2, <3>4 DEF Abandon
      <3> QED BY <2>10, <3>3, <3>4
    <2>11. ASSUME NEW a \in Reviewer, Submit(a)
           PROVE  TypeOK'
      <3> DEFINE new == [review[a] EXCEPT !.pc = "checked", !.seen = links[review[a].job]]
      <3>1. review[a].job \in Job
        BY <2>11 DEF Submit
      <3>2. new \in Review /\ new.job = review[a].job
        BY <3>1 DEF Review
      <3>3. review' = [review EXCEPT ![a] = new]
        BY <2>11 DEF Submit
      <3> HIDE DEF new
      <3> QED BY <2>11, <3>1, <3>2, <3>3 DEF Submit
    <2>12. ASSUME NEW a \in Reviewer, Publish(a)
           PROVE  TypeOK'
      <3>1. review[a].job \in Job /\ review[a].selected \in SUBSET Doc
        BY <2>12 DEF Publish, PublishJob, Review
      <3>2. docs' \in [Doc -> Lifecycle]
        BY <2>12 DEF Publish, PublishJob, Lifecycle
      <3>3. source' \in Source
        BY <2>12 DEF Publish, PublishJob, Source
      <3>4. [run[review[a].job] EXCEPT !.state = "published"] \in Run
        <4>1. run[review[a].job] \in Run
          BY <3>1
        <4> QED BY <4>1, PublishedRun
      <3>5. run' \in [Job -> Run]
        BY <2>12, <3>1, <3>4 DEF Publish, PublishJob
      <3>6. NoLinks \in [Doc -> Lifecycle]
        BY DEF NoLinks, Lifecycle
      <3>7. NoReview \in Review /\ NoReview.pc = "idle"
        BY <3>6 DEF NoReview, Review
      <3> QED BY <2>12, <3>1, <3>2, <3>3, <3>5, <3>7 DEF Publish, PublishJob
    <2>13. CASE UNCHANGED vars
      BY <2>13 DEF vars
    <2> QED
      BY <2>1, <2>2, <2>3, <2>4, <2>5, <2>6, <2>7, <2>8, <2>9, <2>10, <2>11, <2>12, <2>13
      DEF Next, WorkerStep
  <1> QED BY <1>2, TypeOKInitially, PTL DEF Spec

-----------------------------------------------------------------------------
(* Evidence is inductive: one lemma for each action. *)

\* The actions of reviewers before they publish, and those that only move the
\* revision or the leases.
LEMMA QuietKeepsEvidence ==
    ASSUME TypeOK, Evidence,
           UNCHANGED <<docs, jobs, links, run, published, worker>>,
           source'.state = source.state, expired \subseteq expired'
    PROVE  Evidence'
  <1>1. Ordered' /\ Fresh' /\ ReviewIsItsEvidence' /\ PublishedWasReviewed'
    BY DEF Evidence, Ordered, Fresh, ReviewIsItsEvidence, PublishedWasReviewed, Linked
  <1>2. Progress'
    <2>1. ASSUME NEW w \in Worker, Holds(w)'
          PROVE  Holds(w)
      BY <2>1 DEF Holds
    <2> QED BY <2>1 DEF Evidence, Progress, Linked, Quarantined
  <1>3. LatestIsLive' /\ VerdictFollowsReview'
    BY DEF Evidence, LatestIsLive, Latest, Linked, Safe, VerdictFollowsReview
  <1> QED BY <1>1, <1>2, <1>3 DEF Evidence

LEMMA QueueKeepsEvidence ==
    ASSUME TypeOK, Evidence, NEW j \in Job, NEW replaced \in BOOLEAN, Queue(j, replaced)
    PROVE  Evidence'
  <1>1. /\ UNCHANGED <<docs, expired, links, run, published, worker>>
        /\ jobs' \in [Job -> Crawl] /\ jobs[j].state = "none" /\ jobs'[j].state = "queued"
        /\ \A k \in Job \ {j} : jobs'[k] = jobs[k]
    <2>0. jobs[j] \in Crawl
      BY DEF TypeOK
    <2>1. /\ [jobs[j] EXCEPT !.state = "queued"] \in Crawl
          /\ [jobs[j] EXCEPT !.state = "queued"].state = "queued"
      BY <2>0, QueuedCrawl
    <2>2. /\ UNCHANGED <<docs, expired, links, run, published, worker>>
          /\ jobs[j].state = "none"
          /\ jobs' = [jobs EXCEPT ![j] = [jobs[j] EXCEPT !.state = "queued"]]
      BY DEF Queue, NextJob
    <2>3. jobs \in [Job -> Crawl]
      BY DEF TypeOK
    <2> DEFINE new == [jobs[j] EXCEPT !.state = "queued"]
    <2> HIDE DEF new
    <2>4. new \in Crawl /\ new.state = "queued" /\ jobs' = [jobs EXCEPT ![j] = new]
      BY <2>1, <2>2 DEF new
    <2> QED BY <2>2, <2>3, <2>4
  <1>2. source'.state = source.state
    BY DEF Queue, TypeOK, Source
  <1>3. Ordered'
    BY <1>1, SourceCrawlAssumption DEF Evidence, Ordered, Queue, NoneActive, NextJob
  <1>4. Fresh' /\ ReviewIsItsEvidence' /\ PublishedWasReviewed'
    BY <1>1 DEF Evidence, Fresh, ReviewIsItsEvidence, PublishedWasReviewed, Linked
  <1>5. Progress'
    <2>1. ASSUME NEW w \in Worker, Holds(w)'
          PROVE  Holds(w)
      BY <1>1, <2>1 DEF Holds, TypeOK
    <2> QED BY <1>1, <2>1 DEF Evidence, Progress, Linked, Quarantined
  <1>6. LatestIsLive'
    <2>1. Linked(j)' = {}
      BY <1>1 DEF Evidence, Fresh, Linked, NoLinks
    <2>2. ASSUME NEW k \in Job, k # j, Latest(k)'
          PROVE  Latest(k)
      BY <1>1, <2>2, SourceCrawlAssumption DEF Latest, Queue, NextJob
    <2> QED BY <1>1, <2>1, <2>2 DEF Evidence, LatestIsLive, Linked, Safe
  <1>7. VerdictFollowsReview'
    BY <1>1, <1>2 DEF Evidence, VerdictFollowsReview
  <1> QED BY <1>3, <1>4, <1>5, <1>6, <1>7 DEF Evidence

\* Two processes never hold the same job.
LEMMA HoldersDiffer ==
    ASSUME NEW v \in Worker, NEW w \in Worker, Holds(v), Holds(w), v # w
    PROVE  worker[v].job # worker[w].job
  BY DEF Holds

LEMMA ClaimKeepsEvidence ==
    ASSUME TypeOK, Evidence, NEW w \in Worker, Claim(w)
    PROVE  Evidence'
  <1> PICK j \in Job : Claimable(j) /\ ClaimJob(w, j, jobs[j].state = "running")
    BY DEF Claim
  <1>1. /\ UNCHANGED <<source, docs, run, published>>
        /\ jobs'[j].state = "running" /\ jobs'[j].owner = w
        /\ jobs[j].state \in {"queued", "running"}
        /\ \A k \in Job \ {j} : jobs'[k] = jobs[k]
        /\ expired' = expired \ {j}
    BY DEF ClaimJob, Claimable, TypeOK, NoCrawl
  <1>2. /\ worker'[w].pc = "claimed" /\ worker'[w].job = j
        /\ \A v \in Worker \ {w} : worker'[v] = worker[v]
    BY DEF ClaimJob, TypeOK, Idle
  <1>3. links'[j] = NoLinks /\ \A k \in Job \ {j} : links'[k] = links[k]
    BY <1>1 DEF ClaimJob, TypeOK, Evidence, Fresh
  <1>4. Ordered' /\ Fresh' /\ ReviewIsItsEvidence' /\ VerdictFollowsReview'
    BY <1>1, <1>3 DEF Evidence, Ordered, Fresh, ReviewIsItsEvidence, Linked, VerdictFollowsReview
  <1>5. Linked(j)' = {}
    BY <1>3 DEF Linked, NoLinks
  <1>6. Progress'
    <2>1. ASSUME NEW v \in Worker, v # w, Holds(v)'
          PROVE  Holds(v) /\ worker[v].job # j
      BY <1>1, <1>2, <2>1 DEF Holds, TypeOK
    <2> QED BY <1>2, <1>3, <1>1, <1>5, <2>1 DEF Evidence, Progress, Linked, Quarantined, TypeOK
  <1>7. LatestIsLive'
    BY <1>1, <1>3, <1>5 DEF Evidence, LatestIsLive, Latest, Linked, Safe
  <1>8. PublishedWasReviewed'
    BY <1>1, <1>3 DEF Evidence, PublishedWasReviewed, NoLinks
  <1> QED BY <1>4, <1>6, <1>7, <1>8 DEF Evidence

LEMMA CollectKeepsEvidence ==
    ASSUME TypeOK, Evidence, NEW w \in Worker, Collect(w)
    PROVE  Evidence'
  <1> PICK pages \in SUBSET Doc, coverage \in Coverage, taint \in SUBSET Doc :
          /\ taint \subseteq pages
          /\ worker' = [worker EXCEPT ![w] = [@ EXCEPT !.pc = "collected", !.pages = pages,
                            !.todo = pages, !.taint = taint, !.coverage = coverage]]
    BY DEF Collect
  <1>0. worker[w] \in Attempt
    BY DEF TypeOK
  <1>1. /\ worker'[w].pc = "collected" /\ worker'[w].job = worker[w].job
        /\ worker'[w].pages = pages /\ worker'[w].todo = pages /\ worker'[w].taint = taint
        /\ \A v \in Worker \ {w} : worker'[v] = worker[v]
    BY <1>0 DEF TypeOK, Attempt
  <1>2. UNCHANGED <<source, docs, jobs, expired, links, run, published>> /\ worker[w].pc = "claimed"
    BY DEF Collect
  <1>3. Progress'
    <2>1. ASSUME NEW v \in Worker, Holds(v)'
          PROVE  Holds(v)
      BY <1>1, <1>2, <2>1 DEF Holds
    <2>2. Holds(w) => Linked(worker[w].job) = {} /\ Quarantined(worker[w].job) = {}
      BY <1>2 DEF Evidence, Progress, Linked, Quarantined
    <2> QED BY <1>1, <1>2, <2>1, <2>2 DEF Evidence, Progress, Linked, Quarantined
  <1> QED
    BY <1>2, <1>3
    DEF Evidence, Ordered, Fresh, ReviewIsItsEvidence, Linked, LatestIsLive, Latest, Safe,
        VerdictFollowsReview, PublishedWasReviewed

\* An active crawl is the latest one, and there is only one latest crawl.
LEMMA ActiveIsLatest ==
    ASSUME TypeOK, Ordered, NEW j \in Job, jobs[j].state \in {"queued", "running"}
    PROVE  Latest(j) /\ \A k \in Job : Latest(k) => k = j
  <1>1. Latest(j)
    BY DEF Ordered, Latest
  <1> QED BY <1>1, SourceCrawlAssumption DEF Latest

LEMMA StorePageKeepsEvidence ==
    ASSUME TypeOK, Evidence, NEW w \in Worker, StorePage(w)
    PROVE  Evidence'
  <1> PICK d \in Doc : Store(w, d, Assessed(w, d), Assessed(w, d))
    BY DEF StorePage
  <1> DEFINE s == Assessed(w, d)
             new == [worker[w] EXCEPT
                  !.todo = worker[w].todo \ {d},
                  !.changed = worker[w].changed \cup (IF docs[d] # s THEN {d} ELSE {})]
  <1> PICK j \in Job : j = worker[w].job
    BY DEF Store, TypeOK
  <1>1. /\ s \in Lifecycle \ {"none"} /\ (s = "quarantined" <=> d \in worker[w].taint)
        /\ s = "published" => docs[d] = "published"
    BY DEF Assessed, Lifecycle
  <1>2. worker[w] \in Attempt /\ worker' = [worker EXCEPT ![w] = new]
    BY DEF Store, TypeOK
  <1>3. /\ new.pc = worker[w].pc /\ new.job = j /\ new.pages = worker[w].pages
        /\ new.taint = worker[w].taint /\ new.todo = worker[w].todo \ {d}
    BY <1>2 DEF Attempt
  <1> HIDE DEF new
  <1>4. /\ UNCHANGED <<source, jobs, expired, run, published>>
        /\ Holds(w) /\ worker[w].pc = "collected" /\ d \in worker[w].todo
        /\ jobs[j].state = "running"
    BY DEF Store, Holds
  <1>5. /\ links' \in [Job -> [Doc -> Lifecycle]] /\ links'[j][d] = s
        /\ \A e \in Doc \ {d} : links'[j][e] = links[j][e]
        /\ \A k \in Job \ {j} : links'[k] = links[k]
        /\ docs'[d] = s /\ \A e \in Doc \ {d} : docs'[e] = docs[e]
    BY <1>1 DEF Store, TypeOK
  <1> HIDE DEF s
  <1>6. Ordered' /\ Fresh' /\ ReviewIsItsEvidence' /\ VerdictFollowsReview'
    BY <1>4, <1>5 DEF Evidence, Ordered, Fresh, ReviewIsItsEvidence, Linked, VerdictFollowsReview
  <1>7. Progress'
    <2>1. ASSUME NEW v \in Worker, v # w, Holds(v)'
          PROVE  Holds(v) /\ worker'[v] = worker[v] /\ worker[v].job \in Job \ {j}
      <3>1. Holds(v) /\ worker'[v] = worker[v]
        BY <1>2, <1>4, <2>1 DEF Holds, TypeOK
      <3> QED BY <2>1, <3>1, <1>4, HoldersDiffer DEF Holds, TypeOK
    <2>2. /\ worker'[w].todo \subseteq worker'[w].pages /\ worker'[w].taint \subseteq worker'[w].pages
          /\ worker'[w].pc = "collected" /\ worker'[w].job = j
      BY <1>2, <1>3, <1>4 DEF TypeOK, Evidence, Progress
    <2>3. Linked(j) = worker[w].pages \ worker[w].todo
          /\ Quarantined(j) = worker[w].taint \ worker[w].todo
          /\ worker[w].todo \subseteq worker[w].pages
      BY <1>4 DEF Evidence, Progress
    <2>4. Linked(j)' = Linked(j) \cup {d}
      BY <1>1, <1>5 DEF Linked
    <2>5. Quarantined(j)' = IF d \in worker[w].taint THEN Quarantined(j) \cup {d}
                            ELSE Quarantined(j) \ {d}
      BY <1>1, <1>5 DEF Quarantined
    <2>6. worker'[w].todo = worker[w].todo \ {d} /\ worker'[w].pages = worker[w].pages
          /\ worker'[w].taint = worker[w].taint
      BY <1>2, <1>3 DEF TypeOK
    <2>7. Linked(j)' = worker'[w].pages \ worker'[w].todo
          /\ Quarantined(j)' = worker'[w].taint \ worker'[w].todo
      BY <2>3, <2>4, <2>5, <2>6, <1>4
    <2>8. ASSUME NEW v \in Worker, v # w, Holds(v)'
          PROVE  /\ Linked(worker[v].job)' = Linked(worker[v].job)
                 /\ Quarantined(worker[v].job)' = Quarantined(worker[v].job)
                 /\ worker'[v] = worker[v] /\ Holds(v)
      BY <2>1, <2>8, <1>5 DEF Linked, Quarantined
    <2> QED BY <2>2, <2>7, <2>8, <1>4 DEF Evidence, Progress
  <1>8. LatestIsLive'
    <2>1. ASSUME NEW k \in Job, Latest(k)'
          PROVE  k = j /\ Latest(j)
      BY <1>4, <2>1, ActiveIsLatest DEF Latest, Evidence
    <2> QED BY <1>5, <2>1 DEF Evidence, LatestIsLive, Linked
  <1>9. PublishedWasReviewed'
    <2> SUFFICES ASSUME NEW e \in Doc, docs'[e] = "published"
                 PROVE  \E i \in Job : /\ e \in published'[i]
                                       /\ \A k \in Job : k >= i => links'[k][e] # "quarantined"
      BY DEF PublishedWasReviewed
    <2>1. docs[e] = "published"
      BY <1>1, <1>5
    <2>2. PICK i \in Job : /\ e \in published[i]
                           /\ \A k \in Job : k >= i => links[k][e] # "quarantined"
      BY <2>1 DEF Evidence, PublishedWasReviewed
    <2>3. links'[j][e] # "quarantined" \/ e # d
      BY <1>5
    <2> QED BY <1>4, <1>5, <2>2, <2>3
  <1> QED BY <1>6, <1>7, <1>8, <1>9 DEF Evidence

LEMMA PersistKeepsEvidence ==
    ASSUME TypeOK, Evidence, NEW w \in Worker, Persist(w)
    PROVE  Evidence'
  <1> PICK j \in Job : j = worker[w].job
    BY DEF Persist, PersistRun, TypeOK
  <1>1. /\ UNCHANGED <<source, docs, jobs, expired, links, published>>
        /\ Holds(w) /\ worker[w].pc = "collected" /\ worker[w].todo = {}
        /\ jobs[j].state = "running"
    BY DEF Persist, PersistRun, Holds
  <1>2. /\ worker'[w].pc = "persisted" /\ worker'[w].job = j
        /\ worker'[w].pages = worker[w].pages /\ worker'[w].taint = worker[w].taint
        /\ \A v \in Worker \ {w} : worker'[v] = worker[v]
    <2>1. worker[w] \in Attempt /\ worker' = [worker EXCEPT ![w] = [@ EXCEPT !.pc = "persisted"]]
      BY DEF Persist, PersistRun, TypeOK
    <2> QED BY <2>1 DEF TypeOK, Attempt
  <1>3. /\ run'[j].state # "none"
        /\ run'[j].pages = worker[w].pages /\ run'[j].taint = worker[w].taint
        /\ \A k \in Job \ {j} : run'[k] = run[k]
    BY DEF Persist, PersistRun, TypeOK
  <1>4. Ordered' /\ Fresh' /\ ReviewIsItsEvidence' /\ VerdictFollowsReview' /\ PublishedWasReviewed'
    BY <1>1, <1>3 DEF Evidence, Ordered, Fresh, ReviewIsItsEvidence, Linked,
                      VerdictFollowsReview, PublishedWasReviewed
  <1>5. LatestIsLive'
    BY <1>1 DEF Evidence, LatestIsLive, Latest, Linked
  <1>6. Progress'
    <2>1. Linked(j) = worker[w].pages /\ Quarantined(j) = worker[w].taint
      BY <1>1 DEF Evidence, Progress
    <2>2. ASSUME NEW v \in Worker, v # w, Holds(v)'
          PROVE  Holds(v) /\ worker'[v] = worker[v] /\ worker[v].job \in Job \ {j}
      <3>1. Holds(v) /\ worker'[v] = worker[v]
        BY <1>1, <1>2, <2>2 DEF Holds
      <3> QED BY <2>2, <3>1, <1>1, HoldersDiffer DEF Holds, TypeOK
    <2> QED BY <1>1, <1>2, <1>3, <2>1, <2>2 DEF Evidence, Progress, Linked, Quarantined
  <1> QED BY <1>4, <1>5, <1>6 DEF Evidence

LEMMA CompleteKeepsEvidence ==
    ASSUME TypeOK, Evidence, NEW w \in Worker, Complete(w)
    PROVE  Evidence'
  <1> PICK j \in Job : j = worker[w].job
    BY DEF Complete, CompleteAs, TypeOK
  <1>1. /\ UNCHANGED <<docs, expired, links, run, published>>
        /\ Holds(w) /\ worker[w].pc = "persisted" /\ jobs[j].state = "running"
    BY DEF Complete, CompleteAs, Holds
  <1>2. /\ jobs'[j].state = "review" /\ jobs'[j].coverage = worker[w].coverage
        /\ \A k \in Job \ {j} : jobs'[k] = jobs[k]
    BY DEF Complete, CompleteAs, TypeOK
  <1>3. worker'[w].pc = "idle" /\ \A v \in Worker \ {w} : worker'[v] = worker[v]
    BY DEF Complete, CompleteAs, TypeOK, Idle
  <1>4. source'.state = "quarantined" <=> (worker[w].coverage = "partial" \/ worker[w].taint # {})
    BY DEF Complete, CompleteAs, TypeOK, Source
  <1>5. /\ run[j].state # "none" /\ Linked(j) = run[j].pages
        /\ Quarantined(j) = run[j].taint /\ run[j].taint = worker[w].taint
    BY <1>1 DEF Evidence, Progress
  <1>6. Ordered' /\ Fresh' /\ ReviewIsItsEvidence' /\ PublishedWasReviewed'
    BY <1>1, <1>2, <1>5 DEF Evidence, Ordered, Fresh, ReviewIsItsEvidence, Linked, Quarantined,
                            PublishedWasReviewed
  <1>7. LatestIsLive'
    BY <1>1, <1>2 DEF Evidence, LatestIsLive, Latest, Linked
  <1>8. VerdictFollowsReview'
    <2>1. \A k \in Job : k > j => jobs[k].state = "none"
      BY <1>1, SourceCrawlAssumption DEF Evidence, Ordered
    <2>2. source'.state = "quarantined" <=>
              (jobs'[j].coverage = "partial" \/ \E d \in Doc : links'[j][d] = "quarantined")
      <3>1. (\E d \in Doc : links'[j][d] = "quarantined") <=> worker[w].taint # {}
        BY <1>1, <1>2, <1>5 DEF Quarantined
      <3> QED BY <1>1, <1>2, <1>4, <3>1
    <2>3. ASSUME NEW i \in Job, jobs'[i].state = "review",
                 \A k \in Job : k > i => jobs'[k].state # "review"
          PROVE  i = j
      BY <1>2, <2>1, <2>3, SourceCrawlAssumption
    <2> QED BY <2>2, <2>3 DEF VerdictFollowsReview
  <1>9. Progress'
    <2>1. ASSUME NEW v \in Worker, Holds(v)'
          PROVE  Holds(v) /\ worker'[v] = worker[v]
      <3>1. v # w /\ worker'[v] = worker[v]
        BY <1>3, <2>1 DEF Holds
      <3>2. worker[v].job \in Job /\ worker[v].job # j
        <4>1. worker[v].pc # "idle"
          BY <2>1, <3>1 DEF Holds
        <4>2. worker[v].job \in Job
          BY <4>1 DEF TypeOK
        <4>3. jobs'[worker[v].job].state = "running"
          BY <2>1, <3>1 DEF Holds
        <4> QED BY <1>2, <4>2, <4>3
      <3>3. jobs'[worker[v].job] = jobs[worker[v].job]
        BY <1>2, <3>2
      <3> QED BY <1>1, <2>1, <3>1, <3>3 DEF Holds
    <2> QED BY <1>1, <2>1 DEF Evidence, Progress, Linked, Quarantined
  <1> QED BY <1>6, <1>7, <1>8, <1>9 DEF Evidence

LEMMA StoppingKeepsEvidence ==
    ASSUME TypeOK, Evidence, NEW w \in Worker, GiveUp(w) \/ Fail(w) \/ Crash(w)
    PROVE  Evidence'
  <1>1. UNCHANGED <<source, docs, expired, links, run, published>>
    BY DEF GiveUp, Fail, Crash
  <1>2. worker'[w].pc \in {"idle", "failing"} /\ \A v \in Worker \ {w} : worker'[v] = worker[v]
    <2>1. [Idle EXCEPT !.pc = "failing", !.job = worker[w].job].pc = "failing" /\ Idle.pc = "idle"
      BY DEF Idle
    <2> QED BY <2>1 DEF GiveUp, Fail, Crash, TypeOK
  <1>3. ASSUME NEW k \in Job
        PROVE  jobs'[k] = jobs[k] \/ (jobs[k].state = "running" /\ jobs'[k].state = "failed")
    <2>1. CASE UNCHANGED jobs
      BY <2>1
    <2>2. CASE Fail(w) /\ Holds(w)
      <3>1. worker[w].job \in Job /\ jobs[worker[w].job].state = "running"
        BY <2>2 DEF Holds, TypeOK
      <3>2. jobs' = [jobs EXCEPT ![worker[w].job] = [@ EXCEPT
                        !.state = "failed", !.owner = NoWorker, !.coverage = "partial"]]
        BY <2>2 DEF Fail
      <3>3. jobs[worker[w].job] \in Crawl
        BY <3>1 DEF TypeOK
      <3>4. [jobs[worker[w].job] EXCEPT !.state = "failed", !.owner = NoWorker,
                                        !.coverage = "partial"].state = "failed"
        BY <3>3 DEF Crawl
      <3> QED BY <3>1, <3>2, <3>4 DEF TypeOK
    <2> QED BY <2>1, <2>2 DEF GiveUp, Fail, Crash
  <1>4. Ordered' /\ Fresh' /\ ReviewIsItsEvidence' /\ PublishedWasReviewed'
    BY <1>1, <1>3 DEF Evidence, Ordered, Fresh, ReviewIsItsEvidence, Linked, PublishedWasReviewed
  <1>5. LatestIsLive' /\ VerdictFollowsReview'
    BY <1>1, <1>3 DEF Evidence, LatestIsLive, Latest, Linked, VerdictFollowsReview
  <1>6. Progress'
    <2>1. ASSUME NEW v \in Worker, v # w, Holds(v)'
          PROVE  Holds(v) /\ worker'[v] = worker[v]
      BY <1>1, <1>2, <1>3, <2>1 DEF Holds, TypeOK
    <2> QED BY <1>1, <1>2, <2>1 DEF Evidence, Progress, Linked, Quarantined
  <1> QED BY <1>4, <1>5, <1>6 DEF Evidence

LEMMA PublishKeepsEvidence ==
    ASSUME TypeOK, Evidence, NEW a \in Reviewer, Publish(a)
    PROVE  Evidence'
  <1> PICK j \in Job : j = review[a].job
    BY DEF Publish, PublishJob, TypeOK
  <1>1. /\ UNCHANGED <<jobs, expired, links, worker>>
        /\ Latest(j) /\ jobs[j].state = "review"
        /\ source.state # "quarantined" /\ source'.state = "published"
        /\ published[j] = {}
    BY DEF Publish, PublishJob, Reviewable
  <1>2. /\ run'[j].state # "none" /\ run'[j].pages = run[j].pages /\ run'[j].taint = run[j].taint
        /\ \A k \in Job \ {j} : run'[k] = run[k]
    BY DEF Publish, PublishJob, TypeOK, Run
  <1>3. /\ published'[j] = review[a].selected
        /\ \A k \in Job \ {j} : published'[k] = published[k]
    BY DEF Publish, PublishJob, TypeOK
  <1>4. \A d \in Doc : /\ Safe(docs[d]) <=> Safe(docs'[d])
                       /\ docs'[d] = "published" => docs[d] = "published" \/ d \in review[a].selected
    BY DEF Publish, PublishJob, Safe
  <1>5. \A d \in review[a].selected : links[j][d] # "quarantined"
    BY DEF Publish, PublishJob, Safe
  <1>6. Ordered' /\ Fresh' /\ ReviewIsItsEvidence' /\ LatestIsLive' /\ VerdictFollowsReview'
    BY <1>1, <1>2, <1>4 DEF Evidence, Ordered, Fresh, ReviewIsItsEvidence, Linked, Latest,
                            LatestIsLive, Safe, VerdictFollowsReview
  <1>7. Progress'
    <2>1. ASSUME NEW w \in Worker, Holds(w)'
          PROVE  Holds(w) /\ worker[w].job # j
      BY <1>1, <2>1 DEF Holds
    <2> QED BY <1>1, <1>2, <2>1 DEF Evidence, Progress, Linked, Quarantined, Holds, TypeOK
  <1>8. PublishedWasReviewed'
    <2> SUFFICES ASSUME NEW d \in Doc, docs'[d] = "published"
                 PROVE  \E i \in Job : /\ d \in published'[i]
                                       /\ \A k \in Job : k >= i => links'[k][d] # "quarantined"
      BY DEF PublishedWasReviewed
    <2>1. CASE docs[d] = "published"
      BY <1>1, <1>3, <2>1 DEF Evidence, PublishedWasReviewed
    <2>2. CASE d \in review[a].selected
      <3>1. \A k \in Job : k > j => links[k][d] = "none"
        BY <1>1 DEF Latest, Evidence, Fresh, NoLinks
      <3>2. \A k \in Job : k >= j => links'[k][d] # "quarantined"
        BY <1>1, <1>5, <2>2, <3>1, SourceCrawlAssumption
      <3> QED BY <1>3, <2>2, <3>2
    <2> QED BY <1>4, <2>1, <2>2
  <1> QED BY <1>6, <1>7, <1>8 DEF Evidence

LEMMA EvidenceInvariance == Spec => []IInv
  <1>1. Init => IInv
    <2> SUFFICES ASSUME Init
                 PROVE  Evidence
      BY TypeOKInitially DEF IInv
    <2> USE DEF Init, NoCrawl, NoRun, NoLinks, Idle
    <2>1. Ordered /\ Fresh /\ Progress
      BY DEF Ordered, Fresh, Progress, Holds
    <2>2. ReviewIsItsEvidence /\ LatestIsLive /\ VerdictFollowsReview /\ PublishedWasReviewed
      BY DEF ReviewIsItsEvidence, LatestIsLive, Linked, VerdictFollowsReview, PublishedWasReviewed
    <2> QED BY <2>1, <2>2 DEF Evidence
  <1>2. IInv /\ TypeOK' /\ [Next]_vars => IInv'
    <2> SUFFICES ASSUME TypeOK, Evidence, [Next]_vars
                 PROVE  Evidence'
      BY DEF IInv
    <2>1. ASSUME NEW j \in Job, Expire(j)
          PROVE  Evidence'
      BY <2>1, QuietKeepsEvidence DEF Expire
    <2>2. CASE ChangeVisibility
      <3>1. source'.state = source.state
        BY <2>2 DEF ChangeVisibility, TypeOK, Source
      <3> QED BY <2>2, <3>1, QuietKeepsEvidence DEF ChangeVisibility
    <2>3. ASSUME NEW a \in Reviewer, Open(a) \/ Submit(a) \/ Abandon(a)
          PROVE  Evidence'
      BY <2>3, QuietKeepsEvidence DEF Open, Submit, Abandon
    <2>4. CASE UNCHANGED vars
      BY <2>4, QuietKeepsEvidence DEF vars
    <2> QED
      BY <2>1, <2>2, <2>3, <2>4, QueueKeepsEvidence, ClaimKeepsEvidence, CollectKeepsEvidence,
         StorePageKeepsEvidence, PersistKeepsEvidence, CompleteKeepsEvidence,
         StoppingKeepsEvidence, PublishKeepsEvidence
      DEF Next, WorkerStep
  <1> QED BY <1>1, <1>2, TypeInvariance, PTL DEF Spec

\* What a reviewer sees of a crawl is what its last attempt fetched and assessed,
\* the same pages its typed run was made from.
THEOREM ReviewsShowTheirEvidence == Spec => []ReviewIsItsEvidence
  <1>1. IInv => ReviewIsItsEvidence
    BY DEF IInv, Evidence
  <1> QED BY <1>1, EvidenceInvariance, PTL

\* The frozen assessments of the latest crawl (crawl_job_documents) agree with the live
\* documents, which later attempts and publications write as well.
THEOREM EvidenceStaysLive == Spec => []EvidenceIsLive
  <1>1. IInv => EvidenceIsLive
    BY DEF IInv, Evidence, LatestIsLive, EvidenceIsLive
  <1> QED BY <1>1, EvidenceInvariance, PTL

\* The source is quarantined exactly when its last reviewed crawl says so, whatever
\* crawls were queued, failed or published since (completeJob, PublishSource).
THEOREM VerdictsFollowReviews == Spec => []VerdictFollowsReview
  <1>1. IInv => VerdictFollowsReview
    BY DEF IInv, Evidence
  <1> QED BY <1>1, EvidenceInvariance, PTL

\* No document is served as published that nobody chose, or that a crawl after
\* its publication has quarantined.
THEOREM PublishedIsReviewed == Spec => []PublishedWasReviewed
  <1>1. IInv => PublishedWasReviewed
    BY DEF IInv, Evidence
  <1> QED BY <1>1, EvidenceInvariance, PTL

\* Every publication is of a crawl that no other crawl has followed: PublishSource checks
\* it again in the transaction that publishes.
THEOREM PublicationsAreLatest == Spec => PublishesTheLatest
  <1>1. TypeOK /\ [Next]_vars => [\A j \in Job : published'[j] # published[j] => Latest(j)]_vars
    <2> SUFFICES ASSUME TypeOK, Next, NEW j \in Job, published'[j] # published[j]
                 PROVE  Latest(j)
      BY DEF vars
    <2>1. PICK a \in Reviewer : Publish(a)
      BY DEF Next, WorkerStep, Queue, Expire, ChangeVisibility, Claim, ClaimJob, Collect,
             StorePage, Store, Persist, PersistRun, Complete, CompleteAs, GiveUp, Fail, Crash,
             Open, Submit, Abandon
    <2> QED BY <2>1 DEF Publish, PublishJob, TypeOK
  <1> QED BY <1>1, TypeInvariance, PTL DEF Spec, PublishesTheLatest
=============================================================================
