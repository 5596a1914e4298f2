---------------------------- MODULE SourceLocks ----------------------------
(***************************************************************************)
(* The row locks of the transactions that work on one source at a time:    *)
(* those of SourceCrawl, whose steps are atomic there because of them.  A  *)
(* transaction takes its locks in the order of its statements, waits while *)
(* another one has the row, and lets all of them go when it ends.          *)
(***************************************************************************)
EXTENDS Naturals, Sequences, FiniteSets

CONSTANTS Tx,     \* database connections
          NoTx,   \* nobody
          Path    \* the transactions that run

VARIABLES path,   \* the transaction a connection is in
          done,   \* how many of its locks it has
          holder  \* who has a row locked

vars == <<path, done, holder>>

\* The source, its latest crawl job, the documents linked to it, its typed run.
Row == {"source", "job", "documents", "run"}

CrawlerPath == {"storePage", "persist", "complete"}
AllPaths == CrawlerPath \cup {"heartbeat", "queue", "updateSource", "publish"}

ASSUME SourceLocksAssumption == Path \subseteq AllPaths /\ NoTx \notin Tx

\* The rows a transaction locks, in order.  persist inserts the run, whose
\* foreign key locks the source row against FOR UPDATE.  heartbeat is any of the
\* statements that touch the job alone, queue any that insert one.
Locks ==
    [storePage |-> <<"job", "source", "documents">>,
     persist |-> <<"job", "source", "run">>,
     complete |-> <<"job", "source">>,
     heartbeat |-> <<"job">>,
     queue |-> <<"source">>,
     updateSource |-> <<"source", "documents">>,
     publish |-> <<"source", "job", "documents", "run">>]

\* Mutated: completeJob writes the source before it checks its lease.
OrderSourceFirst(p) == IF p = "complete" THEN <<"source", "job">> ELSE Locks[p]

Order(p) == Locks[p]

Needs(t, row) == path[t] \in Path /\ done[t] < Len(Order(path[t])) /\ Order(path[t])[done[t] + 1] = row

Waits(t, row) == Needs(t, row) /\ holder[row] \notin {NoTx, t}

Held(t) == {row \in Row : holder[row] = t}

TypeOK ==
    /\ path \in [Tx -> Path \cup {"none"}]
    /\ done \in [Tx -> 0..4]
    /\ holder \in [Row -> Tx \cup {NoTx}]

Init ==
    /\ path = [t \in Tx |-> "none"]
    /\ done = [t \in Tx |-> 0]
    /\ holder = [row \in Row |-> NoTx]

Begin(t, p) ==
    /\ path[t] = "none"
    /\ path' = [path EXCEPT ![t] = p]
    /\ UNCHANGED <<done, holder>>

Lock(t, row) ==
    /\ Needs(t, row) /\ holder[row] = NoTx
    /\ holder' = [holder EXCEPT ![row] = t]
    /\ done' = [done EXCEPT ![t] = @ + 1]
    /\ UNCHANGED path

\* COMMIT, or ROLLBACK: a check on a locked row fails, the connection breaks, or
\* PostgreSQL ends a circular wait.
End(t) ==
    /\ path[t] # "none"
    /\ path' = [path EXCEPT ![t] = "none"]
    /\ done' = [done EXCEPT ![t] = 0]
    /\ holder' = [row \in Row |-> IF holder[row] = t THEN NoTx ELSE holder[row]]

Next ==
    \E t \in Tx :
        \/ \E p \in Path : Begin(t, p)
        \/ \E row \in Row : Lock(t, row)
        \/ End(t)

Spec == Init /\ [][Next]_vars

-----------------------------------------------------------------------------
\* No transactions wait for one another in a circle: PostgreSQL would end one of
\* them with an error, a crawl would fail or a publication be refused for nothing.
NoCircularWait ==
    ~ \E S \in (SUBSET Tx) \ {{}} :
        \A t \in S : \E row \in Row : Waits(t, row) /\ holder[row] \in S

\* "All crawler paths that can create or reassess evidence take this row first"
\* (PublishSource, of the source row it locks): one that waits for it has no row.
SourceRowFirst ==
    \A t \in Tx : path[t] \in CrawlerPath /\ Waits(t, "source") => Held(t) = {}
=============================================================================
