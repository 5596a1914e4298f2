---------------------------- MODULE ReportOutbox ----------------------------
(***************************************************************************)
(* The support-submission outbox: internal/reporting with the statements   *)
(* of internal/store it runs.                                              *)
(*                                                                         *)
(* A client's call stores a row and then its audit event; a repeated call  *)
(* with the same idempotency key finds the row of the first one.  Each     *)
(* worker is one process running RunDelivery under the supervisor: it      *)
(* claims a batch under a lease, sends the rows of the batch one by one    *)
(* and records each outcome, provided that it still holds the row.  A      *)
(* worker that finds that it does not, or whose process stops, is started  *)
(* again with a new owner.                                                 *)
(*                                                                         *)
(* A lapse is a claim that ends without its outcome recorded: the worker   *)
(* stops with a batch in hand, or is too slow for its lease.  MaxLapses    *)
(* bounds how often that happens in a behaviour.                           *)
(***************************************************************************)
EXTENDS LeasedRows

CONSTANTS Id,          \* submission ids, numbered in the order of creation
          Key, NoKey,  \* (deployment, actor, kind, idempotency digest)
          Client, Worker,
          BatchSize,   \* reportDeliveryBatchSize
          MaxAttempts, \* reportDeliveryMaxAttempts
          RetryDelay,  \* RetryDelay[n] = reportDeliveryRetryDelay(n), in ticks
          MaxLapses    \* bound of the model, see above

ASSUME ReportOutboxAssumption ==
    /\ Id \subseteq Nat \ {0}
    /\ NoKey \notin Key
    /\ IsFiniteSet(Worker)
    /\ BatchSize \in Nat \ {0}
    /\ MaxAttempts \in Nat \ {0}
    /\ DOMAIN RetryDelay = 1..MaxAttempts
    /\ \A n \in 1..MaxAttempts : RetryDelay[n] \in Nat
    /\ MaxLapses \in Nat

VARIABLES
    rows,      \* the table report_submissions
    keyOf,     \* the unique index on the idempotency columns
    call,      \* the submission each client's call has stored and not yet audited, or 0
    acked,     \* the ids returned to callers, by key
    pc,        \* "down", "polling", "working" or "answered", by worker
    owner,     \* the lease owner the worker drew when it started
    batch,     \* the claimed submissions it has yet to record
    copy,      \* the Attempts of those submissions as the claim returned them
    cur,       \* the submission it has sent and not yet recorded, or 0
    result,    \* how that delivery ended
    sent,      \* history: deliveries made, by submission
    received,  \* history: submissions the destination has taken
    refused,   \* history: submissions whose delivery failed for good
    lapses     \* lapses so far

tableVars  == <<rows, keyOf>>
clientVars == <<call, acked>>
workerVars == <<pc, owner, batch, copy, cur, result>>
history    == <<sent, received, refused>>
vars       == <<tableVars, clientVars, workerVars, history, lapses>>

Result == {"none", "ok", "retryable", "permanent"}

TypeOK ==
    /\ rows \in [Id -> Row]
    /\ keyOf \in [Id -> Key \cup {NoKey}]
    /\ call \in [Client -> Id \cup {0}]
    /\ acked \in [Key -> SUBSET Id]
    /\ pc \in [Worker -> {"down", "polling", "working", "answered"}]
    /\ owner \in [Worker -> Owner \cup {NoOwner}]
    /\ batch \in [Worker -> SUBSET Id]
    /\ copy \in [Worker -> [Id -> Nat]]
    /\ cur \in [Worker -> Id \cup {0}]
    /\ result \in [Worker -> Result]
    /\ sent \in [Id -> Nat]
    /\ received \subseteq Id
    /\ refused \subseteq Id
    /\ lapses \in 0..MaxLapses

Created == {i \in Id : rows[i].state # "none"}

Live(w) == pc[w] # "down"

Init ==
    /\ rows = [i \in Id |-> NoRow]
    /\ keyOf = [i \in Id |-> NoKey]
    /\ call = [c \in Client |-> 0]
    /\ acked = [k \in Key |-> {}]
    /\ pc = [w \in Worker |-> "down"]
    /\ owner = [w \in Worker |-> NoOwner]
    /\ batch = [w \in Worker |-> {}]
    /\ copy = [w \in Worker |-> [i \in Id |-> 0]]
    /\ cur = [w \in Worker |-> 0]
    /\ result = [w \in Worker |-> "none"]
    /\ sent = [i \in Id |-> 0]
    /\ received = {}
    /\ refused = {}
    /\ lapses = 0

-----------------------------------------------------------------------------
(* Clients: Service.submit, CreateReportSubmission and AppendAudit.        *)

\* Mutated: the INSERT looks at no unique index.
StoreNewUnchecked(c, k) ==
    /\ call[c] = 0
    /\ \E i \in Id \ Created :
          /\ \A j \in Id \ Created : i <= j
          /\ rows' = [rows EXCEPT ![i] = Queued]
          /\ keyOf' = [keyOf EXCEPT ![i] = k]
          /\ call' = [call EXCEPT ![c] = i]
    /\ UNCHANGED <<acked, workerVars, history, lapses>>

\* The INSERT takes effect: no row has this key yet.
StoreNew(c, k) ==
    /\ call[c] = 0
    /\ \A i \in Id : keyOf[i] # k
    /\ \E i \in Id \ Created :
          /\ \A j \in Id \ Created : i <= j
          /\ rows' = [rows EXCEPT ![i] = Queued]
          /\ keyOf' = [keyOf EXCEPT ![i] = k]
          /\ call' = [call EXCEPT ![c] = i]
    /\ UNCHANGED <<acked, workerVars, history, lapses>>

\* ON CONFLICT: the row of the earlier call is returned as it is.
StoreRepeated(c, k) ==
    /\ call[c] = 0
    /\ \E i \in Id :
          /\ keyOf[i] = k
          /\ call' = [call EXCEPT ![c] = i]
    /\ UNCHANGED <<tableVars, acked, workerVars, history, lapses>>

\* The audit event is appended and the caller gets the submission.
Acknowledge(c) ==
    /\ call[c] # 0
    /\ acked' = [acked EXCEPT ![keyOf[call[c]]] = @ \cup {call[c]}]
    /\ call' = [call EXCEPT ![c] = 0]
    /\ UNCHANGED <<tableVars, workerVars, history, lapses>>

\* The audit fails, or the call is lost: the caller gets an error, the row stays.
LoseCall(c) ==
    /\ call[c] # 0
    /\ call' = [call EXCEPT ![c] = 0]
    /\ UNCHANGED <<tableVars, acked, workerVars, history, lapses>>

-----------------------------------------------------------------------------
(* Workers: RunDelivery under Supervisor.Start.                            *)

\* An owner that no row and no worker holds: a random UUID is new.
Fresh(o) ==
    /\ \A i \in Id : rows[i].owner # o
    /\ \A v \in Worker : owner[v] # o

Start(w) ==
    /\ pc[w] = "down"
    /\ \E o \in Owner :
          /\ Fresh(o)
          /\ owner' = [owner EXCEPT ![w] = o]
    /\ pc' = [pc EXCEPT ![w] = "polling"]
    /\ UNCHANGED <<tableVars, clientVars, batch, copy, cur, result, history, lapses>>

\* ClaimReportSubmissions, when it returns rows: the oldest claimable ones.
Claim(w) ==
    LET claim == Oldest({i \in Id : Claimable(rows[i])}, BatchSize)
    IN  /\ pc[w] = "polling"
        /\ claim # {}
        /\ rows' = [i \in Id |->
                       IF i \in claim THEN Claimed(rows[i], owner[w]) ELSE rows[i]]
        /\ batch' = [batch EXCEPT ![w] = claim]
        /\ copy' = [copy EXCEPT ![w] =
                       [i \in Id |-> IF i \in claim THEN rows[i].attempts + 1 ELSE 0]]
        /\ pc' = [pc EXCEPT ![w] = "working"]
        /\ UNCHANGED <<keyOf, clientVars, owner, cur, result, history, lapses>>

\* deliver returns, by its request timeout at the latest.  The destination took the
\* POST, and its answer came back or got lost; or the POST did not get through; or
\* the destination is unsafe or answers with a status that is not retried.
Deliver(w) ==
    /\ pc[w] = "working"
    /\ \E i \in batch[w], r \in {"ok", "retryable", "permanent"} :
          /\ cur' = [cur EXCEPT ![w] = i]
          /\ result' = [result EXCEPT ![w] = r]
          /\ sent' = [sent EXCEPT ![i] = @ + 1]
          /\ \/ r \in {"ok", "retryable"} /\ received' = received \cup {i}
             \/ r \in {"retryable", "permanent"} /\ UNCHANGED received
          /\ refused' = IF r = "permanent" THEN refused \cup {i} ELSE refused
    /\ pc' = [pc EXCEPT ![w] = "answered"]
    /\ UNCHANGED <<tableVars, clientVars, owner, batch, copy, lapses>>

\* What the run of RunDelivery leaves behind when it returns: nothing.
Stopped(w) ==
    /\ pc' = [pc EXCEPT ![w] = "down"]
    /\ owner' = [owner EXCEPT ![w] = NoOwner]
    /\ batch' = [batch EXCEPT ![w] = {}]
    /\ copy' = [copy EXCEPT ![w] = [i \in Id |-> 0]]
    /\ cur' = [cur EXCEPT ![w] = 0]
    /\ result' = [result EXCEPT ![w] = "none"]

\* Mutated: one attempt too many.
SpentLate(w) == result[w] = "permanent" \/ copy[w][cur[w]] > MaxAttempts

\* Mutated: no failure is retried.
SpentAtOnce(w) == result[w] # "ok"

\* The attempt was the last one, or there is no point in another.
Spent(w) == result[w] = "permanent" \/ copy[w][cur[w]] >= MaxAttempts

\* Mutated: running out of attempts ends in Complete instead of Fail.
OutcomeOptimistic(w) ==
    CASE result[w] = "permanent"           -> Settled(rows[cur[w]], "failed")
      [] result[w] # "permanent" /\ (result[w] = "ok" \/ Spent(w))
                                           -> Settled(rows[cur[w]], "delivered")
      [] result[w] = "retryable" /\ ~Spent(w)
                                           -> Requeued(rows[cur[w]], RetryDelay[copy[w][cur[w]]])

\* The row Complete, Fail or Retry writes.
Outcome(w) ==
    CASE result[w] = "ok"              -> Settled(rows[cur[w]], "delivered")
      [] result[w] # "ok" /\ Spent(w)  -> Settled(rows[cur[w]], "failed")
      [] result[w] # "ok" /\ ~Spent(w) -> Requeued(rows[cur[w]], RetryDelay[copy[w][cur[w]]])

Record(w) ==
    /\ pc[w] = "answered"
    /\ HeldBy(rows[cur[w]], owner[w])
    /\ rows' = [rows EXCEPT ![cur[w]] = Outcome(w)]
    /\ batch' = [batch EXCEPT ![w] = @ \ {cur[w]}]
    /\ copy' = [copy EXCEPT ![w][cur[w]] = 0]
    /\ cur' = [cur EXCEPT ![w] = 0]
    /\ result' = [result EXCEPT ![w] = "none"]
    /\ pc' = [pc EXCEPT ![w] = IF batch[w] = {cur[w]} THEN "polling" ELSE "working"]
    /\ UNCHANGED <<keyOf, clientVars, owner, history, lapses>>

\* ErrConflict: RunDelivery returns it, with the rest of its batch untouched.
Conflict(w) ==
    /\ pc[w] = "answered"
    /\ ~HeldBy(rows[cur[w]], owner[w])
    /\ Stopped(w)
    /\ UNCHANGED <<tableVars, clientVars, history, lapses>>

\* The process stops, its context is cancelled or the store fails.
Crash(w) ==
    /\ batch[w] # {}
    /\ lapses < MaxLapses
    /\ lapses' = lapses + 1
    /\ Stopped(w)
    /\ UNCHANGED <<tableVars, clientVars, history>>

\* A worker that still has work on row i when the lease of i runs out.
Overtaken(i) ==
    /\ rows[i].due = 1
    /\ \E w \in Worker : i \in batch[w] /\ HeldBy(rows[i], owner[w])

Tick ==
    /\ \E i \in Id : rows[i].due > 0
    /\ IF \E i \in Id : Overtaken(i)
       THEN lapses < MaxLapses /\ lapses' = lapses + 1
       ELSE lapses' = lapses
    /\ rows' = [i \in Id |-> Aged(rows[i])]
    /\ UNCHANGED <<keyOf, clientVars, workerVars, history>>

-----------------------------------------------------------------------------
WorkerStep(w) ==
    Start(w) \/ Claim(w) \/ Deliver(w) \/ Record(w) \/ Conflict(w)

ClientStep(c) ==
    \/ \E k \in Key : StoreNew(c, k) \/ StoreRepeated(c, k)
    \/ Acknowledge(c) \/ LoseCall(c)

Next ==
    \/ \E c \in Client : ClientStep(c)
    \/ \E w \in Worker : WorkerStep(w) \/ Crash(w)
    \/ Tick

Spec == Init /\ [][Next]_vars

\* The supervisor restarts a worker, a worker's calls return (they have
\* timeouts), and time passes.  Nothing is assumed of clients or destinations.
FairSpec ==
    /\ Spec
    /\ WF_vars(Tick)
    /\ \A w \in Worker : WF_vars(WorkerStep(w))

-----------------------------------------------------------------------------
(* Properties.                                                             *)

\* The retry budget: however leases lapse and workers take rows over, a row is
\* claimed at most MaxAttempts times plus once for every lapse, and it goes back
\* to the queue only with an attempt left (RunDelivery, Attempts >= max).
AttemptBudget ==
    \A i \in Id :
        /\ rows[i].attempts <= MaxAttempts + lapses
        /\ rows[i].state = "queued" => rows[i].attempts < MaxAttempts

\* A row is recorded as delivered only if its destination took it, and as failed
\* only if a delivery was refused for good or the attempts are used up.
SettledForCause ==
    \A i \in Id :
        /\ rows[i].state = "delivered" => i \in received
        /\ rows[i].state = "failed" => i \in refused \/ rows[i].attempts >= MaxAttempts

\* Every delivery started is paid for by a claim: the deliveries so far and those
\* that holders of the row have yet to make never exceed the attempts counted.
SendsAreCounted ==
    \A i \in Id :
        sent[i] + Cardinality({w \in Worker : /\ i \in batch[w]
                                              /\ cur[w] # i
                                              /\ HeldBy(rows[i], owner[w])})
            <= rows[i].attempts

\* Two workers have the same row in hand only after a lapse, one more for each.
SharedOnlyAfterLapses ==
    \A i \in Id : Cardinality({w \in Worker : i \in batch[w]}) <= 1 + lapses

\* All calls with one idempotency key get one submission, so that the destination
\* sees one Idempotency-Key: concurrent and repeated calls never make a second row.
OneSubmissionPerKey ==
    /\ \A k \in Key : \A i, j \in acked[k] : i = j
    /\ \A i, j \in Created : keyOf[i] = keyOf[j] => i = j

\* Only the worker that holds a row ends a claim on it, and a settled row is final:
\* a worker whose lease was taken over changes nothing (the WHERE clauses).
ClaimEndsByHolder ==
    [][\A i \in Id :
          /\ rows[i].state \in {"delivered", "failed"} => rows'[i] = rows[i]
          /\ rows[i].state = "delivering" /\ rows'[i].owner # rows[i].owner =>
                \/ rows[i].due = 0 /\ rows'[i].state = "delivering"
                \/ \E w \in Worker : cur[w] = i /\ owner[w] = rows[i].owner]_vars

\* The strengthening that makes the safety properties inductive.  A live worker
\* has an owner of its own; the rows held under it are in its batch, with the
\* attempts the claim returned; all of them share one deadline, so that when one
\* has been taken over every other is free to take; and a row whose holder is
\* gone or late is still within the budget that counts the lapse.
WorkersAreSound ==
    \A w \in Worker :
        /\ owner[w] = NoOwner <=> pc[w] = "down"
        /\ pc[w] \in {"down", "polling"} => batch[w] = {}
        /\ pc[w] = "answered" => cur[w] \in batch[w] /\ result[w] # "none"
        /\ \A i \in batch[w] : copy[w][i] > 0
        /\ \A v \in Worker : owner[v] = owner[w] => v = w \/ owner[w] = NoOwner
        /\ result[w] = "ok" => cur[w] \in received
        /\ result[w] = "permanent" => cur[w] \in refused

RowsAreSound ==
    \A i \in Id :
        /\ rows[i].owner # NoOwner <=> rows[i].state = "delivering"
        /\ rows[i].state \in {"none", "delivered", "failed"} => rows[i].due = 0

BatchesAreSound ==
    \A w \in Worker, i \in Id :
        HeldBy(rows[i], owner[w]) =>
            /\ i \in batch[w]
            /\ copy[w][i] = rows[i].attempts
            /\ \A j \in batch[w] : \/ rows[i].due = 0
                                   \/ HeldBy(rows[j], owner[w]) /\ rows[j].due = rows[i].due

LapsesAreCounted ==
    \A i \in Id :
        (/\ rows[i].state = "delivering"
         /\ rows[i].due = 0 \/ \A w \in Worker : ~HeldBy(rows[i], owner[w]))
            => rows[i].attempts < MaxAttempts + lapses

BatchesAreStored == \A w \in Worker : batch[w] \subseteq Created

QueueInvariant ==
    /\ WorkersAreSound
    /\ BatchesAreStored
    /\ RowsAreSound
    /\ BatchesAreSound
    /\ LapsesAreCounted

\* Every stored submission ends up delivered or failed.
EventuallySettled ==
    \A i \in Id : i \in Created ~> rows[i].state \in {"delivered", "failed"}

-----------------------------------------------------------------------------
(* Refinement: the queue and the leases are invisible in the promise.      *)

Promise == INSTANCE DeliveryPromise WITH
    status <- [i \in Id |-> IF rows[i].state \in {"queued", "delivering"}
                            THEN "pending" ELSE rows[i].state],
    received <- received

\* The outbox implements the promise, liveness included.
ImplementsPromise == Promise!Spec
=============================================================================
