----------------------------- MODULE UsageOutbox -----------------------------
(***************************************************************************)
(* The authorization-usage outbox of internal/tools: every successful call *)
(* of a bound tool stores, when it can, an event for the usage endpoint of *)
(* its Authorization; workers of RunAuthorizationUsageDelivery claim the   *)
(* events under leases, as in ReportOutbox, and try each one until it is   *)
(* delivered.  No number of failures makes them give up.                   *)
(***************************************************************************)
EXTENDS LeasedRows

CONSTANTS Id,          \* events, numbered in the order of creation
          Worker,
          BatchSize,   \* 25 in the code
          DelayCap,    \* attempts from which on the delay is the same
          RetryDelay,  \* RetryDelay[n] = authorizationUsageRetryDelay(n), in ticks
          MaxLapses    \* bound of the model: claims that end unrecorded

ASSUME UsageOutboxAssumption ==
    /\ Id \subseteq Nat \ {0}
    /\ BatchSize \in Nat \ {0}
    /\ DelayCap \in Nat \ {0}
    /\ RetryDelay \in [1..DelayCap -> Nat]
    /\ MaxLapses \in Nat

VARIABLES
    rows,      \* the table authorization_usage_events
    calls,     \* the tool calls that have succeeded, by the event each one makes
    pc,        \* "down", "polling", "working" or "answered", by worker
    owner,     \* the lease owner the worker drew when it started
    batch,     \* the claimed events it has yet to record
    cur,       \* the event it has sent and not yet recorded, or 0
    result,    \* "ok" or "error" once that delivery has ended, "none" before
    up,        \* the usage endpoint answers every request in time
    received,  \* history: events the endpoint has taken
    lapses

workerVars == <<pc, owner, batch, cur, result>>
vars == <<rows, calls, workerVars, up, received, lapses>>

TypeOK ==
    /\ rows \in [Id -> Row] /\ calls \subseteq Id
    /\ pc \in [Worker -> {"down", "polling", "working", "answered"}]
    /\ owner \in [Worker -> Owner \cup {NoOwner}]
    /\ batch \in [Worker -> SUBSET Id]
    /\ cur \in [Worker -> Id \cup {0}]
    /\ result \in [Worker -> {"none", "ok", "error"}]
    /\ up \in BOOLEAN /\ received \subseteq Id /\ lapses \in 0..MaxLapses
    /\ \A i \in Id : rows[i].state # "failed" /\ rows[i].attempts <= DelayCap

Init ==
    /\ rows = [i \in Id |-> NoRow] /\ calls = {}
    /\ pc = [w \in Worker |-> "down"]
    /\ owner = [w \in Worker |-> NoOwner]
    /\ batch = [w \in Worker |-> {}]
    /\ cur = [w \in Worker |-> 0]
    /\ result = [w \in Worker |-> "none"]
    /\ up \in BOOLEAN /\ received = {} /\ lapses = 0

\* ExecuteBound after the upstream call succeeded: enqueueAuthorizationUsage tries
\* for two seconds to store the event, and its failure does not fail the call.
Enqueue(i) ==
    /\ i \notin calls
    /\ \A j \in Id \ calls : i <= j
    /\ calls' = calls \cup {i}
    /\ rows' \in {rows, [rows EXCEPT ![i] = Queued]}
    /\ UNCHANGED <<workerVars, up, received, lapses>>

Endpoint ==
    /\ up' = ~up
    /\ UNCHANGED <<rows, calls, workerVars, received, lapses>>

\* Owners are random UUIDs: none is drawn twice.
Start(w) ==
    /\ pc[w] = "down"
    /\ \E o \in Owner :
          /\ \A i \in Id : rows[i].owner # o
          /\ \A v \in Worker : owner[v] # o
          /\ owner' = [owner EXCEPT ![w] = o]
    /\ pc' = [pc EXCEPT ![w] = "polling"]
    /\ UNCHANGED <<rows, calls, batch, cur, result, up, received, lapses>>

\* A claimed row; its attempts are counted on, but from DelayCap on they make no
\* difference to anything the workers do.
Attempted(r, o) ==
    [Claimed(r, o) EXCEPT !.attempts = IF r.attempts < DelayCap THEN @ ELSE DelayCap]

\* ClaimAuthorizationUsageEvents, when it returns rows.
Claim(w) ==
    LET claim == Oldest({i \in Id : Claimable(rows[i])}, BatchSize)
    IN  /\ pc[w] = "polling"
        /\ claim # {}
        /\ rows' = [i \in Id |->
                       IF i \in claim THEN Attempted(rows[i], owner[w]) ELSE rows[i]]
        /\ batch' = [batch EXCEPT ![w] = claim]
        /\ pc' = [pc EXCEPT ![w] = "working"]
        /\ UNCHANGED <<calls, owner, cur, result, up, received, lapses>>

\* deliverAuthorizationUsage: whatever goes wrong, from the credential to the answer,
\* is one kind of error; the endpoint may have taken an event whose answer was lost.
Deliver(w) ==
    /\ pc[w] = "working"
    /\ \E i \in batch[w], answer \in {"ok", "error"} :
          /\ up => answer = "ok"
          /\ cur' = [cur EXCEPT ![w] = i]
          /\ result' = [result EXCEPT ![w] = answer]
          /\ \/ received' = received \cup {i}
             \/ answer = "error" /\ UNCHANGED received
    /\ pc' = [pc EXCEPT ![w] = "answered"]
    /\ UNCHANGED <<rows, calls, owner, batch, up, lapses>>

\* What a run of the worker leaves behind when it returns: nothing.
Stopped(w) ==
    /\ pc' = [pc EXCEPT ![w] = "down"]
    /\ owner' = [owner EXCEPT ![w] = NoOwner]
    /\ batch' = [batch EXCEPT ![w] = {}]
    /\ cur' = [cur EXCEPT ![w] = 0]
    /\ result' = [result EXCEPT ![w] = "none"]

\* Mutated: the event is given up, as a support submission would be.
OutcomeGivingUp(w) ==
    IF result[w] = "ok" THEN Settled(rows[cur[w]], "delivered")
    ELSE IF rows[cur[w]].attempts = DelayCap THEN Settled(rows[cur[w]], "failed")
    ELSE Requeued(rows[cur[w]], RetryDelay[rows[cur[w]].attempts])

\* Mutated: the last attempts are recorded as delivered whatever came of them.
OutcomeAnyway(w) ==
    IF result[w] = "ok" \/ rows[cur[w]].attempts = DelayCap THEN Settled(rows[cur[w]], "delivered")
    ELSE Requeued(rows[cur[w]], RetryDelay[rows[cur[w]].attempts])

\* The row Complete or Retry writes.  event.Attempts is what the claim stored, and
\* the WHERE clause lets only the same claim get here.
Outcome(w) ==
    IF result[w] = "ok" THEN Settled(rows[cur[w]], "delivered")
    ELSE Requeued(rows[cur[w]], RetryDelay[rows[cur[w]].attempts])

Record(w) ==
    /\ pc[w] = "answered"
    /\ HeldBy(rows[cur[w]], owner[w])
    /\ rows' = [rows EXCEPT ![cur[w]] = Outcome(w)]
    /\ batch' = [batch EXCEPT ![w] = @ \ {cur[w]}]
    /\ cur' = [cur EXCEPT ![w] = 0]
    /\ result' = [result EXCEPT ![w] = "none"]
    /\ pc' = [pc EXCEPT ![w] = IF batch[w] = {cur[w]} THEN "polling" ELSE "working"]
    /\ UNCHANGED <<calls, owner, up, received, lapses>>

\* ErrConflict ends the run, and the rest of the batch waits for its lease.
Conflict(w) ==
    /\ pc[w] = "answered"
    /\ ~HeldBy(rows[cur[w]], owner[w])
    /\ Stopped(w)
    /\ UNCHANGED <<rows, calls, up, received, lapses>>

\* The process stops or the store fails.
Crash(w) ==
    /\ batch[w] # {}
    /\ lapses < MaxLapses
    /\ lapses' = lapses + 1
    /\ Stopped(w)
    /\ UNCHANGED <<rows, calls, up, received>>

\* The lease of row i runs out on a worker that still has work on it.
Overtaken(i) ==
    /\ rows[i].due = 1
    /\ \E w \in Worker : i \in batch[w] /\ HeldBy(rows[i], owner[w])

Tick ==
    /\ \E i \in Id : rows[i].due > 0
    /\ IF \E i \in Id : Overtaken(i)
       THEN lapses < MaxLapses /\ lapses' = lapses + 1
       ELSE lapses' = lapses
    /\ rows' = [i \in Id |-> Aged(rows[i])]
    /\ UNCHANGED <<calls, workerVars, up, received>>

WorkerStep(w) == Start(w) \/ Claim(w) \/ Deliver(w) \/ Record(w) \/ Conflict(w)

Next ==
    \/ \E i \in Id : Enqueue(i)
    \/ \E w \in Worker : WorkerStep(w) \/ Crash(w)
    \/ Endpoint \/ Tick

Spec == Init /\ [][Next]_vars

\* The supervisor restarts workers, their calls have timeouts, and time passes;
\* nothing is assumed of the endpoint.
FairSpec ==
    /\ Spec
    /\ WF_vars(Tick)
    /\ \A w \in Worker : WF_vars(WorkerStep(w))

-----------------------------------------------------------------------------
Stored(i) == rows[i].state # "none"

\* An event is recorded as delivered only after the endpoint has taken it, and the
\* endpoint gets events of calls that succeeded only.
DeliveredWasReceived ==
    /\ \A i \in Id : rows[i].state = "delivered" => i \in received
    /\ received \subseteq calls

\* No failure is final: however often deliveries failed, workers crashed and leases
\* lapsed before, once the endpoint stays up every stored event is delivered.
DeliveredOnceUp ==
    <>[]up => \A i \in Id : Stored(i) ~> rows[i].state = "delivered"

\* docs/OPERATIONS.md:125 has operators alert on authorization-usage deliveries that
\* exhaust their retries: a stored event ends up delivered or given up.
RetriesExhaust ==
    \A i \in Id : Stored(i) ~> rows[i].state \in {"delivered", "failed"}
=============================================================================
