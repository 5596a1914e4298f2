-------------------------- MODULE UsageOutboxProofs --------------------------
(***************************************************************************)
(* Proofs about the authorization-usage outbox, for any number of events   *)
(* and workers, any batch size, lease and delays.                          *)
(***************************************************************************)
EXTENDS UsageOutbox, LeasedRowsProofs

-----------------------------------------------------------------------------
\* A worker that runs has its owner; the events of its batch are stored; and the one
\* it has sent was taken if the endpoint said so.
WorkersAreSound ==
    \A w \in Worker :
        /\ pc[w] # "down" => owner[w] \in Owner
        /\ \A i \in batch[w] : Stored(i)
        /\ pc[w] = "answered" =>
              /\ cur[w] \in batch[w]
              /\ result[w] = "ok" => cur[w] \in received

\* Only calls that succeeded have events, and only claimed events have attempts.
RowsAreSound ==
    \A i \in Id :
        /\ Stored(i) => i \in calls
        /\ rows[i].state = "delivering" => rows[i].attempts >= 1

\* The inductive invariant.
UsageInvariant == TypeOK /\ WorkersAreSound /\ RowsAreSound /\ DeliveredWasReceived

LEMMA AttemptedRow ==
    ASSUME NEW r \in Row, r.attempts <= DelayCap, NEW o \in Owner
    PROVE  /\ Attempted(r, o) \in Row
           /\ Attempted(r, o).state = "delivering"
           /\ Attempted(r, o).attempts \in 1..DelayCap
  <1> DEFINE c == Claimed(r, o)
  <1>1. /\ c \in Row /\ c.state = "delivering" /\ c.attempts = r.attempts + 1
        /\ r.attempts \in Nat /\ DelayCap \in Nat \ {0}
    BY ClaimedRow, UsageOutboxAssumption DEF Row
  <1>2. Attempted(r, o) =
           [c EXCEPT !.attempts = IF r.attempts < DelayCap THEN c.attempts ELSE DelayCap]
    BY DEF Attempted
  <1> HIDE DEF c
  <1> QED BY <1>1, <1>2 DEF Row

\* What a worker records of an event that it holds.
LEMMA OutcomeRow ==
    ASSUME TypeOK, NEW w \in Worker, cur[w] \in Id, rows[cur[w]].attempts >= 1
    PROVE  /\ Outcome(w) \in Row
           /\ Outcome(w).attempts = rows[cur[w]].attempts
           /\ \/ Outcome(w).state = "delivered" /\ result[w] = "ok"
              \/ Outcome(w).state = "queued"
  <1> DEFINE r == rows[cur[w]]
  <1>1. r \in Row /\ r.attempts \in 1..DelayCap
    <2>1. r \in Row /\ r.attempts >= 1 /\ r.attempts <= DelayCap
      BY DEF TypeOK
    <2>2. r.attempts \in Nat
      BY <2>1 DEF Row
    <2> QED BY <2>1, <2>2, UsageOutboxAssumption
  <1>2. CASE result[w] = "ok"
    <2>1. Outcome(w) = Settled(r, "delivered")
      BY <1>2 DEF Outcome
    <2> QED BY <1>1, <1>2, <2>1, SettledRow DEF RowState
  <1>3. CASE result[w] # "ok"
    <2>1. PICK d \in Nat : d = RetryDelay[r.attempts]
      BY <1>1, UsageOutboxAssumption
    <2>2. Outcome(w) = Requeued(r, d)
      BY <1>3, <2>1 DEF Outcome
    <2> QED BY <1>1, <2>2, RequeuedRow
  <1> QED BY <1>2, <1>3

\* Every step preserves the invariant.
LEMMA UsageStep ==
    ASSUME UsageInvariant, [Next]_vars
    PROVE  UsageInvariant'
  <1> USE DEF UsageInvariant
  <1>0. CASE UNCHANGED vars
    BY <1>0 DEF vars, workerVars, TypeOK, WorkersAreSound, RowsAreSound, DeliveredWasReceived, Stored
  <1>1. ASSUME NEW i \in Id, Enqueue(i)
        PROVE  UsageInvariant'
    <2>1. /\ UNCHANGED <<workerVars, up, received, lapses>>
          /\ calls' = calls \cup {i} /\ i \notin calls
          /\ rows' = rows \/ rows' = [rows EXCEPT ![i] = Queued]
      BY <1>1 DEF Enqueue
    <2>2. \A j \in Id : rows'[j] = rows[j] \/ (j = i /\ rows'[j] = Queued)
      BY <2>1 DEF TypeOK
    <2>3. TypeOK'
      BY <2>1, <2>2, NewRow, UsageOutboxAssumption DEF TypeOK, workerVars
    <2>4. WorkersAreSound'
      BY <2>1, <2>2, NewRow DEF WorkersAreSound, Stored, workerVars, TypeOK
    <2>5. RowsAreSound'
      BY <2>1, <2>2, NewRow DEF RowsAreSound, Stored
    <2>6. DeliveredWasReceived'
      BY <2>1, <2>2, NewRow DEF DeliveredWasReceived
    <2> QED BY <2>3, <2>4, <2>5, <2>6
  <1>2. ASSUME NEW w \in Worker, Start(w)
        PROVE  UsageInvariant'
    <2>1. PICK o \in Owner : owner' = [owner EXCEPT ![w] = o]
      BY <1>2 DEF Start
    <2>2. /\ UNCHANGED <<rows, calls, batch, cur, result, up, received, lapses>>
          /\ pc' = [pc EXCEPT ![w] = "polling"]
      BY <1>2 DEF Start
    <2> QED BY <2>1, <2>2 DEF TypeOK, WorkersAreSound, RowsAreSound, DeliveredWasReceived, Stored
  <1>3. ASSUME NEW w \in Worker, Claim(w)
        PROVE  UsageInvariant'
    <2> DEFINE claim == Oldest({i \in Id : Claimable(rows[i])}, BatchSize)
    <2>1. /\ pc[w] = "polling" /\ owner[w] \in Owner
          /\ rows' = [i \in Id |-> IF i \in claim THEN Attempted(rows[i], owner[w]) ELSE rows[i]]
          /\ batch' = [batch EXCEPT ![w] = claim]
          /\ pc' = [pc EXCEPT ![w] = "working"]
          /\ UNCHANGED <<calls, owner, cur, result, up, received, lapses>>
      BY <1>3 DEF Claim, WorkersAreSound
    <2>2. claim \subseteq Id /\ \A i \in claim : Stored(i)
      BY DEF Oldest, Claimable, Stored
    <2> HIDE DEF claim
    <2>3. \A i \in Id :
             \/ rows'[i] = rows[i]
             \/ /\ i \in claim /\ rows'[i] \in Row /\ rows'[i].state = "delivering"
                /\ rows'[i].attempts \in 1..DelayCap
      BY <2>1, AttemptedRow DEF TypeOK
    <2>4. TypeOK'
      <3>1. rows' \in [Id -> Row]
        BY <2>1, <2>3 DEF TypeOK
      <3>2. \A i \in Id : rows'[i].state # "failed" /\ rows'[i].attempts <= DelayCap
        BY <2>3, UsageOutboxAssumption DEF TypeOK
      <3> QED BY <2>1, <2>2, <3>1, <3>2 DEF TypeOK
    <2>5. WorkersAreSound'
      BY <2>1, <2>2, <2>3 DEF WorkersAreSound, Stored, TypeOK
    <2>6. RowsAreSound'
      BY <2>1, <2>2, <2>3, UsageOutboxAssumption DEF RowsAreSound, Stored
    <2>7. DeliveredWasReceived'
      BY <2>1, <2>3 DEF DeliveredWasReceived
    <2> QED BY <2>4, <2>5, <2>6, <2>7
  <1>4. ASSUME NEW w \in Worker, Deliver(w)
        PROVE  UsageInvariant'
    <2>1. PICK i \in batch[w] : \E answer \in {"ok", "error"} :
             /\ cur' = [cur EXCEPT ![w] = i]
             /\ result' = [result EXCEPT ![w] = answer]
             /\ \/ received' = received \cup {i}
                \/ answer = "error" /\ UNCHANGED received
      BY <1>4 DEF Deliver
    <2>2. /\ pc' = [pc EXCEPT ![w] = "answered"] /\ pc[w] = "working"
          /\ UNCHANGED <<rows, calls, owner, batch, up, lapses>>
      BY <1>4 DEF Deliver
    <2>3. i \in Id /\ i \in calls
      BY DEF TypeOK, WorkersAreSound, RowsAreSound
    <2> QED BY <2>1, <2>2, <2>3
            DEF TypeOK, WorkersAreSound, RowsAreSound, DeliveredWasReceived, Stored
  <1>5. ASSUME NEW w \in Worker, Record(w)
        PROVE  UsageInvariant'
    <2> DEFINE i == cur[w]
    <2>1. /\ pc[w] = "answered" /\ rows[i].state = "delivering"
          /\ rows' = [rows EXCEPT ![i] = Outcome(w)]
          /\ batch' = [batch EXCEPT ![w] = batch[w] \ {i}]
          /\ cur' = [cur EXCEPT ![w] = 0]
          /\ result' = [result EXCEPT ![w] = "none"]
          /\ pc' = [pc EXCEPT ![w] = IF batch[w] = {i} THEN "polling" ELSE "working"]
          /\ UNCHANGED <<calls, owner, up, received, lapses>>
      BY <1>5 DEF Record, HeldBy
    <2>2. i \in Id /\ rows[i].attempts >= 1
      BY <2>1 DEF TypeOK, WorkersAreSound, RowsAreSound
    <2>3. /\ Outcome(w) \in Row /\ Outcome(w).attempts = rows[i].attempts
          /\ \/ Outcome(w).state = "delivered" /\ i \in received
             \/ Outcome(w).state = "queued"
      BY <2>1, <2>2, OutcomeRow DEF WorkersAreSound
    <2> HIDE DEF i
    <2>4. TypeOK'
      <3>1. \A j \in Id : rows'[j].state # "failed" /\ rows'[j].attempts <= DelayCap
        BY <2>1, <2>2, <2>3 DEF TypeOK
      <3> QED BY <2>1, <2>2, <2>3, <3>1 DEF TypeOK
    <2>5. WorkersAreSound'
      BY <2>1, <2>2, <2>3 DEF TypeOK, WorkersAreSound, Stored
    <2>6. RowsAreSound'
      BY <2>1, <2>2, <2>3 DEF TypeOK, RowsAreSound, Stored
    <2>7. DeliveredWasReceived'
      BY <2>1, <2>2, <2>3 DEF TypeOK, DeliveredWasReceived
    <2> QED BY <2>4, <2>5, <2>6, <2>7
  <1>6. ASSUME NEW w \in Worker, Conflict(w) \/ Crash(w)
        PROVE  UsageInvariant'
    <2>1. /\ Stopped(w) /\ UNCHANGED <<rows, calls, up, received>>
          /\ lapses' = lapses \/ (lapses < MaxLapses /\ lapses' = lapses + 1)
      BY <1>6 DEF Conflict, Crash
    <2>2. lapses' \in 0..MaxLapses
      BY <2>1, UsageOutboxAssumption DEF TypeOK
    <2> QED BY <2>1, <2>2 DEF Stopped, TypeOK, WorkersAreSound, RowsAreSound,
                              DeliveredWasReceived, Stored
  <1>7. CASE Endpoint
    BY <1>7 DEF Endpoint, workerVars, TypeOK, WorkersAreSound, RowsAreSound,
                DeliveredWasReceived, Stored
  <1>8. CASE Tick
    <2>1. /\ rows' = [i \in Id |-> Aged(rows[i])]
          /\ UNCHANGED <<calls, workerVars, up, received>>
          /\ lapses' = lapses \/ (lapses < MaxLapses /\ lapses' = lapses + 1)
      BY <1>8 DEF Tick
    <2>2. \A i \in Id :
             /\ rows'[i] \in Row /\ rows'[i].state = rows[i].state
             /\ rows'[i].attempts = rows[i].attempts
      BY <2>1, AgedRow DEF TypeOK
    <2>3. lapses' \in 0..MaxLapses
      BY <2>1, UsageOutboxAssumption DEF TypeOK
    <2>4. rows' \in [Id -> Row]
      BY <2>1, <2>2
    <2> QED BY <2>1, <2>2, <2>3, <2>4 DEF workerVars, TypeOK, WorkersAreSound, RowsAreSound,
                                          DeliveredWasReceived, Stored
  <1> QED BY <1>0, <1>1, <1>2, <1>3, <1>4, <1>5, <1>6, <1>7, <1>8 DEF Next, WorkerStep

LEMMA UsageStart == Init => UsageInvariant
  BY NewRow, UsageOutboxAssumption
     DEF Init, UsageInvariant, TypeOK, WorkersAreSound, RowsAreSound, DeliveredWasReceived, Stored

\* Workers of RunAuthorizationUsageDelivery hold stored events and record what they were
\* told in every reachable state: the inductive invariant.
THEOREM UsageInvariance == Spec => []UsageInvariant
  BY UsageStart, UsageStep, PTL DEF Spec

\* The table and the workers stay in their domains; no event is ever given up
\* (RunAuthorizationUsageDelivery has no last attempt), and every retry has a delay.
THEOREM UsageTypeInvariance == Spec => []TypeOK
  BY UsageInvariance, PTL DEF UsageInvariant

\* CompleteAuthorizationUsageEvent records what the endpoint has taken, whoever else
\* claimed the event meanwhile, and only successful calls are reported.
THEOREM DeliveriesAreTrue == Spec => []DeliveredWasReceived
  BY UsageInvariance, PTL DEF UsageInvariant

-----------------------------------------------------------------------------
(* The promise of the submission outbox, kept by this one as well.         *)

PromisedStatus ==
    [i \in Id |-> IF rows[i].state \in {"queued", "delivering"} THEN "pending" ELSE rows[i].state]

Promise == INSTANCE DeliveryPromise WITH status <- PromisedStatus

\* A step that leaves what is promised about every event as it was.
Unnoticed ==
    /\ UNCHANGED received
    /\ \A i \in Id :
          \/ rows'[i].state = rows[i].state
          \/ {rows[i].state, rows'[i].state} \subseteq {"queued", "delivering"}

LEMMA UnnoticedStutters ==
    ASSUME Unnoticed
    PROVE  UNCHANGED <<PromisedStatus, received>>
  BY DEF Unnoticed, PromisedStatus

\* The usage outbox implements the safety part of DeliveryPromise with the same two
\* statements on its rows: what enqueueAuthorizationUsage stores stays pending until it
\* is settled once, as delivered and after the endpoint has taken it, while workers of
\* RunAuthorizationUsageDelivery overtake one another, crash and retry.
THEOREM UsageImplementsPromise == Spec => Promise!SafeSpec
  <1>1. Init => Promise!Init
    BY NewRow DEF Init, Promise!Init, PromisedStatus
  <1>2. UsageInvariant /\ [Next]_vars => [Promise!Next]_(Promise!vars)
    <2> SUFFICES ASSUME UsageInvariant, [Next]_vars
                 PROVE  Promise!Next \/ UNCHANGED <<PromisedStatus, received>>
      BY DEF Promise!vars
    <2> USE DEF UsageInvariant, TypeOK
    <2>1. ASSUME NEW i \in Id, Enqueue(i)
          PROVE  Promise!Next \/ UNCHANGED <<PromisedStatus, received>>
      <3>1. /\ rows[i].state = "none" /\ UNCHANGED received
            /\ rows' = rows \/ rows' = [rows EXCEPT ![i] = Queued]
        BY <2>1 DEF Enqueue, RowsAreSound, Stored
      <3>2. CASE rows' = rows
        BY <3>1, <3>2, UnnoticedStutters DEF Unnoticed
      <3>3. CASE rows' = [rows EXCEPT ![i] = Queued]
        <4>1. PromisedStatus' = [PromisedStatus EXCEPT ![i] = "pending"]
          BY <3>3, NewRow DEF PromisedStatus
        <4>2. Promise!Accept(i)
          BY <3>1, <4>1 DEF Promise!Accept, PromisedStatus
        <4> QED BY <4>2 DEF Promise!Next
      <3> QED BY <3>1, <3>2, <3>3
    <2>2. ASSUME NEW w \in Worker, Claim(w)
          PROVE  Unnoticed
      <3>1. owner[w] \in Owner
        BY <2>2 DEF Claim, WorkersAreSound
      <3>2. \A i \in Id : \/ rows'[i] = rows[i]
                          \/ Claimable(rows[i]) /\ rows'[i] = Attempted(rows[i], owner[w])
        BY <2>2 DEF Claim, Oldest
      <3> QED BY <2>2, <3>1, <3>2, AttemptedRow DEF Claim, Claimable, Unnoticed
    <2>3. ASSUME NEW w \in Worker, Deliver(w)
          PROVE  Promise!Next \/ UNCHANGED <<PromisedStatus, received>>
      <3>1. PICK i \in Id : i \in batch[w] /\ received' \in {received, received \cup {i}}
        BY <2>3 DEF Deliver
      <3>2. UNCHANGED rows /\ rows[i].state # "none"
        BY <2>3, <3>1 DEF Deliver, WorkersAreSound, Stored
      <3>3. CASE received' = received
        BY <3>2, <3>3, UnnoticedStutters DEF Unnoticed
      <3>4. CASE received' = received \cup {i}
        <4>1. Promise!Arrive(i)
          BY <3>2, <3>4 DEF Promise!Arrive, PromisedStatus
        <4> QED BY <4>1 DEF Promise!Next
      <3> QED BY <3>1, <3>3, <3>4
    <2>4. ASSUME NEW w \in Worker, Record(w)
          PROVE  Promise!Next \/ UNCHANGED <<PromisedStatus, received>>
      <3>1. PICK i \in Id : i = cur[w] /\ rows[i].attempts >= 1
        BY <2>4 DEF Record, HeldBy, WorkersAreSound, RowsAreSound
      <3>2. /\ rows' = [rows EXCEPT ![i] = Outcome(w)] /\ UNCHANGED received
            /\ rows[i].state = "delivering"
        BY <2>4, <3>1 DEF Record, HeldBy
      <3>3. \/ Outcome(w).state = "delivered" /\ i \in received
            \/ Outcome(w).state = "queued"
        BY <2>4, <3>1, OutcomeRow DEF Record, WorkersAreSound
      <3>4. CASE Outcome(w).state = "delivered" /\ i \in received
        <4>1. PromisedStatus' = [PromisedStatus EXCEPT ![i] = "delivered"]
          BY <3>2, <3>4 DEF PromisedStatus
        <4>2. Promise!Deliver(i)
          BY <3>2, <3>4, <4>1 DEF Promise!Deliver, PromisedStatus
        <4> QED BY <4>2 DEF Promise!Next
      <3>5. CASE Outcome(w).state = "queued"
        BY <3>2, <3>5, UnnoticedStutters DEF Unnoticed
      <3> QED BY <3>3, <3>4, <3>5
    <2>5. ASSUME Tick
          PROVE  Unnoticed
      BY <2>5, AgedRow DEF Tick, Unnoticed
    <2>6. ASSUME NEW w \in Worker, Start(w) \/ Conflict(w) \/ Crash(w)
          PROVE  Unnoticed
      BY <2>6 DEF Start, Conflict, Crash, Unnoticed
    <2>7. Endpoint \/ UNCHANGED vars => Unnoticed
      BY DEF Endpoint, vars, Unnoticed
    <2> QED BY <2>1, <2>2, <2>3, <2>4, <2>5, <2>6, <2>7, UnnoticedStutters DEF Next, WorkerStep
  <1> QED BY <1>1, <1>2, UsageStart, UsageStep, PTL DEF Spec, Promise!SafeSpec
=============================================================================
