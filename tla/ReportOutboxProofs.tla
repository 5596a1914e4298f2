------------------------- MODULE ReportOutboxProofs -------------------------
(***************************************************************************)
(* Proofs about the support-submission outbox, for any number of           *)
(* submissions, clients and workers, any batch size, lease and delays.     *)
(***************************************************************************)
EXTENDS ReportOutbox, LeasedRowsProofs, FiniteSetTheorems

-----------------------------------------------------------------------------
\* A worker records an outcome it has computed from a row it still holds.
LEMMA OutcomeRow ==
    ASSUME TypeOK, NEW w \in Worker, pc[w] = "answered", cur[w] \in Id,
           result[w] # "none", copy[w][cur[w]] \in Nat \ {0}
    PROVE  /\ Outcome(w) \in Row
           /\ Outcome(w).owner = NoOwner
           /\ Outcome(w).attempts = rows[cur[w]].attempts
           /\ \/ /\ Outcome(w).state = "delivered"
                 /\ Outcome(w).due = 0
                 /\ result[w] = "ok"
              \/ /\ Outcome(w).state = "failed"
                 /\ Outcome(w).due = 0
                 /\ result[w] = "permanent" \/ copy[w][cur[w]] >= MaxAttempts
              \/ /\ Outcome(w).state = "queued"
                 /\ copy[w][cur[w]] < MaxAttempts
  <1> DEFINE r == rows[cur[w]]
             n == copy[w][cur[w]]
  <1>0. r \in Row
    BY DEF TypeOK
  <1>1. CASE result[w] = "ok"
    <2>1. Outcome(w) = Settled(r, "delivered")
      BY <1>1 DEF Outcome
    <2> QED BY <1>0, <1>1, <2>1, SettledRow DEF RowState
  <1>2. CASE result[w] # "ok" /\ Spent(w)
    <2>1. Outcome(w) = Settled(r, "failed")
      BY <1>2 DEF Outcome
    <2>2. result[w] = "permanent" \/ n >= MaxAttempts
      BY <1>2 DEF Spent
    <2> QED BY <1>0, <2>1, <2>2, SettledRow DEF RowState
  <1>3. CASE result[w] # "ok" /\ ~Spent(w)
    <2>2. n \in 1..MaxAttempts /\ n < MaxAttempts
      BY <1>3, ReportOutboxAssumption DEF Spent
    <2>3. PICK d \in Nat : d = RetryDelay[n]
      BY <2>2, ReportOutboxAssumption
    <2>1. Outcome(w) = Requeued(r, d)
      BY <1>3, <2>3 DEF Outcome
    <2>4. /\ Requeued(r, d) \in Row
          /\ Requeued(r, d).state = "queued"
          /\ Requeued(r, d).owner = NoOwner
          /\ Requeued(r, d).attempts = r.attempts
      BY <1>0, RequeuedRow
    <2> QED BY <2>1, <2>2, <2>4
  <1>4. result[w] = "ok" \/ (result[w] # "ok" /\ Spent(w)) \/ (result[w] # "ok" /\ ~Spent(w))
    OBVIOUS
  <1> QED BY <1>1, <1>2, <1>3, <1>4

-----------------------------------------------------------------------------
(* The inductive step, one conjunct of the invariant after the other.      *)

LEMMA TypeStep ==
    ASSUME TypeOK, QueueInvariant, [Next]_vars
    PROVE  TypeOK'
  <1> USE DEF TypeOK
  <1>0. CASE UNCHANGED vars
    BY <1>0 DEF vars, tableVars, clientVars, workerVars, history
  <1>1. ASSUME NEW c \in Client, NEW k \in Key, StoreNew(c, k)
        PROVE  TypeOK'
    BY <1>1, NewRow DEF StoreNew, Created, workerVars, history
  <1>2. ASSUME NEW c \in Client, NEW k \in Key, StoreRepeated(c, k)
        PROVE  TypeOK'
    BY <1>2 DEF StoreRepeated, tableVars, workerVars, history
  <1>3. ASSUME NEW c \in Client, Acknowledge(c) \/ LoseCall(c)
        PROVE  TypeOK'
    <2>1. call' \in [Client -> Id \cup {0}]
      BY <1>3 DEF Acknowledge, LoseCall
    <2>2. acked' \in [Key -> SUBSET Id]
      <3>1. CASE Acknowledge(c)
        <4>1. call[c] \in Id
          BY <3>1 DEF Acknowledge
        <4>2. \A k \in Key : acked[k] \cup {call[c]} \in SUBSET Id
          BY <4>1
        <4> QED BY <3>1, <4>2 DEF Acknowledge
      <3>2. CASE LoseCall(c)
        BY <3>2 DEF LoseCall
      <3> QED BY <1>3, <3>1, <3>2
    <2> QED BY <1>3, <2>1, <2>2 DEF Acknowledge, LoseCall, tableVars, workerVars, history
  <1>4. ASSUME NEW w \in Worker, Start(w)
        PROVE  TypeOK'
    BY <1>4 DEF Start, tableVars, clientVars, history
  <1>5. ASSUME NEW w \in Worker, Claim(w)
        PROVE  TypeOK'
    <2> DEFINE claim == Oldest({i \in Id : Claimable(rows[i])}, BatchSize)
    <2>1. claim \in SUBSET Id
      BY DEF Oldest
    <2>2. owner[w] \in Owner
      BY <1>5 DEF Claim, QueueInvariant, WorkersAreSound
    <2>3. \A i \in Id : Claimed(rows[i], owner[w]) \in Row
      BY <2>2, ClaimedRow
    <2>4. rows' \in [Id -> Row]
      BY <1>5, <2>3 DEF Claim
    <2>5. batch' \in [Worker -> SUBSET Id]
      BY <1>5, <2>1 DEF Claim
    <2>6. copy' \in [Worker -> [Id -> Nat]]
      <3>1. \A i \in Id : rows[i].attempts + 1 \in Nat
        BY DEF Row
      <3>2. [i \in Id |-> IF i \in claim THEN rows[i].attempts + 1 ELSE 0] \in [Id -> Nat]
        BY <3>1
      <3> HIDE DEF claim
      <3> QED BY <1>5, <3>2 DEF Claim, claim
    <2> QED BY <1>5, <2>4, <2>5, <2>6 DEF Claim, clientVars, history
  <1>6. ASSUME NEW w \in Worker, Deliver(w)
        PROVE  TypeOK'
    BY <1>6 DEF Deliver, tableVars, clientVars, Result
  <1>7. ASSUME NEW w \in Worker, Record(w)
        PROVE  TypeOK'
    <2>1. cur[w] \in Id /\ result[w] # "none" /\ copy[w][cur[w]] \in Nat \ {0}
      BY <1>7 DEF Record, QueueInvariant, WorkersAreSound
    <2>2. Outcome(w) \in Row
      BY <1>7, <2>1, OutcomeRow DEF Record
    <2>3. rows' \in [Id -> Row] /\ batch' \in [Worker -> SUBSET Id]
      BY <1>7, <2>1, <2>2 DEF Record
    <2>4. copy' \in [Worker -> [Id -> Nat]]
      BY <1>7, <2>1 DEF Record
    <2> QED BY <1>7, <2>3, <2>4 DEF Record, clientVars, history, Result
  <1>8. ASSUME NEW w \in Worker, Conflict(w) \/ Crash(w)
        PROVE  TypeOK'
    <2>1. Stopped(w) /\ UNCHANGED <<tableVars, clientVars, history>>
      BY <1>8 DEF Conflict, Crash
    <2>2. lapses' \in 0..MaxLapses
      BY <1>8, ReportOutboxAssumption DEF Conflict, Crash
    <2>3. copy' \in [Worker -> [Id -> Nat]]
      BY <2>1 DEF Stopped
    <2>4. batch' \in [Worker -> SUBSET Id]
      BY <2>1 DEF Stopped
    <2> QED BY <2>1, <2>2, <2>3, <2>4
            DEF Stopped, tableVars, clientVars, history, Result
  <1>9. ASSUME Tick
        PROVE  TypeOK'
    <2>1. rows' \in [Id -> Row]
      BY <1>9, AgedRow DEF Tick
    <2>2. lapses' \in 0..MaxLapses
      BY <1>9, ReportOutboxAssumption DEF Tick
    <2> QED BY <1>9, <2>1, <2>2 DEF Tick, clientVars, workerVars, history
  <1> HIDE DEF TypeOK
  <1> QED BY <1>0, <1>1, <1>2, <1>3, <1>4, <1>5, <1>6, <1>7, <1>8, <1>9 DEF Next, ClientStep, WorkerStep

LEMMA WorkersStep ==
    ASSUME TypeOK, QueueInvariant, [Next]_vars
    PROVE  WorkersAreSound'
  <1> USE DEF TypeOK, QueueInvariant, WorkersAreSound
  <1>0. CASE UNCHANGED <<workerVars, history>>
    BY <1>0 DEF workerVars, history
  <1>1. ASSUME NEW w \in Worker, Start(w)
        PROVE  WorkersAreSound'
    <2>1. PICK o \in Owner : Fresh(o) /\ owner' = [owner EXCEPT ![w] = o]
      BY <1>1 DEF Start
    <2>2. \A v \in Worker : owner[v] # o
      BY <2>1 DEF Fresh
    <2> QED BY <1>1, <2>1, <2>2, LeasedRowsAssumption DEF Start, history
  <1>2. ASSUME NEW w \in Worker, Claim(w)
        PROVE  WorkersAreSound'
    <2> DEFINE claim == Oldest({i \in Id : Claimable(rows[i])}, BatchSize)
    <2>1. claim \in SUBSET Id
      BY DEF Oldest
    <2>2. \A i \in claim : rows[i].attempts + 1 > 0
      BY <2>1 DEF Row
    <2>3. \A i \in claim : copy'[w][i] > 0
      <3> HIDE DEF claim
      <3>1. copy'[w] = [i \in Id |-> IF i \in claim THEN rows[i].attempts + 1 ELSE 0]
        BY <1>2 DEF Claim, claim
      <3> QED BY <2>1, <2>2, <3>1
    <2>4. /\ pc' = [pc EXCEPT ![w] = "working"]
          /\ batch' = [batch EXCEPT ![w] = claim]
          /\ \A v \in Worker \ {w} : copy'[v] = copy[v]
          /\ UNCHANGED <<owner, cur, result, history>>
          /\ pc[w] = "polling"
      BY <1>2 DEF Claim
    <2> HIDE DEF claim
    <2> QED BY <2>1, <2>3, <2>4 DEF history
  <1>3. ASSUME NEW w \in Worker, Deliver(w)
        PROVE  WorkersAreSound'
    <2>1. PICK i \in batch[w], r \in {"ok", "retryable", "permanent"} :
             /\ cur' = [cur EXCEPT ![w] = i]
             /\ result' = [result EXCEPT ![w] = r]
             /\ \/ r \in {"ok", "retryable"} /\ received' = received \cup {i}
                \/ r \in {"retryable", "permanent"} /\ UNCHANGED received
             /\ refused' = IF r = "permanent" THEN refused \cup {i} ELSE refused
      BY <1>3 DEF Deliver
    <2>2. /\ pc[w] = "working" /\ pc' = [pc EXCEPT ![w] = "answered"]
          /\ UNCHANGED <<owner, batch, copy>>
      BY <1>3 DEF Deliver
    <2> QED BY <2>1, <2>2
  <1>4. ASSUME NEW w \in Worker, Record(w)
        PROVE  WorkersAreSound'
    <2>1. cur[w] \in Id /\ pc[w] = "answered"
      BY <1>4 DEF Record
    <2>2. /\ batch' = [batch EXCEPT ![w] = @ \ {cur[w]}]
          /\ copy' = [copy EXCEPT ![w][cur[w]] = 0]
          /\ cur' = [cur EXCEPT ![w] = 0]
          /\ result' = [result EXCEPT ![w] = "none"]
          /\ pc' = [pc EXCEPT ![w] = IF batch[w] = {cur[w]} THEN "polling" ELSE "working"]
          /\ UNCHANGED <<owner, history>>
      BY <1>4 DEF Record
    <2>3. \A v \in Worker : \A i \in batch'[v] : copy'[v][i] > 0
      BY <2>1, <2>2
    <2> QED BY <2>1, <2>2, <2>3 DEF history
  <1>5. ASSUME NEW w \in Worker, Conflict(w) \/ Crash(w)
        PROVE  WorkersAreSound'
    <2>1. Stopped(w) /\ UNCHANGED history
      BY <1>5 DEF Conflict, Crash
    <2>2. /\ pc'[w] = "down" /\ owner'[w] = NoOwner /\ batch'[w] = {} /\ result'[w] = "none"
          /\ \A v \in Worker \ {w} :
                /\ pc'[v] = pc[v] /\ owner'[v] = owner[v] /\ batch'[v] = batch[v]
                /\ copy'[v] = copy[v] /\ cur'[v] = cur[v] /\ result'[v] = result[v]
      BY <2>1 DEF Stopped
    <2>3. UNCHANGED <<received, refused>>
      BY <2>1 DEF history
    <2> QED BY <2>2, <2>3
  <1>6. ASSUME NEW c \in Client, ClientStep(c)
        PROVE  UNCHANGED <<workerVars, history>>
    BY <1>6 DEF ClientStep, StoreNew, StoreRepeated, Acknowledge, LoseCall
  <1>7. Tick \/ UNCHANGED vars => UNCHANGED <<workerVars, history>>
    BY DEF Tick, vars
  <1> HIDE DEF WorkersAreSound
  <1> QED BY <1>0, <1>1, <1>2, <1>3, <1>4, <1>5, <1>6, <1>7 DEF Next, WorkerStep

LEMMA RowsStep ==
    ASSUME TypeOK, QueueInvariant, [Next]_vars
    PROVE  RowsAreSound'
  <1> USE DEF TypeOK, QueueInvariant, RowsAreSound
  <1>0. CASE UNCHANGED rows
    BY <1>0
  <1>1. ASSUME NEW c \in Client, NEW k \in Key, StoreNew(c, k)
        PROVE  RowsAreSound'
    BY <1>1, NewRow DEF StoreNew, Created
  <1>2. ASSUME NEW w \in Worker, Claim(w)
        PROVE  RowsAreSound'
    <2>1. owner[w] \in Owner
      BY <1>2 DEF Claim, WorkersAreSound
    <2>2. \A i \in Id : rows'[i] = rows[i] \/ rows'[i] = Claimed(rows[i], owner[w])
      BY <1>2 DEF Claim
    <2>3. \A i \in Id : /\ Claimed(rows[i], owner[w]).state = "delivering"
                        /\ Claimed(rows[i], owner[w]).owner = owner[w]
      BY <2>1, ClaimedRow
    <2> QED BY <2>1, <2>2, <2>3, LeasedRowsAssumption
  <1>3. ASSUME NEW w \in Worker, Record(w)
        PROVE  RowsAreSound'
    <2>1. cur[w] \in Id /\ result[w] # "none" /\ copy[w][cur[w]] \in Nat \ {0}
      BY <1>3 DEF Record, WorkersAreSound
    <2>2. /\ Outcome(w).owner = NoOwner
          /\ Outcome(w).state \in {"delivered", "failed", "queued"}
          /\ Outcome(w).state \in {"delivered", "failed"} => Outcome(w).due = 0
      BY <1>3, <2>1, OutcomeRow DEF Record
    <2>3. rows' = [rows EXCEPT ![cur[w]] = Outcome(w)]
      BY <1>3 DEF Record
    <2> QED BY <2>1, <2>2, <2>3
  <1>4. ASSUME Tick
        PROVE  RowsAreSound'
    <2>1. \A i \in Id : rows'[i] = Aged(rows[i])
      BY <1>4 DEF Tick
    <2> QED BY <2>1, AgedRow
  <1>5. ASSUME NEW c \in Client, ClientStep(c), ~\E k \in Key : StoreNew(c, k)
        PROVE  UNCHANGED rows
    BY <1>5 DEF ClientStep, StoreRepeated, Acknowledge, LoseCall, tableVars
  <1>6. ASSUME NEW w \in Worker, Start(w) \/ Deliver(w) \/ Conflict(w) \/ Crash(w)
        PROVE  UNCHANGED rows
    BY <1>6 DEF Start, Deliver, Conflict, Crash, tableVars
  <1>7. UNCHANGED vars => UNCHANGED rows
    BY DEF vars, tableVars
  <1> HIDE DEF RowsAreSound
  <1> QED BY <1>0, <1>1, <1>2, <1>3, <1>4, <1>5, <1>6, <1>7 DEF Next, WorkerStep

LEMMA BatchesStep ==
    ASSUME TypeOK, QueueInvariant, [Next]_vars
    PROVE  BatchesAreSound'
  <1> USE DEF TypeOK, QueueInvariant, BatchesAreSound, HeldBy
  <1>0. CASE UNCHANGED <<rows, owner, batch, copy>>
    BY <1>0
  <1>1. ASSUME NEW c \in Client, NEW k \in Key, StoreNew(c, k)
        PROVE  BatchesAreSound'
    <2>1. PICK n \in Id : /\ rows[n].state = "none"
                          /\ rows' = [rows EXCEPT ![n] = Queued]
      BY <1>1 DEF StoreNew, Created
    <2>2. UNCHANGED <<owner, batch, copy>>
      BY <1>1 DEF StoreNew, workerVars
    <2> QED BY <2>1, <2>2, NewRow
  <1>2. ASSUME NEW w \in Worker, Start(w)
        PROVE  BatchesAreSound'
    <2>1. PICK o \in Owner : Fresh(o) /\ owner' = [owner EXCEPT ![w] = o]
      BY <1>2 DEF Start
    <2>2. \A i \in Id : rows[i].owner # o
      BY <2>1 DEF Fresh
    <2> QED BY <1>2, <2>1, <2>2 DEF Start, tableVars
  <1>3. ASSUME NEW w \in Worker, Claim(w)
        PROVE  BatchesAreSound'
    <2> DEFINE claim == Oldest({i \in Id : Claimable(rows[i])}, BatchSize)
    <2>1. claim \subseteq Id /\ \A i \in claim : Claimable(rows[i])
      BY DEF Oldest
    <2>2. owner[w] \in Owner /\ owner[w] # NoOwner /\ batch[w] = {}
      BY <1>3, LeasedRowsAssumption DEF Claim, WorkersAreSound
    <2>3. /\ \A i \in claim : rows'[i] = Claimed(rows[i], owner[w])
          /\ \A i \in Id \ claim : rows'[i] = rows[i]
          /\ batch' = [batch EXCEPT ![w] = claim]
          /\ copy'[w] = [i \in Id |-> IF i \in claim THEN rows[i].attempts + 1 ELSE 0]
          /\ \A v \in Worker \ {w} : copy'[v] = copy[v]
          /\ owner' = owner
      BY <1>3, <2>1 DEF Claim
    <2> HIDE DEF claim
    <2>4. \A i \in claim : /\ rows'[i].state = "delivering"
                           /\ rows'[i].owner = owner[w]
                           /\ rows'[i].due = Lease + 1
                           /\ rows'[i].attempts = rows[i].attempts + 1
      BY <2>1, <2>2, <2>3, ClaimedRow
    <2> SUFFICES ASSUME NEW v \in Worker, NEW i \in Id, HeldBy(rows'[i], owner[v])
                 PROVE  /\ i \in batch'[v]
                        /\ copy'[v][i] = rows'[i].attempts
                        /\ \A j \in batch'[v] :
                              \/ rows'[i].due = 0
                              \/ HeldBy(rows'[j], owner[v]) /\ rows'[j].due = rows'[i].due
      BY <2>3
    <2>5. CASE v = w
      <3>1. i \in claim
        BY <2>2, <2>3, <2>5
      <3> QED BY <2>1, <2>3, <2>4, <2>5, <3>1
    <2>6. CASE v # w
      <3>1. owner[v] # owner[w]
        BY <2>2, <2>6 DEF WorkersAreSound
      <3>2. i \notin claim
        BY <2>4, <3>1
      <3>3. rows'[i] = rows[i] /\ batch'[v] = batch[v] /\ copy'[v] = copy[v]
        BY <2>3, <2>6, <3>2
      <3>4. HeldBy(rows[i], owner[v])
        BY <3>3
      <3>5. \A j \in batch[v] : rows[i].due # 0 => rows[j].due # 0
        BY <3>4
      <3>6. \A j \in batch[v] : rows[i].due # 0 => rows'[j] = rows[j]
        BY <2>1, <2>3, <3>5 DEF Claimable
      <3> QED BY <3>3, <3>4, <3>6
    <2> QED BY <2>5, <2>6
  <1>4. ASSUME NEW w \in Worker, Record(w)
        PROVE  BatchesAreSound'
    <2>1. cur[w] \in Id /\ result[w] # "none" /\ copy[w][cur[w]] \in Nat \ {0}
      BY <1>4 DEF Record, WorkersAreSound
    <2>2. /\ Outcome(w).owner = NoOwner
          /\ Outcome(w).state # "delivering"
      BY <1>4, <2>1, OutcomeRow DEF Record
    <2>3. /\ rows' = [rows EXCEPT ![cur[w]] = Outcome(w)]
          /\ batch' = [batch EXCEPT ![w] = @ \ {cur[w]}]
          /\ copy' = [copy EXCEPT ![w][cur[w]] = 0]
          /\ owner' = owner
          /\ HeldBy(rows[cur[w]], owner[w])
      BY <1>4 DEF Record
    <2> SUFFICES ASSUME NEW v \in Worker, NEW i \in Id, HeldBy(rows'[i], owner[v])
                 PROVE  /\ i \in batch'[v]
                        /\ copy'[v][i] = rows'[i].attempts
                        /\ \A j \in batch'[v] :
                              \/ rows'[i].due = 0
                              \/ HeldBy(rows'[j], owner[v]) /\ rows'[j].due = rows'[i].due
      BY <2>3
    <2>4. i # cur[w] /\ rows'[i] = rows[i]
      BY <2>1, <2>2, <2>3
    <2>5. i \in batch[v] /\ copy[v][i] = rows[i].attempts
      BY <2>4
    <2>6. CASE v = w
      BY <2>1, <2>3, <2>4, <2>5, <2>6
    <2>7. CASE v # w
      <3>1. ~HeldBy(rows[cur[w]], owner[v])
        BY <2>3, <2>7, <1>4 DEF Record, WorkersAreSound
      <3> QED BY <2>1, <2>3, <2>4, <2>5, <2>7, <3>1
    <2> QED BY <2>6, <2>7
  <1>5. ASSUME NEW w \in Worker, Conflict(w) \/ Crash(w)
        PROVE  BatchesAreSound'
    <2>1. Stopped(w) /\ UNCHANGED rows
      BY <1>5 DEF Conflict, Crash, tableVars
    <2>2. \A i \in Id : ~HeldBy(rows[i], NoOwner)
      BY DEF RowsAreSound
    <2> QED BY <2>1, <2>2 DEF Stopped
  <1>6. ASSUME Tick
        PROVE  BatchesAreSound'
    <2>1. \A i \in Id : rows'[i] = Aged(rows[i])
      BY <1>6 DEF Tick
    <2>2. UNCHANGED <<owner, batch, copy>>
      BY <1>6 DEF Tick, workerVars
    <2>3. \A i \in Id : /\ rows'[i].state = rows[i].state
                        /\ rows'[i].owner = rows[i].owner
                        /\ rows'[i].attempts = rows[i].attempts
                        /\ rows'[i].due = IF rows[i].due = 0 THEN 0 ELSE rows[i].due - 1
      BY <2>1, AgedRow
    <2>4. \A v \in Worker, i \in Id : HeldBy(rows'[i], owner'[v]) <=> HeldBy(rows[i], owner[v])
      BY <2>2, <2>3
    <2>5. \A i, j \in Id : rows[i].due = rows[j].due => rows'[i].due = rows'[j].due
      BY <2>3
    <2>6. \A i \in Id : rows[i].due = 0 => rows'[i].due = 0
      BY <2>3
    <2> HIDE DEF HeldBy
    <2> QED BY <2>2, <2>3, <2>4, <2>5, <2>6
  <1>7. ASSUME NEW c \in Client, ClientStep(c), ~\E k \in Key : StoreNew(c, k)
        PROVE  UNCHANGED <<rows, owner, batch, copy>>
    BY <1>7 DEF ClientStep, StoreRepeated, Acknowledge, LoseCall, tableVars, workerVars
  <1>8. ASSUME NEW w \in Worker, Deliver(w)
        PROVE  UNCHANGED <<rows, owner, batch, copy>>
    BY <1>8 DEF Deliver, tableVars
  <1>9. UNCHANGED vars => UNCHANGED <<rows, owner, batch, copy>>
    BY DEF vars, tableVars, workerVars
  <1> HIDE DEF BatchesAreSound
  <1> QED BY <1>0, <1>1, <1>2, <1>3, <1>4, <1>5, <1>6, <1>7, <1>8, <1>9 DEF Next, WorkerStep

LEMMA LapsesStep ==
    ASSUME TypeOK, QueueInvariant, AttemptBudget, [Next]_vars
    PROVE  LapsesAreCounted'
  <1> USE DEF TypeOK, QueueInvariant, LapsesAreCounted, HeldBy
  <1>a. lapses \in Nat /\ MaxAttempts \in Nat
    BY ReportOutboxAssumption
  <1>b. \A i \in Id : ~HeldBy(rows[i], NoOwner)
    BY DEF RowsAreSound
  <1>0. CASE UNCHANGED <<rows, owner, lapses>>
    BY <1>0
  <1>1. ASSUME NEW c \in Client, NEW k \in Key, StoreNew(c, k)
        PROVE  LapsesAreCounted'
    <2>1. PICK n \in Id : rows' = [rows EXCEPT ![n] = Queued]
      BY <1>1 DEF StoreNew
    <2>2. UNCHANGED <<owner, lapses>>
      BY <1>1 DEF StoreNew, workerVars
    <2> QED BY <2>1, <2>2, NewRow
  <1>2. ASSUME NEW w \in Worker, Start(w)
        PROVE  LapsesAreCounted'
    <2>1. owner[w] = NoOwner /\ \A v \in Worker \ {w} : owner'[v] = owner[v]
      BY <1>2 DEF Start, WorkersAreSound
    <2> QED BY <1>2, <1>b, <2>1 DEF Start, tableVars
  <1>3. ASSUME NEW w \in Worker, Claim(w)
        PROVE  LapsesAreCounted'
    <2>1. owner[w] \in Owner
      BY <1>3 DEF Claim, WorkersAreSound
    <2>2. \A i \in Id : rows'[i] = rows[i] \/ rows'[i] = Claimed(rows[i], owner[w])
      BY <1>3 DEF Claim
    <2>3. UNCHANGED <<owner, lapses>>
      BY <1>3 DEF Claim
    <2>4. \A i \in Id : rows'[i] = rows[i] \/ (rows'[i].due # 0 /\ HeldBy(rows'[i], owner[w]))
      BY <2>1, <2>2, ClaimedRow, LeasedRowsAssumption
    <2> QED BY <2>3, <2>4
  <1>4. ASSUME NEW w \in Worker, Record(w)
        PROVE  LapsesAreCounted'
    <2>1. cur[w] \in Id /\ result[w] # "none" /\ copy[w][cur[w]] \in Nat \ {0}
      BY <1>4 DEF Record, WorkersAreSound
    <2>2. Outcome(w).state # "delivering"
      BY <1>4, <2>1, OutcomeRow DEF Record
    <2>3. rows' = [rows EXCEPT ![cur[w]] = Outcome(w)] /\ UNCHANGED <<owner, lapses>>
      BY <1>4 DEF Record
    <2> QED BY <2>1, <2>2, <2>3
  <1>5. ASSUME NEW w \in Worker, Conflict(w)
        PROVE  LapsesAreCounted'
    <2>1. Stopped(w) /\ UNCHANGED <<rows, lapses>>
      BY <1>5 DEF Conflict, tableVars
    <2>2. cur[w] \in batch[w] /\ ~HeldBy(rows[cur[w]], owner[w])
      BY <1>5 DEF Conflict, WorkersAreSound
    <2>3. \A i \in Id : HeldBy(rows[i], owner[w]) => rows[i].due = 0
      BY <2>2 DEF BatchesAreSound
    <2> QED BY <2>1, <2>3 DEF Stopped
  <1>6. ASSUME NEW w \in Worker, Crash(w)
        PROVE  LapsesAreCounted'
    <2>1. lapses' = lapses + 1 /\ UNCHANGED rows
      BY <1>6 DEF Crash, tableVars
    <2>2. \A i \in Id : rows[i].attempts \in Nat
      BY DEF Row
    <2> QED BY <1>a, <2>1, <2>2 DEF AttemptBudget
  <1>7. ASSUME Tick
        PROVE  LapsesAreCounted'
    <2>1. \A i \in Id : rows'[i] = Aged(rows[i])
      BY <1>7 DEF Tick
    <2>2. owner' = owner
      BY <1>7 DEF Tick, workerVars
    <2>3. lapses' \in {lapses, lapses + 1} /\ ((\E i \in Id : Overtaken(i)) => lapses' = lapses + 1)
      BY <1>7 DEF Tick
    <2> SUFFICES ASSUME NEW i \in Id, rows'[i].state = "delivering",
                        rows'[i].due = 0 \/ \A w \in Worker : ~HeldBy(rows'[i], owner[w])
                 PROVE  rows'[i].attempts < MaxAttempts + lapses'
      BY <2>2
    <2>4. /\ rows[i] \in Row /\ rows[i].attempts \in Nat /\ rows[i].due \in Nat
          /\ rows'[i].attempts = rows[i].attempts
          /\ rows[i].state = "delivering"
          /\ rows'[i].owner = rows[i].owner
          /\ rows'[i].due = IF rows[i].due = 0 THEN 0 ELSE rows[i].due - 1
      BY <2>1, AgedRow DEF Row
    <2>5. CASE rows[i].due = 0 \/ \A w \in Worker : ~HeldBy(rows[i], owner[w])
      BY <1>a, <2>3, <2>4, <2>5
    <2>6. CASE rows[i].due # 0 /\ \E w \in Worker : HeldBy(rows[i], owner[w])
      <3>1. rows[i].due = 1
        BY <2>4, <2>6
      <3>2. Overtaken(i)
        BY <2>6, <3>1 DEF Overtaken, BatchesAreSound
      <3> QED BY <1>a, <2>3, <2>4, <3>2 DEF AttemptBudget
    <2> QED BY <2>5, <2>6
  <1>8. ASSUME NEW c \in Client, ClientStep(c), ~\E k \in Key : StoreNew(c, k)
        PROVE  UNCHANGED <<rows, owner, lapses>>
    BY <1>8 DEF ClientStep, StoreRepeated, Acknowledge, LoseCall, tableVars, workerVars
  <1>9. ASSUME NEW w \in Worker, Deliver(w)
        PROVE  UNCHANGED <<rows, owner, lapses>>
    BY <1>9 DEF Deliver, tableVars
  <1>10. UNCHANGED vars => UNCHANGED <<rows, owner, lapses>>
    BY DEF vars, tableVars, workerVars
  <1> HIDE DEF LapsesAreCounted
  <1> QED BY <1>0, <1>1, <1>2, <1>3, <1>4, <1>5, <1>6, <1>7, <1>8, <1>9, <1>10
          DEF Next, WorkerStep

\* A stored row is never removed.
LEMMA CreatedGrows ==
    ASSUME TypeOK, QueueInvariant, [Next]_vars
    PROVE  /\ Created \subseteq Created'
           /\ (~\E c \in Client, k \in Key : StoreNew(c, k)) => Created' = Created
  <1> USE DEF TypeOK
  <1>0. CASE UNCHANGED rows
    BY <1>0 DEF Created
  <1>1. ASSUME NEW c \in Client, NEW k \in Key, StoreNew(c, k)
        PROVE  Created \subseteq Created'
    <2>1. PICK n \in Id : rows[n].state = "none" /\ rows' = [rows EXCEPT ![n] = Queued]
      BY <1>1 DEF StoreNew, Created
    <2> QED BY <2>1 DEF Created
  <1>2. ASSUME NEW w \in Worker, Claim(w)
        PROVE  Created' = Created
    <2>1. owner[w] \in Owner
      BY <1>2 DEF Claim, QueueInvariant, WorkersAreSound
    <2>2. \A i \in Id : \/ rows'[i] = rows[i]
                        \/ Claimable(rows[i]) /\ rows'[i] = Claimed(rows[i], owner[w])
      BY <1>2 DEF Claim, Oldest
    <2>3. \A i \in Id : rows'[i].state # "none" <=> rows[i].state # "none"
      BY <2>1, <2>2, ClaimedRow DEF Claimable
    <2> QED BY <2>3 DEF Created
  <1>3. ASSUME NEW w \in Worker, Record(w)
        PROVE  Created' = Created
    <2>1. cur[w] \in Id /\ result[w] # "none" /\ copy[w][cur[w]] \in Nat \ {0}
      BY <1>3 DEF Record, QueueInvariant, WorkersAreSound
    <2>2. Outcome(w).state # "none" /\ rows[cur[w]].state = "delivering"
      BY <1>3, <2>1, OutcomeRow DEF Record, HeldBy
    <2> QED BY <1>3, <2>1, <2>2 DEF Record, Created
  <1>4. ASSUME Tick
        PROVE  Created' = Created
    <2>1. \A i \in Id : rows'[i].state = rows[i].state
      BY <1>4, AgedRow DEF Tick
    <2> QED BY <2>1 DEF Created
  <1>5. ASSUME NEW c \in Client, ClientStep(c), ~\E k \in Key : StoreNew(c, k)
        PROVE  UNCHANGED rows
    BY <1>5 DEF ClientStep, StoreRepeated, Acknowledge, LoseCall, tableVars
  <1>6. ASSUME NEW w \in Worker, Start(w) \/ Deliver(w) \/ Conflict(w) \/ Crash(w)
        PROVE  UNCHANGED rows
    BY <1>6 DEF Start, Deliver, Conflict, Crash, tableVars
  <1>7. UNCHANGED vars => UNCHANGED rows
    BY DEF vars, tableVars
  <1>8. UNCHANGED rows => Created' = Created
    BY DEF Created
  <1> QED BY <1>1, <1>2, <1>3, <1>4, <1>5, <1>6, <1>7, <1>8 DEF Next, WorkerStep

LEMMA StoredStep ==
    ASSUME TypeOK, QueueInvariant, [Next]_vars
    PROVE  BatchesAreStored'
  <1> USE DEF TypeOK, QueueInvariant, BatchesAreStored
  <1>1. Created \subseteq Created'
    BY CreatedGrows
  <1>2. ASSUME NEW w \in Worker, Claim(w)
        PROVE  BatchesAreStored'
    <2> DEFINE claim == Oldest({i \in Id : Claimable(rows[i])}, BatchSize)
    <2>1. claim \subseteq Created
      BY DEF Oldest, Claimable, Created
    <2>2. batch' = [batch EXCEPT ![w] = claim]
      BY <1>2 DEF Claim
    <2> HIDE DEF claim
    <2> QED BY <1>1, <2>1, <2>2
  <1>3. ASSUME NEW w \in Worker, Record(w) \/ Conflict(w) \/ Crash(w)
        PROVE  \A v \in Worker : batch'[v] \subseteq batch[v]
    <2>1. PICK left \in SUBSET batch[w] : batch' = [batch EXCEPT ![w] = left]
      <3>1. CASE Record(w)
        BY <3>1 DEF Record
      <3>2. CASE Conflict(w) \/ Crash(w)
        BY <3>2 DEF Conflict, Crash, Stopped
      <3> QED BY <1>3, <3>1, <3>2
    <2> QED BY <2>1
  <1>4. ASSUME NEW w \in Worker, Start(w) \/ Deliver(w)
        PROVE  UNCHANGED batch
    BY <1>4 DEF Start, Deliver
  <1>5. (\E c \in Client : ClientStep(c)) \/ Tick \/ UNCHANGED vars => UNCHANGED batch
    BY DEF ClientStep, StoreNew, StoreRepeated, Acknowledge, LoseCall, Tick, vars, workerVars
  <1>6. (\A v \in Worker : batch'[v] \subseteq batch[v]) => BatchesAreStored'
    BY <1>1
  <1>7. UNCHANGED batch => BatchesAreStored'
    BY <1>1
  <1> HIDE DEF BatchesAreStored
  <1> QED BY <1>2, <1>3, <1>4, <1>5, <1>6, <1>7 DEF Next, WorkerStep

LEMMA BudgetStep ==
    ASSUME TypeOK, QueueInvariant, AttemptBudget, [Next]_vars
    PROVE  AttemptBudget'
  <1> USE DEF TypeOK, QueueInvariant, AttemptBudget, HeldBy
  <1>a. /\ lapses \in Nat /\ MaxAttempts \in Nat /\ MaxAttempts > 0
        /\ \A i \in Id : rows[i].attempts \in Nat
    BY ReportOutboxAssumption DEF Row
  <1>0. CASE UNCHANGED rows /\ lapses' \in {lapses, lapses + 1}
    BY <1>0, <1>a
  <1>1. ASSUME NEW c \in Client, NEW k \in Key, StoreNew(c, k)
        PROVE  AttemptBudget'
    <2>1. PICK n \in Id : rows' = [rows EXCEPT ![n] = Queued]
      BY <1>1 DEF StoreNew
    <2>2. UNCHANGED lapses
      BY <1>1 DEF StoreNew
    <2> QED BY <1>a, <2>1, <2>2, NewRow
  <1>2. ASSUME NEW w \in Worker, Claim(w)
        PROVE  AttemptBudget'
    <2>1. owner[w] \in Owner
      BY <1>2 DEF Claim, WorkersAreSound
    <2>2. \A i \in Id : \/ rows'[i] = rows[i]
                        \/ Claimable(rows[i]) /\ rows'[i] = Claimed(rows[i], owner[w])
      BY <1>2 DEF Claim, Oldest
    <2>3. UNCHANGED lapses
      BY <1>2 DEF Claim
    <2>4. \A i \in Id : Claimable(rows[i]) => rows[i].attempts < MaxAttempts + lapses
      BY <1>a DEF Claimable, LapsesAreCounted
    <2>5. \A i \in Id : \/ rows'[i] = rows[i]
                        \/ /\ rows'[i].state = "delivering"
                           /\ rows'[i].attempts <= MaxAttempts + lapses
      <3>1. ASSUME NEW i \in Id, Claimable(rows[i]), rows'[i] = Claimed(rows[i], owner[w])
            PROVE  /\ rows'[i].state = "delivering"
                   /\ rows'[i].attempts <= MaxAttempts + lapses
        <4>1. /\ Claimed(rows[i], owner[w]).state = "delivering"
              /\ Claimed(rows[i], owner[w]).attempts = rows[i].attempts + 1
          BY <2>1, ClaimedRow
        <4>2. rows[i].attempts < MaxAttempts + lapses
          BY <2>4, <3>1
        <4> QED BY <1>a, <3>1, <4>1, <4>2
      <3> QED BY <2>2, <3>1
    <2> QED BY <2>3, <2>5
  <1>3. ASSUME NEW w \in Worker, Record(w)
        PROVE  AttemptBudget'
    <2>1. cur[w] \in Id /\ result[w] # "none" /\ copy[w][cur[w]] \in Nat \ {0}
      BY <1>3 DEF Record, WorkersAreSound
    <2>2. copy[w][cur[w]] = rows[cur[w]].attempts
      BY <1>3, <2>1 DEF Record, BatchesAreSound
    <2>3. /\ Outcome(w).attempts = rows[cur[w]].attempts
          /\ Outcome(w).state = "queued" => copy[w][cur[w]] < MaxAttempts
      BY <1>3, <2>1, OutcomeRow DEF Record
    <2>4. rows' = [rows EXCEPT ![cur[w]] = Outcome(w)] /\ UNCHANGED lapses
      BY <1>3 DEF Record
    <2> QED BY <2>1, <2>2, <2>3, <2>4
  <1>4. ASSUME Tick
        PROVE  AttemptBudget'
    <2>1. \A i \in Id : rows'[i].attempts = rows[i].attempts /\ rows'[i].state = rows[i].state
      BY <1>4, AgedRow DEF Tick
    <2>2. lapses' \in {lapses, lapses + 1}
      BY <1>4 DEF Tick
    <2> QED BY <1>a, <2>1, <2>2
  <1>5. ASSUME NEW c \in Client, ClientStep(c), ~\E k \in Key : StoreNew(c, k)
        PROVE  UNCHANGED <<rows, lapses>>
    BY <1>5 DEF ClientStep, StoreRepeated, Acknowledge, LoseCall, tableVars
  <1>6. ASSUME NEW w \in Worker, Start(w) \/ Deliver(w) \/ Conflict(w) \/ Crash(w)
        PROVE  UNCHANGED rows /\ lapses' \in {lapses, lapses + 1}
    BY <1>6 DEF Start, Deliver, Conflict, Crash, tableVars
  <1>7. UNCHANGED vars => UNCHANGED <<rows, lapses>>
    BY DEF vars, tableVars
  <1> HIDE DEF AttemptBudget
  <1> QED BY <1>0, <1>1, <1>2, <1>3, <1>4, <1>5, <1>6, <1>7 DEF Next, WorkerStep

LEMMA CauseStep ==
    ASSUME TypeOK, QueueInvariant, SettledForCause, [Next]_vars
    PROVE  SettledForCause'
  <1> USE DEF TypeOK, QueueInvariant, SettledForCause
  <1>0. CASE UNCHANGED <<rows, received, refused>>
    BY <1>0
  <1>1. ASSUME NEW c \in Client, NEW k \in Key, StoreNew(c, k)
        PROVE  SettledForCause'
    <2>1. PICK n \in Id : rows' = [rows EXCEPT ![n] = Queued]
      BY <1>1 DEF StoreNew
    <2>2. UNCHANGED <<received, refused>>
      BY <1>1 DEF StoreNew, history
    <2> QED BY <2>1, <2>2, NewRow
  <1>2. ASSUME NEW w \in Worker, Claim(w)
        PROVE  SettledForCause'
    <2>1. owner[w] \in Owner
      BY <1>2 DEF Claim, WorkersAreSound
    <2>2. \A i \in Id : rows'[i] = rows[i] \/ rows'[i] = Claimed(rows[i], owner[w])
      BY <1>2 DEF Claim
    <2>3. \A i \in Id : rows'[i] = rows[i] \/ rows'[i].state = "delivering"
      BY <2>1, <2>2, ClaimedRow
    <2>4. UNCHANGED <<received, refused>>
      BY <1>2 DEF Claim, history
    <2> QED BY <2>3, <2>4
  <1>3. ASSUME NEW w \in Worker, Deliver(w)
        PROVE  SettledForCause'
    <2>1. UNCHANGED rows /\ received \subseteq received' /\ refused \subseteq refused'
      BY <1>3 DEF Deliver, tableVars
    <2> QED BY <2>1
  <1>4. ASSUME NEW w \in Worker, Record(w)
        PROVE  SettledForCause'
    <2>1. cur[w] \in Id /\ result[w] # "none" /\ copy[w][cur[w]] \in Nat \ {0}
      BY <1>4 DEF Record, WorkersAreSound
    <2>2. copy[w][cur[w]] = rows[cur[w]].attempts
      BY <1>4, <2>1 DEF Record, BatchesAreSound
    <2>3. /\ Outcome(w).attempts = rows[cur[w]].attempts
          /\ Outcome(w).state = "delivered" => result[w] = "ok"
          /\ Outcome(w).state = "failed" =>
                result[w] = "permanent" \/ copy[w][cur[w]] >= MaxAttempts
      BY <1>4, <2>1, OutcomeRow DEF Record
    <2>4. /\ rows' = [rows EXCEPT ![cur[w]] = Outcome(w)]
          /\ UNCHANGED <<received, refused>>
      BY <1>4 DEF Record, history
    <2> QED BY <2>1, <2>2, <2>3, <2>4 DEF WorkersAreSound
  <1>5. ASSUME Tick
        PROVE  SettledForCause'
    <2>1. \A i \in Id : rows'[i].attempts = rows[i].attempts /\ rows'[i].state = rows[i].state
      BY <1>5, AgedRow DEF Tick
    <2>2. UNCHANGED <<received, refused>>
      BY <1>5 DEF Tick, history
    <2> QED BY <2>1, <2>2
  <1>6. ASSUME NEW c \in Client, ClientStep(c), ~\E k \in Key : StoreNew(c, k)
        PROVE  UNCHANGED <<rows, received, refused>>
    BY <1>6 DEF ClientStep, StoreRepeated, Acknowledge, LoseCall, tableVars, history
  <1>7. ASSUME NEW w \in Worker, Start(w) \/ Conflict(w) \/ Crash(w)
        PROVE  UNCHANGED <<rows, received, refused>>
    BY <1>7 DEF Start, Conflict, Crash, tableVars, history
  <1>8. UNCHANGED vars => UNCHANGED <<rows, received, refused>>
    BY DEF vars, tableVars, history
  <1> HIDE DEF SettledForCause
  <1> QED BY <1>0, <1>1, <1>2, <1>3, <1>4, <1>5, <1>6, <1>7, <1>8 DEF Next, WorkerStep

-----------------------------------------------------------------------------
(* The theorems.                                                           *)

\* The inductive invariant: types, the soundness of workers, rows and batches,
\* and the two safety properties of the queue itself.
Inv == TypeOK /\ QueueInvariant /\ AttemptBudget /\ SettledForCause

LEMMA InvInit == Init => Inv
  BY NewRow, LeasedRowsAssumption, ReportOutboxAssumption
     DEF Init, Inv, TypeOK, QueueInvariant, WorkersAreSound, RowsAreSound,
         BatchesAreStored, Created, BatchesAreSound, LapsesAreCounted, AttemptBudget, SettledForCause, HeldBy, Result

LEMMA InvStep == Inv /\ [Next]_vars => Inv'
  BY TypeStep, WorkersStep, StoredStep, RowsStep, BatchesStep, LapsesStep, BudgetStep, CauseStep
     DEF Inv, QueueInvariant

\* In every state the program reaches, rows, calls and workers have their types.
THEOREM TypeInvariance == Spec => []TypeOK
  <1>1. Inv => TypeOK
    BY DEF Inv
  <1> QED BY <1>1, InvInit, InvStep, PTL DEF Spec

\* The strengthening holds in every reachable state (WorkersAreSound and so on).
THEOREM QueueInvariance == Spec => []QueueInvariant
  <1>1. Inv => QueueInvariant
    BY DEF Inv
  <1> QED BY <1>1, InvInit, InvStep, PTL DEF Spec

\* RunDelivery's retry budget holds for any number of workers and submissions:
\* only a lapse can take a row past reportDeliveryMaxAttempts.
THEOREM RetriesAreBounded == Spec => []AttemptBudget
  <1>1. Inv => AttemptBudget
    BY DEF Inv
  <1> QED BY <1>1, InvInit, InvStep, PTL DEF Spec

\* No row is recorded as delivered without having been received, nor as failed
\* while a retry was due (Complete and Fail in RunDelivery).
THEOREM OutcomesAreTrue == Spec => []SettledForCause
  <1>1. Inv => SettledForCause
    BY DEF Inv
  <1> QED BY <1>1, InvInit, InvStep, PTL DEF Spec

\* A worker whose lease was taken over changes nothing, and settled rows are final
\* (the WHERE clauses of Complete, Retry and Fail).
THEOREM ClaimsEndByHolders == Spec => ClaimEndsByHolder
  <1> DEFINE Ended ==
        \A i \in Id :
          /\ rows[i].state \in {"delivered", "failed"} => rows'[i] = rows[i]
          /\ rows[i].state = "delivering" /\ rows'[i].owner # rows[i].owner =>
                \/ rows[i].due = 0 /\ rows'[i].state = "delivering"
                \/ \E w \in Worker : cur[w] = i /\ owner[w] = rows[i].owner
  <1>1. Inv /\ [Next]_vars => [Ended]_vars
    <2> SUFFICES ASSUME Inv, Next
                 PROVE  Ended
      OBVIOUS
    <2> USE DEF Inv, TypeOK
    <2>1. CASE UNCHANGED rows
      BY <2>1
    <2>2. ASSUME NEW c \in Client, NEW k \in Key, StoreNew(c, k)
          PROVE  Ended
      <3>1. PICK n \in Id : rows[n].state = "none" /\ rows' = [rows EXCEPT ![n] = Queued]
        BY <2>2 DEF StoreNew, Created
      <3> QED BY <3>1
    <2>3. ASSUME NEW w \in Worker, Claim(w)
          PROVE  Ended
      <3>1. owner[w] \in Owner
        BY <2>3 DEF Claim, QueueInvariant, WorkersAreSound
      <3>2. \A i \in Id : \/ rows'[i] = rows[i]
                          \/ Claimable(rows[i]) /\ rows'[i] = Claimed(rows[i], owner[w])
        BY <2>3 DEF Claim, Oldest
      <3>3. \A i \in Id : \/ rows'[i] = rows[i]
                          \/ Claimable(rows[i]) /\ rows'[i].state = "delivering"
        BY <3>1, <3>2, ClaimedRow
      <3> QED BY <3>3 DEF Claimable
    <2>4. ASSUME NEW w \in Worker, Record(w)
          PROVE  Ended
      BY <2>4 DEF Record, HeldBy
    <2>5. ASSUME Tick
          PROVE  Ended
      <3>1. \A i \in Id : rows'[i] = Aged(rows[i])
        BY <2>5 DEF Tick
      <3>2. \A i \in Id : rows[i].due = 0 => Aged(rows[i]) = rows[i]
        BY DEF Aged, Row
      <3>3. \A i \in Id : rows[i].state \in {"delivered", "failed"} => rows[i].due = 0
        BY DEF QueueInvariant, RowsAreSound
      <3>4. \A i \in Id : rows'[i].owner = rows[i].owner
        BY <3>1, AgedRow
      <3> QED BY <3>1, <3>2, <3>3, <3>4
    <2>6. ASSUME NEW c \in Client, ClientStep(c), ~\E k \in Key : StoreNew(c, k)
          PROVE  UNCHANGED rows
      BY <2>6 DEF ClientStep, StoreRepeated, Acknowledge, LoseCall, tableVars
    <2>7. ASSUME NEW w \in Worker, Start(w) \/ Deliver(w) \/ Conflict(w) \/ Crash(w)
          PROVE  UNCHANGED rows
      BY <2>7 DEF Start, Deliver, Conflict, Crash, tableVars
    <2> HIDE DEF Ended
    <2> QED BY <2>1, <2>2, <2>3, <2>4, <2>5, <2>6, <2>7 DEF Next, WorkerStep
  <1> QED BY <1>1, InvInit, InvStep, PTL DEF Spec, ClaimEndsByHolder

\* A key has one row, the calls in progress and those answered know that row.
KeysAreSound ==
    /\ \A i \in Id : keyOf[i] # NoKey <=> i \in Created
    /\ \A c \in Client : call[c] # 0 => call[c] \in Created
    /\ \A k \in Key : \A i \in acked[k] : i \in Created /\ keyOf[i] = k
    /\ \A i, j \in Created : keyOf[i] = keyOf[j] => i = j

\* Calls with one idempotency key get one submission, however they interleave
\* (the ON CONFLICT clause of CreateReportSubmission).
THEOREM KeysAreIdempotent == Spec => []OneSubmissionPerKey
  <1>1. Init => KeysAreSound
    BY NewRow DEF Init, KeysAreSound, Created
  <1>2. Inv /\ KeysAreSound /\ [Next]_vars => KeysAreSound'
    <2> SUFFICES ASSUME Inv, KeysAreSound, [Next]_vars
                 PROVE  KeysAreSound'
      OBVIOUS
    <2> USE DEF Inv, TypeOK, KeysAreSound
    <2>1. CASE UNCHANGED <<keyOf, clientVars>> /\ Created' = Created
      BY <2>1 DEF clientVars
    <2>2. ASSUME NEW c \in Client, NEW k \in Key, StoreNew(c, k)
          PROVE  KeysAreSound'
      <3>1. PICK n \in Id \ Created : /\ rows' = [rows EXCEPT ![n] = Queued]
                                      /\ keyOf' = [keyOf EXCEPT ![n] = k]
                                      /\ call' = [call EXCEPT ![c] = n]
        BY <2>2 DEF StoreNew
      <3>2. Created' = Created \cup {n}
        BY <3>1, NewRow DEF Created
      <3>3. acked' = acked /\ k # NoKey /\ \A i \in Id : keyOf[i] # k
        BY <2>2, ReportOutboxAssumption DEF StoreNew
      <3>4. Created \subseteq Id /\ \A j \in Key : acked[j] \subseteq Id
        BY DEF Created
      <3> QED BY <3>1, <3>2, <3>3, <3>4
    <2>3. ASSUME NEW c \in Client, NEW k \in Key, StoreRepeated(c, k)
          PROVE  KeysAreSound'
      <3>1. PICK i \in Id : keyOf[i] = k /\ call' = [call EXCEPT ![c] = i]
        BY <2>3 DEF StoreRepeated
      <3>2. i \in Created /\ Created' = Created /\ UNCHANGED <<keyOf, acked>>
        BY <2>3, <3>1, ReportOutboxAssumption DEF StoreRepeated, Created, tableVars
      <3> QED BY <3>1, <3>2
    <2>4. ASSUME NEW c \in Client, Acknowledge(c)
          PROVE  KeysAreSound'
      <3>1. Created' = Created /\ keyOf' = keyOf
        BY <2>4 DEF Acknowledge, Created, tableVars
      <3>2. call' = [call EXCEPT ![c] = 0] /\ call[c] \in Created
        BY <2>4 DEF Acknowledge
      <3>3. keyOf[call[c]] \in Key /\ call[c] \in Id
        <4>1. call[c] \in Id /\ keyOf[call[c]] # NoKey
          BY <3>2 DEF Created
        <4> QED BY <4>1
      <3>4. PICK n : n = call[c]
        OBVIOUS
      <3>5. PICK h \in Key : h = keyOf[n]
        BY <3>3, <3>4
      <3>6. acked' = [acked EXCEPT ![h] = acked[h] \cup {n}]
        BY <2>4, <3>4, <3>5 DEF Acknowledge
      <3>7. \A k \in Key : acked'[k] = acked[k] \/ (k = h /\ acked'[k] = acked[k] \cup {n})
        BY <3>6
      <3>8. \A k \in Key : \A i \in acked'[k] : i \in Created /\ keyOf[i] = k
        BY <3>2, <3>4, <3>5, <3>7
      <3>9. \A d \in Client : call'[d] # 0 => call'[d] \in Created
        BY <3>2
      <3> QED BY <3>1, <3>8, <3>9
    <2>5. ASSUME NEW c \in Client, LoseCall(c)
          PROVE  KeysAreSound'
      BY <2>5 DEF LoseCall, Created, tableVars
    <2>6. ASSUME NEW w \in Worker, WorkerStep(w) \/ Crash(w)
          PROVE  UNCHANGED <<keyOf, clientVars>> /\ Created' = Created
      <3>1. UNCHANGED <<keyOf, clientVars>> /\ ~\E c \in Client, k \in Key : StoreNew(c, k)
        BY <2>6 DEF WorkerStep, Start, Claim, Deliver, Record, Conflict, Crash, tableVars,
                    StoreNew, workerVars
      <3> QED BY <2>6, <3>1, CreatedGrows DEF Next
    <2>7. ASSUME Tick
          PROVE  UNCHANGED <<keyOf, clientVars>> /\ Created' = Created
      <3>1. \A i \in Id : rows'[i].state = rows[i].state
        BY <2>7, AgedRow DEF Tick
      <3> QED BY <2>7, <3>1 DEF Tick, Created
    <2>8. UNCHANGED vars => UNCHANGED <<keyOf, clientVars>> /\ Created' = Created
      BY DEF vars, tableVars, Created
    <2> HIDE DEF KeysAreSound
    <2> QED BY <2>1, <2>2, <2>3, <2>4, <2>5, <2>6, <2>7, <2>8 DEF Next, ClientStep
  <1>3. KeysAreSound => OneSubmissionPerKey
    BY DEF KeysAreSound, OneSubmissionPerKey
  <1> QED BY <1>1, <1>2, <1>3, InvInit, InvStep, PTL DEF Spec

\* The outbox implements its promise: every step of clients, workers and clock is
\* a step of DeliveryPromise or leaves what it promises about unchanged.
THEOREM OutboxImplementsPromise == Spec => Promise!SafeSpec
  <1> DEFINE bar(r) == IF r.state \in {"queued", "delivering"} THEN "pending" ELSE r.state
             status == [i \in Id |-> bar(rows[i])]
  <1>1. Init => Promise!Init
    BY NewRow DEF Init, Promise!Init
  <1>2. Inv /\ [Next]_vars => [Promise!Next]_(Promise!vars)
    <2> SUFFICES ASSUME Inv, [Next]_vars
                 PROVE  Promise!Next \/ UNCHANGED <<status, received>>
      BY DEF Promise!vars
    <2> USE DEF Inv, TypeOK
    <2>1. ASSUME UNCHANGED received, \A i \in Id : bar(rows'[i]) = bar(rows[i])
          PROVE  UNCHANGED <<status, received>>
      BY <2>1
    <2>2. ASSUME NEW c \in Client, NEW k \in Key, StoreNew(c, k)
          PROVE  Promise!Next
      <3>1. PICK n \in Id : rows[n].state = "none" /\ rows' = [rows EXCEPT ![n] = Queued]
        BY <2>2 DEF StoreNew, Created
      <3>2. Promise!Accept(n)
        BY <2>2, <3>1, NewRow DEF StoreNew, Promise!Accept, history
      <3> QED BY <3>2 DEF Promise!Next
    <2>3. ASSUME NEW w \in Worker, Claim(w)
          PROVE  UNCHANGED <<status, received>>
      <3>1. owner[w] \in Owner
        BY <2>3 DEF Claim, QueueInvariant, WorkersAreSound
      <3>2. \A i \in Id : \/ rows'[i] = rows[i]
                          \/ Claimable(rows[i]) /\ rows'[i] = Claimed(rows[i], owner[w])
        BY <2>3 DEF Claim, Oldest
      <3>3. \A i \in Id : bar(rows'[i]) = bar(rows[i])
        BY <3>1, <3>2, ClaimedRow DEF Claimable
      <3> QED BY <2>1, <2>3, <3>3 DEF Claim, history
    <2>4. ASSUME NEW w \in Worker, Deliver(w)
          PROVE  Promise!Next \/ UNCHANGED <<status, received>>
      <3>1. UNCHANGED rows
        BY <2>4 DEF Deliver, tableVars
      <3>2. PICK i \in Id : /\ i \in batch[w]
                            /\ received' \in {received, received \cup {i}}
        BY <2>4 DEF Deliver
      <3>3. CASE received' = received
        BY <3>1, <3>3
      <3>4. CASE received' # received /\ rows[i].state # "none"
        <4>1. Promise!Arrive(i)
          BY <3>1, <3>2, <3>4 DEF Promise!Arrive
        <4> QED BY <4>1 DEF Promise!Next
      <3>5. rows[i].state # "none"
        BY <3>2 DEF QueueInvariant, BatchesAreStored, Created
      <3> QED BY <3>3, <3>4, <3>5
    <2>5. ASSUME NEW w \in Worker, Record(w)
          PROVE  Promise!Next \/ UNCHANGED <<status, received>>
      <3>1. PICK i \in Id : i = cur[w]
        BY <2>5 DEF Record, QueueInvariant, WorkersAreSound
      <3>2. /\ Outcome(w).state \in {"delivered", "failed", "queued"}
            /\ Outcome(w).state = "delivered" => i \in received
        <4>1. result[w] # "none" /\ copy[w][i] \in Nat \ {0}
          BY <2>5, <3>1 DEF Record, QueueInvariant, WorkersAreSound
        <4> QED BY <2>5, <3>1, <4>1, OutcomeRow DEF Record, QueueInvariant, WorkersAreSound
      <3>3. /\ rows' = [rows EXCEPT ![i] = Outcome(w)] /\ UNCHANGED received
            /\ rows[i].state = "delivering"
        BY <2>5, <3>1 DEF Record, history, HeldBy
      <3>a. \A k \in Id : rows'[k] = IF k = i THEN Outcome(w) ELSE rows[k]
        BY <3>1, <3>3
      <3>4. CASE Outcome(w).state = "delivered"
        <4>1. [k \in Id |-> bar(rows'[k])] = [status EXCEPT ![i] = "delivered"]
          BY <3>a, <3>1, <3>4
        <4>2. Promise!Deliver(i)
          BY <3>1, <3>2, <3>3, <3>4, <4>1 DEF Promise!Deliver
        <4> QED BY <3>1, <4>2 DEF Promise!Next
      <3>5. CASE Outcome(w).state = "failed"
        <4>1. [k \in Id |-> bar(rows'[k])] = [status EXCEPT ![i] = "failed"]
          BY <3>a, <3>1, <3>5
        <4>2. Promise!Fail(i)
          BY <3>1, <3>3, <4>1 DEF Promise!Fail
        <4> QED BY <3>1, <4>2 DEF Promise!Next
      <3>6. CASE Outcome(w).state = "queued"
        BY <3>1, <3>3, <3>6
      <3> QED BY <3>2, <3>4, <3>5, <3>6
    <2>6. ASSUME Tick
          PROVE  UNCHANGED <<status, received>>
      <3>1. \A i \in Id : rows'[i].state = rows[i].state
        BY <2>6, AgedRow DEF Tick
      <3> QED BY <2>6, <3>1 DEF Tick, history
    <2>7. ASSUME NEW c \in Client, ClientStep(c), ~\E k \in Key : StoreNew(c, k)
          PROVE  UNCHANGED <<rows, received>>
      BY <2>7 DEF ClientStep, StoreRepeated, Acknowledge, LoseCall, tableVars, history
    <2>8. ASSUME NEW w \in Worker, Start(w) \/ Conflict(w) \/ Crash(w)
          PROVE  UNCHANGED <<rows, received>>
      BY <2>8 DEF Start, Conflict, Crash, tableVars, history
    <2>9. UNCHANGED vars => UNCHANGED <<rows, received>>
      BY DEF vars, tableVars, history
    <2> QED BY <2>1, <2>2, <2>3, <2>4, <2>5, <2>6, <2>7, <2>8, <2>9 DEF Next, WorkerStep
  <1> QED BY <1>1, <1>2, InvInit, InvStep, PTL DEF Spec, Promise!SafeSpec

-----------------------------------------------------------------------------
(* Claims, deliveries and lapses are counted.                              *)

\* The workers that have yet to send the row, whether they still hold it or not.
Owing == [i \in Id |-> {w \in Worker : i \in batch[w] /\ cur[w] # i}]

\* The workers with the row in hand whose lease on it has run out or was taken over.
Late ==
    [i \in Id |-> {w \in Worker : /\ i \in batch[w]
                                  /\ HeldBy(rows[i], owner[w]) => rows[i].due = 0}]

\* Every claim pays for one delivery, made or owed, and every late worker for a lapse.
CountsAreSound ==
    \A i \in Id :
        /\ rows[i].state = "none" => rows[i].attempts = 0
        /\ sent[i] + Cardinality(Owing[i]) <= rows[i].attempts
        /\ Cardinality(Late[i]) <= lapses

\* A worker that has sent nothing since it last recorded.
NothingSent == \A w \in Worker : pc[w] # "answered" => cur[w] = 0

LEMMA NothingSentStep ==
    ASSUME TypeOK, NothingSent, [Next]_vars
    PROVE  NothingSent'
  <1> USE DEF TypeOK, NothingSent
  <1>1. ASSUME NEW w \in Worker, WorkerStep(w) \/ Crash(w)
        PROVE  NothingSent'
    BY <1>1 DEF WorkerStep, Start, Claim, Deliver, Record, Conflict, Crash, Stopped
  <1>2. (\E c \in Client : ClientStep(c)) \/ Tick \/ UNCHANGED vars => UNCHANGED <<pc, cur>>
    BY DEF ClientStep, StoreNew, StoreRepeated, Acknowledge, LoseCall, Tick, vars, workerVars
  <1> QED BY <1>1, <1>2 DEF Next

LEMMA WorkersAreCounted ==
    ASSUME NEW S \in SUBSET Worker, NEW T \in SUBSET Worker, NEW w
    PROVE  /\ IsFiniteSet(S) /\ Cardinality(S) \in Nat /\ Cardinality(T) \in Nat
           /\ S \subseteq T => Cardinality(S) <= Cardinality(T)
           /\ S \subseteq T \cup {w} => Cardinality(S) <= Cardinality(T) + 1
           /\ w \in T /\ S \subseteq T \ {w} => Cardinality(S) + 1 <= Cardinality(T)
  <1>1. \A V \in SUBSET Worker : IsFiniteSet(V) /\ Cardinality(V) \in Nat
    BY FS_Subset, FS_CardinalityType, ReportOutboxAssumption
  <1>2. S \subseteq T => Cardinality(S) <= Cardinality(T)
    BY <1>1, FS_Subset
  <1>3. S \subseteq T \cup {w} => Cardinality(S) <= Cardinality(T) + 1
    <2>1. /\ IsFiniteSet(T \cup {w})
          /\ Cardinality(T \cup {w}) = IF w \in T THEN Cardinality(T) ELSE Cardinality(T) + 1
      BY <1>1, FS_AddElement
    <2>2. S \subseteq T \cup {w} => Cardinality(S) <= Cardinality(T \cup {w})
      BY <2>1, FS_Subset
    <2>3. Cardinality(S) \in Nat /\ Cardinality(T) \in Nat /\ Cardinality(T \cup {w}) \in Nat
      BY <1>1, <2>1, FS_CardinalityType
    <2> QED BY <2>1, <2>2, <2>3
  <1>4. w \in T /\ S \subseteq T \ {w} => Cardinality(S) + 1 <= Cardinality(T)
    <2>1. /\ IsFiniteSet(T \ {w})
          /\ w \in T => Cardinality(T \ {w}) = Cardinality(T) - 1
      BY <1>1, FS_RemoveElement
    <2>2. S \subseteq T \ {w} => Cardinality(S) <= Cardinality(T \ {w})
      BY <2>1, FS_Subset
    <2>3. Cardinality(S) \in Nat /\ Cardinality(T) \in Nat /\ Cardinality(T \ {w}) \in Nat
      BY <1>1, <2>1, FS_CardinalityType
    <2> QED BY <2>1, <2>2, <2>3
  <1> QED BY <1>1, <1>2, <1>3, <1>4

LEMMA CountsStep ==
    ASSUME TypeOK, QueueInvariant, NothingSent, CountsAreSound, [Next]_vars
    PROVE  CountsAreSound'
  <1> USE DEF TypeOK
  <1>a. TypeOK'
    BY TypeStep
  <1>b. /\ lapses \in Nat /\ lapses' \in Nat
        /\ \A i \in Id : i # 0
        /\ \A i \in Id : /\ rows[i].attempts \in Nat /\ rows[i].due \in Nat
                         /\ sent[i] \in Nat
    BY <1>a, ReportOutboxAssumption DEF Row
  <1>c. \A w \in Worker : pc[w] # "answered" => cur[w] = 0
    BY DEF NothingSent
  <1>d. SUFFICES ASSUME NEW i \in Id
                 PROVE  /\ rows'[i].state = "none" => rows'[i].attempts = 0
                        /\ sent'[i] + Cardinality(Owing'[i]) <= rows'[i].attempts
                        /\ Cardinality(Late'[i]) <= lapses'
    BY DEF CountsAreSound
  <1>e. /\ Owing[i] \in SUBSET Worker /\ Owing'[i] \in SUBSET Worker
        /\ Late[i] \in SUBSET Worker /\ Late'[i] \in SUBSET Worker
        /\ Cardinality(Owing[i]) \in Nat /\ Cardinality(Owing'[i]) \in Nat
        /\ Cardinality(Late[i]) \in Nat /\ Cardinality(Late'[i]) \in Nat
    BY WorkersAreCounted DEF Owing, Late
  <1>f. /\ rows[i].state = "none" => rows[i].attempts = 0
        /\ sent[i] + Cardinality(Owing[i]) <= rows[i].attempts
        /\ Cardinality(Late[i]) <= lapses
    BY DEF CountsAreSound
  <1>g. \A v \in Worker : /\ v \in Owing[i] <=> i \in batch[v] /\ cur[v] # i
                          /\ v \in Owing'[i] <=> i \in batch'[v] /\ cur'[v] # i
    BY DEF Owing
  <1>h. \A v \in Worker :
           /\ v \in Late[i] <=> i \in batch[v] /\ (HeldBy(rows[i], owner[v]) => rows[i].due = 0)
           /\ v \in Late'[i] <=> /\ i \in batch'[v]
                                 /\ HeldBy(rows'[i], owner'[v]) => rows'[i].due = 0
    BY DEF Late
  <1> DEFINE Goal == /\ rows'[i].state = "none" => rows'[i].attempts = 0
                     /\ sent'[i] + Cardinality(Owing'[i]) <= rows'[i].attempts
                     /\ Cardinality(Late'[i]) <= lapses'
  \* Steps after which the row has as many attempts and deliveries as before, and no
  \* worker owes more and none more is late.
  <1>k. ASSUME rows'[i].state = "none" => rows'[i].attempts = 0,
               rows'[i].attempts = rows[i].attempts, sent'[i] = sent[i], lapses' >= lapses,
               Owing'[i] \subseteq Owing[i], Late'[i] \subseteq Late[i]
        PROVE  Goal
    <2>1. /\ Cardinality(Owing'[i]) <= Cardinality(Owing[i])
          /\ Cardinality(Late'[i]) <= Cardinality(Late[i])
      BY <1>e, <1>k, WorkersAreCounted
    <2> QED BY <1>b, <1>e, <1>f, <1>k, <2>1
  \* Steps that leave workers, row i and its deliveries alone.
  <1>0. CASE UNCHANGED <<workerVars, sent, lapses>> /\ rows'[i] = rows[i]
    <2>1. UNCHANGED <<pc, owner, batch, cur, sent, lapses>>
      BY <1>0 DEF workerVars
    <2>2. Owing'[i] \subseteq Owing[i] /\ Late'[i] \subseteq Late[i]
      BY <1>0, <1>e, <1>g, <1>h, <2>1
    <2> QED BY <1>0, <1>b, <1>c, <1>f, <2>1, <2>2, <1>k
  <1>1. ASSUME NEW c \in Client, NEW k \in Key, StoreNew(c, k)
        PROVE  Goal
    <2>1. PICK n \in Id : rows[n].state = "none" /\ rows' = [rows EXCEPT ![n] = Queued]
      BY <1>1 DEF StoreNew, Created
    <2>2. UNCHANGED <<pc, owner, batch, cur, sent, lapses>>
      BY <1>1 DEF StoreNew, workerVars, history
    <2>3. CASE n # i
      BY <1>0, <1>1, <2>1, <2>3 DEF StoreNew, history
    <2>4. CASE n = i
      <3>1. rows'[i] = Queued
        BY <2>1, <2>4
      <3>2. Owing'[i] \subseteq Owing[i] /\ Late'[i] \subseteq Late[i]
        BY <1>e, <1>g, <1>h, <2>1, <2>2, <2>4 DEF HeldBy
      <3> QED BY <1>b, <1>c, <1>f, <2>1, <2>2, <2>4, <3>1, <3>2, <1>k, NewRow
    <2> QED BY <2>3, <2>4
  <1>2. ASSUME NEW c \in Client, ClientStep(c)
        PROVE  Goal
    <2>1. ASSUME ~\E k \in Key : StoreNew(c, k)
          PROVE  UNCHANGED <<workerVars, sent, lapses, rows>>
      BY <1>2, <2>1 DEF ClientStep, StoreRepeated, Acknowledge, LoseCall, tableVars, history
    <2> QED BY <1>0, <1>1, <2>1
  <1>3. ASSUME NEW w \in Worker, Start(w)
        PROVE  Goal
    <2>1. /\ UNCHANGED <<rows, batch, cur, sent, lapses>> /\ pc[w] = "down" /\ batch[w] = {}
          /\ \A v \in Worker : v # w => owner'[v] = owner[v] /\ pc'[v] = pc[v]
      BY <1>3 DEF Start, tableVars, history, QueueInvariant, WorkersAreSound
    <2>2. Owing'[i] \subseteq Owing[i] /\ Late'[i] \subseteq Late[i]
      BY <1>e, <1>g, <1>h, <2>1
    <2> QED BY <1>b, <1>c, <1>f, <2>1, <2>2, <1>k
  <1>4. ASSUME NEW w \in Worker, Claim(w)
        PROVE  Goal
    <2> DEFINE claim == Oldest({j \in Id : Claimable(rows[j])}, BatchSize)
    <2>1. /\ pc[w] = "polling" /\ batch[w] = {} /\ cur[w] = 0 /\ owner[w] \in Owner
          /\ rows' = [j \in Id |-> IF j \in claim THEN Claimed(rows[j], owner[w]) ELSE rows[j]]
          /\ batch' = [batch EXCEPT ![w] = claim]
          /\ pc' = [pc EXCEPT ![w] = "working"]
          /\ UNCHANGED <<owner, cur, sent, lapses>>
      BY <1>4, <1>c DEF Claim, history, QueueInvariant, WorkersAreSound
    <2>2. i \in claim => Claimable(rows[i])
      BY DEF Oldest
    <2> HIDE DEF claim
    <2>4. CASE i \notin claim
      <3>1. rows'[i] = rows[i]
        BY <2>1, <2>4
      <3>2. Owing'[i] \subseteq Owing[i] /\ Late'[i] \subseteq Late[i]
        BY <1>e, <1>g, <1>h, <2>1, <2>4, <3>1
      <3> QED BY <1>b, <1>f, <2>1, <3>1, <3>2, <1>k
    <2>5. CASE i \in claim
      <3>1. /\ rows'[i].attempts = rows[i].attempts + 1 /\ rows'[i].state = "delivering"
            /\ rows'[i].owner = owner[w] /\ rows'[i].due = Lease + 1
            /\ Lease + 1 # 0 /\ rows[i].due = 0
        BY <2>1, <2>2, <2>5, ClaimedRow, LeasedRowsAssumption DEF Claimable
      <3>2. Owing'[i] \subseteq Owing[i] \cup {w}
        BY <1>e, <1>g, <2>1
      <3>3. Late'[i] \subseteq Late[i]
        BY <1>e, <1>h, <2>1, <3>1 DEF HeldBy
      <3>4. /\ Cardinality(Owing'[i]) <= Cardinality(Owing[i]) + 1
            /\ Cardinality(Late'[i]) <= Cardinality(Late[i])
        BY <1>e, <3>2, <3>3, WorkersAreCounted
      <3> QED BY <1>b, <1>e, <1>f, <2>1, <3>1, <3>4
    <2> QED BY <2>4, <2>5
  <1>5. ASSUME NEW w \in Worker, Deliver(w)
        PROVE  Goal
    <2>1. PICK n \in batch[w] :
             cur' = [cur EXCEPT ![w] = n] /\ sent' = [sent EXCEPT ![n] = @ + 1]
      BY <1>5 DEF Deliver
    <2>2. /\ pc[w] = "working" /\ cur[w] = 0 /\ pc' = [pc EXCEPT ![w] = "answered"] /\ n \in Id
          /\ UNCHANGED <<rows, owner, batch, lapses>>
      BY <1>5, <1>c DEF Deliver, tableVars
    <2>4. Late'[i] \subseteq Late[i]
      BY <1>e, <1>h, <2>2
    <2>5. CASE n # i
      <3>1. Owing'[i] \subseteq Owing[i]
        BY <1>b, <1>e, <1>g, <2>1, <2>2
      <3> QED BY <1>b, <1>f, <2>1, <2>2, <2>4, <2>5, <3>1, <1>k
    <2>6. CASE n = i
      <3>1. w \in Owing[i] /\ Owing'[i] \subseteq Owing[i] \ {w}
        BY <1>b, <1>e, <1>g, <2>1, <2>2, <2>6
      <3>2. /\ Cardinality(Owing'[i]) + 1 <= Cardinality(Owing[i])
            /\ Cardinality(Late'[i]) <= Cardinality(Late[i])
        BY <1>e, <2>4, <3>1, WorkersAreCounted
      <3>3. sent'[i] = sent[i] + 1
        BY <2>1, <2>6
      <3> QED BY <1>b, <1>e, <1>f, <2>2, <3>2, <3>3
    <2> QED BY <2>5, <2>6
  <1>6. ASSUME NEW w \in Worker, Record(w)
        PROVE  Goal
    <2> DEFINE n == cur[w]
    <2>1. /\ HeldBy(rows[n], owner[w]) /\ n \in batch[w] /\ n \in Id
          /\ rows' = [rows EXCEPT ![n] = Outcome(w)]
          /\ batch' = [batch EXCEPT ![w] = batch[w] \ {n}]
          /\ cur' = [cur EXCEPT ![w] = 0]
          /\ UNCHANGED <<owner, sent, lapses>>
          /\ \A v \in Worker : v # w => pc'[v] = pc[v]
      BY <1>6 DEF Record, history, QueueInvariant, WorkersAreSound
    <2>2. /\ Outcome(w).attempts = rows[n].attempts /\ Outcome(w).state # "none"
          /\ Outcome(w).owner = NoOwner
      <3>1. pc[w] = "answered" /\ result[w] # "none" /\ copy[w][n] \in Nat \ {0}
        BY <1>6, <2>1 DEF Record, QueueInvariant, WorkersAreSound
      <3> QED BY <2>1, <3>1, OutcomeRow
    <2>3. \A v \in Worker : v # w => ~HeldBy(rows[n], owner[v])
      BY <2>1 DEF HeldBy, QueueInvariant, WorkersAreSound, RowsAreSound
    <2> HIDE DEF n
    <2>5. Owing'[i] \subseteq Owing[i]
      <3> SUFFICES ASSUME NEW v \in Worker, i \in batch'[v], cur'[v] # i
                   PROVE  i \in batch[v] /\ cur[v] # i
        BY <1>e, <1>g
      <3>1. CASE v = w
        BY <2>1, <3>1 DEF n
      <3>2. CASE v # w
        BY <2>1, <3>2
      <3> QED BY <3>1, <3>2
    <2>6. Late'[i] \subseteq Late[i]
      <3> SUFFICES ASSUME NEW v \in Worker, v \in Late'[i]
                   PROVE  v \in Late[i]
        BY <1>e
      <3>1. CASE i = n
        <4>1. v # w /\ i \in batch[v]
          BY <1>h, <2>1, <3>1
        <4> QED BY <1>h, <2>3, <3>1, <4>1
      <3>2. CASE i # n
        <4>1. rows'[i] = rows[i] /\ owner'[v] = owner[v] /\ (i \in batch'[v] => i \in batch[v])
          BY <2>1, <3>2
        <4> QED BY <1>h, <4>1
      <3> QED BY <3>1, <3>2
    <2>7. /\ rows'[i].attempts = rows[i].attempts
          /\ rows'[i].state = "none" => rows'[i].attempts = 0
      BY <1>f, <2>1, <2>2
    <2> QED BY <1>b, <1>f, <2>1, <2>5, <2>6, <2>7, <1>k
  <1>7. ASSUME NEW w \in Worker, Conflict(w) \/ Crash(w)
        PROVE  Goal
    <2>1. /\ rows' = rows /\ sent' = sent /\ lapses' >= lapses
          /\ batch' = [batch EXCEPT ![w] = {}] /\ cur' = [cur EXCEPT ![w] = 0]
          /\ \A v \in Worker : v # w => pc'[v] = pc[v] /\ owner'[v] = owner[v]
      BY <1>7, <1>b DEF Conflict, Crash, Stopped, tableVars, history
    <2>2. Owing'[i] \subseteq Owing[i] /\ Late'[i] \subseteq Late[i]
      BY <1>e, <1>g, <1>h, <2>1
    <2> QED BY <1>f, <2>1, <2>2, <1>k
  <1>8. CASE Tick
    <2>1. /\ UNCHANGED <<pc, owner, batch, cur, sent>> /\ rows'[i] = Aged(rows[i])
          /\ lapses' \in {lapses, lapses + 1}
          /\ Overtaken(i) => lapses' = lapses + 1
      BY <1>8 DEF Tick, workerVars, history
    <2>2. /\ rows'[i].attempts = rows[i].attempts /\ rows'[i].state = rows[i].state
          /\ rows'[i].owner = rows[i].owner
          /\ rows'[i].due = IF rows[i].due = 0 THEN 0 ELSE rows[i].due - 1
      BY <2>1, AgedRow
    <2>3. Owing'[i] \subseteq Owing[i]
      BY <1>e, <1>g, <2>1
    <2>4. \A v \in Worker :
             v \in Late'[i] => v \in Late[i] \/ (Overtaken(i) /\ HeldBy(rows[i], owner[v]))
      BY <1>b, <1>h, <2>1, <2>2 DEF HeldBy, Overtaken
    <2>5. CASE ~Overtaken(i)
      <3>1. Late'[i] \subseteq Late[i]
        BY <1>e, <2>4, <2>5
      <3> QED BY <1>b, <1>c, <1>f, <2>1, <2>2, <2>3, <3>1, <1>k
    <2>6. CASE Overtaken(i)
      <3>1. PICK w \in Worker : HeldBy(rows[i], owner[w])
        BY <2>6 DEF Overtaken
      <3>2. \A v \in Worker : HeldBy(rows[i], owner[v]) => v = w
        BY <3>1 DEF HeldBy, QueueInvariant, WorkersAreSound, RowsAreSound
      <3>3. Late'[i] \subseteq Late[i] \cup {w}
        BY <1>e, <2>4, <3>2
      <3>4. /\ Cardinality(Late'[i]) <= Cardinality(Late[i]) + 1
            /\ Cardinality(Owing'[i]) <= Cardinality(Owing[i])
        BY <1>e, <2>3, <3>3, WorkersAreCounted
      <3> QED BY <1>b, <1>c, <1>e, <1>f, <2>1, <2>2, <2>6, <3>4
    <2> QED BY <2>5, <2>6
  <1>9. CASE UNCHANGED vars
    BY <1>0, <1>9 DEF vars, tableVars, history
  <1> QED BY <1>2, <1>3, <1>4, <1>5, <1>6, <1>7, <1>8, <1>9 DEF Next, WorkerStep

LEMMA CountsInvariance == Spec => [](TypeOK /\ QueueInvariant /\ CountsAreSound)
  <1>1. Init => NothingSent /\ CountsAreSound
    <2> SUFFICES ASSUME Init
                 PROVE  NothingSent /\ CountsAreSound
      OBVIOUS
    <2>1. \A i \in Id : Owing[i] = {} /\ Late[i] = {}
      BY DEF Init, Owing, Late
    <2>2. \A i \in Id : Cardinality(Owing[i]) = 0 /\ Cardinality(Late[i]) = 0
      BY <2>1, FS_EmptySet
    <2>3. /\ \A i \in Id : sent[i] = 0 /\ rows[i].attempts = 0
          /\ lapses = 0
      BY NewRow DEF Init
    <2>4. NothingSent
      BY DEF Init, NothingSent
    <2> QED BY <2>2, <2>3, <2>4 DEF CountsAreSound
  <1>2. /\ TypeOK /\ QueueInvariant /\ NothingSent /\ CountsAreSound
        /\ [Next]_vars
        => NothingSent' /\ CountsAreSound'
    BY NothingSentStep, CountsStep
  <1> QED BY <1>1, <1>2, TypeInvariance, QueueInvariance, PTL DEF Spec

\* No delivery without a claim that counted it (ClaimReportSubmissions, attempts + 1):
\* with any number of workers that overtake one another, a destination gets a
\* submission at most as many times as its row says.
THEOREM DeliveriesAreCounted == Spec => []SendsAreCounted
  <1>1. TypeOK /\ CountsAreSound => SendsAreCounted
    <2> SUFFICES ASSUME TypeOK, CountsAreSound, NEW i \in Id
                 PROVE  sent[i] + Cardinality({w \in Worker : /\ i \in batch[w]
                                                              /\ cur[w] # i
                                                              /\ HeldBy(rows[i], owner[w])})
                            <= rows[i].attempts
      BY DEF SendsAreCounted
    <2> DEFINE holders == {w \in Worker : /\ i \in batch[w]
                                          /\ cur[w] # i
                                          /\ HeldBy(rows[i], owner[w])}
    <2>1. Owing[i] \in SUBSET Worker /\ holders \in SUBSET Worker /\ holders \subseteq Owing[i]
      BY DEF Owing
    <2> HIDE DEF holders
    <2>2. /\ Cardinality(holders) <= Cardinality(Owing[i])
          /\ Cardinality(holders) \in Nat /\ Cardinality(Owing[i]) \in Nat
      BY <2>1, WorkersAreCounted
    <2>3. sent[i] \in Nat /\ rows[i].attempts \in Nat
      BY DEF TypeOK, Row
    <2>4. sent[i] + Cardinality(holders) <= rows[i].attempts
      BY <2>2, <2>3 DEF CountsAreSound
    <2> QED BY <2>4 DEF holders
  <1> QED BY <1>1, CountsInvariance, PTL

\* Two workers have one submission in hand only if a lease ran out on the first (the
\* claim's WHERE clause and SKIP LOCKED), n of them only if that happened n - 1 times.
THEOREM SharingTakesLapses == Spec => []SharedOnlyAfterLapses
  <1>1. TypeOK /\ QueueInvariant /\ CountsAreSound => SharedOnlyAfterLapses
    <2> SUFFICES ASSUME TypeOK, QueueInvariant, CountsAreSound, NEW i \in Id
                 PROVE  Cardinality({w \in Worker : i \in batch[w]}) <= 1 + lapses
      BY DEF SharedOnlyAfterLapses
    <2> DEFINE having == {w \in Worker : i \in batch[w]}
    <2>1. \E h : having \subseteq Late[i] \cup {h}
      <3>1. \A v, w \in Worker : HeldBy(rows[i], owner[v]) /\ HeldBy(rows[i], owner[w]) => v = w
        BY DEF HeldBy, QueueInvariant, WorkersAreSound, RowsAreSound
      <3>2. CASE \E h \in Worker : HeldBy(rows[i], owner[h])
        BY <3>1, <3>2 DEF Late
      <3>3. CASE ~\E h \in Worker : HeldBy(rows[i], owner[h])
        BY <3>3 DEF Late
      <3> QED BY <3>2, <3>3
    <2>2. having \in SUBSET Worker /\ Late[i] \in SUBSET Worker
      BY DEF Late
    <2> HIDE DEF having
    <2>3. /\ Cardinality(having) <= Cardinality(Late[i]) + 1
          /\ Cardinality(having) \in Nat /\ Cardinality(Late[i]) \in Nat
      BY <2>1, <2>2, WorkersAreCounted
    <2>4. lapses \in Nat
      BY ReportOutboxAssumption DEF TypeOK
    <2>5. Cardinality(having) <= 1 + lapses
      BY <2>3, <2>4 DEF CountsAreSound
    <2> QED BY <2>5 DEF having
  <1> QED BY <1>1, CountsInvariance, PTL
=============================================================================
