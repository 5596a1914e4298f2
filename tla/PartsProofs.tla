----------------------------- MODULE PartsProofs -----------------------------
(***************************************************************************)
(* Proofs about the parts of MCParts that BoundsProofs leaves: the locks   *)
(* of a source, for any number of connections, knowledge batches, for any  *)
(* number of requests, batches and attempts, and uploaded sources, for any *)
(* number of tabs, contents, uploads, sources and revisions.  Beside one   *)
(* another, the parts keep what is proved of each.                         *)
(***************************************************************************)
EXTENDS MCParts, BoundsProofs, SequenceTheorems

-----------------------------------------------------------------------------
(* Row locks.                                                              *)

\* Where a row stands in the order of the locks.
Rank == [job |-> 1, source |-> 2, documents |-> 3, run |-> 3]

\* The locks a transaction has are the first of its list.
LocksAreTaken ==
    \A t \in Tx, row \in Row : holder[row] = t =>
        path[t] \in Path /\ \E i \in 1..done[t] : Order(path[t])[i] = row

LocksInvariant == TypeOK /\ LocksAreTaken

LEMMA OrderAscends ==
    ASSUME NEW p \in AllPaths \ {"publish"}
    PROVE  /\ Len(Order(p)) \in 1..3
           /\ \A i \in 1..Len(Order(p)) : Order(p)[i] \in Row
           /\ \A i, j \in 1..Len(Order(p)) : i < j => Rank[Order(p)[i]] < Rank[Order(p)[j]]
  <1>1. CASE p = "storePage"
    <2>1. Order(p) = <<"job", "source", "documents">>
      BY <1>1 DEF Order, Locks
    <2> QED BY <2>1 DEF Rank, Row
  <1>2. CASE p = "persist"
    <2>1. Order(p) = <<"job", "source", "run">>
      BY <1>2 DEF Order, Locks
    <2> QED BY <2>1 DEF Rank, Row
  <1>3. CASE p = "complete"
    <2>1. Order(p) = <<"job", "source">>
      BY <1>3 DEF Order, Locks
    <2> QED BY <2>1 DEF Rank, Row
  <1>4. CASE p = "heartbeat"
    <2>1. Order(p) = <<"job">>
      BY <1>4 DEF Order, Locks
    <2> QED BY <2>1 DEF Rank, Row
  <1>5. CASE p = "queue"
    <2>1. Order(p) = <<"source">>
      BY <1>5 DEF Order, Locks
    <2> QED BY <2>1 DEF Rank, Row
  <1>6. CASE p = "updateSource"
    <2>1. Order(p) = <<"source", "documents">>
      BY <1>6 DEF Order, Locks
    <2> QED BY <2>1 DEF Rank, Row
  <1> QED BY <1>1, <1>2, <1>3, <1>4, <1>5, <1>6 DEF AllPaths, CrawlerPath

LEMMA LocksInvariance ==
    ASSUME "publish" \notin Path
    PROVE  Spec => []LocksInvariant
  <1>1. Init => LocksInvariant
    BY SourceLocksAssumption DEF Init, LocksInvariant, TypeOK, LocksAreTaken
  <1>2. LocksInvariant /\ [Next]_vars => LocksInvariant'
    <2> SUFFICES ASSUME TypeOK, LocksAreTaken, [Next]_vars
                 PROVE  LocksInvariant'
      BY DEF LocksInvariant
    <2>1. ASSUME NEW t \in Tx, NEW p \in Path, Begin(t, p)
          PROVE  LocksInvariant'
      <3>1. TypeOK'
        BY <2>1 DEF Begin, TypeOK
      <3>2. "none" \notin Path
        BY SourceLocksAssumption DEF AllPaths, CrawlerPath
      <3>3. LocksAreTaken'
        BY <2>1, <3>2 DEF Begin, TypeOK, LocksAreTaken, Order
      <3> QED BY <3>1, <3>3 DEF LocksInvariant
    <2>2. ASSUME NEW t \in Tx, NEW row \in Row, Lock(t, row)
          PROVE  LocksInvariant'
      <3>1. path[t] \in Path /\ done[t] < Len(Order(path[t])) /\ Len(Order(path[t])) \in 1..3
        BY <2>2, OrderAscends, SourceLocksAssumption DEF Lock, Needs
      <3>2. TypeOK'
        <4>1. PICK n \in 1..3 : n = Len(Order(path[t]))
          BY <3>1
        <4>2. done[t] \in 0..4 /\ done[t] < n
          BY <3>1, <4>1 DEF TypeOK
        <4>3. done[t] + 1 \in 0..4
          BY <4>2
        <4> QED BY <2>2, <4>3 DEF Lock, TypeOK
      <3>3. LocksAreTaken'
        <4> SUFFICES ASSUME NEW u \in Tx, NEW r \in Row, holder'[r] = u
                     PROVE  path[u] \in Path /\ \E i \in 1..done'[u] : Order(path[u])[i] = r
          BY <2>2 DEF Lock, LocksAreTaken, Order
        <4>1. CASE r = row
          <5>1. u = t /\ done'[u] = done[t] + 1 /\ done[t] \in Nat
            BY <2>2, <4>1 DEF Lock, TypeOK
          <5> QED BY <2>2, <3>1, <4>1, <5>1 DEF Lock, Needs
        <4>2. CASE r # row
          <5>1. holder[r] = u /\ done[u] \in Nat /\ done'[u] \in {done[u], done[u] + 1}
            BY <2>2, <4>2 DEF Lock, TypeOK
          <5>2. PICK i \in 1..done[u] : path[u] \in Path /\ Order(path[u])[i] = r
            BY <5>1 DEF LocksAreTaken
          <5>3. i \in 1..done'[u]
            BY <5>1
          <5> QED BY <5>2, <5>3
        <4> QED BY <4>1, <4>2
      <3> QED BY <3>2, <3>3 DEF LocksInvariant
    <2>3. ASSUME NEW t \in Tx, End(t)
          PROVE  LocksInvariant'
      <3>1. TypeOK'
        BY <2>3 DEF End, TypeOK
      <3>2. ASSUME NEW u \in Tx, NEW r \in Row, holder'[r] = u
            PROVE  u # t /\ holder[r] = u /\ path'[u] = path[u] /\ done'[u] = done[u]
        BY <2>3, <3>2, SourceLocksAssumption DEF End, TypeOK
      <3>3. LocksAreTaken'
        BY <3>2 DEF LocksAreTaken, Order
      <3> QED BY <3>1, <3>3 DEF LocksInvariant
    <2>4. CASE UNCHANGED vars
      BY <2>4 DEF vars, LocksInvariant, TypeOK, LocksAreTaken, Order
    <2> QED BY <2>1, <2>2, <2>3, <2>4 DEF Next
  <1> QED BY <1>1, <1>2, PTL DEF Spec

\* A transaction waits only for rows above all that it has.
LEMMA WaitsAscend ==
    ASSUME "publish" \notin Path, LocksInvariant, NEW t \in Tx, NEW had \in Row, NEW row \in Row,
           holder[had] = t, Waits(t, row)
    PROVE  Rank[had] < Rank[row]
  <1>1. path[t] \in AllPaths \ {"publish"} /\ done[t] \in Nat
    BY SourceLocksAssumption DEF Waits, Needs, LocksInvariant, TypeOK
  <1>2. PICK i \in 1..done[t] : Order(path[t])[i] = had
    BY DEF LocksInvariant, LocksAreTaken
  <1>3. done[t] + 1 \in 1..Len(Order(path[t])) /\ Order(path[t])[done[t] + 1] = row
    BY <1>1, OrderAscends DEF Waits, Needs
  <1>4. i \in 1..Len(Order(path[t])) /\ i < done[t] + 1
    BY <1>1, <1>2, <1>3, OrderAscends
  <1> QED BY <1>1, <1>2, <1>3, <1>4, OrderAscends

\* However many connections there are, the crawlers' and the administrators'
\* transactions never wait for one another in a circle: only a publication can
\* close one.
THEOREM OnlyPublicationsClose ==
    ASSUME "publish" \notin Path
    PROVE  Spec => []NoCircularWait
  <1>1. LocksInvariant => NoCircularWait
    <2> SUFFICES ASSUME LocksInvariant,
                        NEW S \in (SUBSET Tx) \ {{}},
                        \A t \in S : \E row \in Row : Waits(t, row) /\ holder[row] \in S
                 PROVE  FALSE
      BY DEF NoCircularWait
    <2>1. PICK t1 \in S : TRUE
      OBVIOUS
    <2>2. PICK r1 \in Row : Waits(t1, r1) /\ holder[r1] \in S
      OBVIOUS
    <2>3. PICK r2 \in Row : Waits(holder[r1], r2) /\ holder[r2] \in S
      BY <2>2
    <2>4. PICK r3 \in Row : Waits(holder[r2], r3) /\ holder[r3] \in S
      BY <2>3
    <2>5. PICK r4 \in Row : Waits(holder[r3], r4)
      BY <2>4
    <2>6. Rank[r1] < Rank[r2] /\ Rank[r2] < Rank[r3] /\ Rank[r3] < Rank[r4]
      BY <2>2, <2>3, <2>4, <2>5, WaitsAscend
    <2>7. \A row \in Row : Rank[row] \in 1..3
      BY DEF Rank, Row
    <2> QED BY <2>6, <2>7
  <1> QED BY <1>1, LocksInvariance, PTL

-----------------------------------------------------------------------------
(* Knowledge batches.                                                      *)

\* A request at work on a batch that it has a claim on.
Claims(c) == requester[c].pc \in {"rechecking", "calling", "succeeded", "failed"}

\* A claim is on the batch of the request, and no two requests have the same one.
ClaimsAreOwn ==
    /\ \A c \in Requester : Claims(c) =>
          /\ requester[c].stage \in DOMAIN stages
          /\ stages[requester[c].stage].batch = requester[c].batch
    /\ \A c, d \in Requester :
          Claims(c) /\ Claims(d) /\ requester[c].stage = requester[d].stage => c = d

\* A claim fails all that are still running.
OnlyLastRuns == \A i \in DOMAIN stages : stages[i].state = "running" => i = Len(stages)

\* A request that passed the recheck holds a claim on a batch without a result, or
\* its claim was taken over.
RecheckHolds ==
    \A c \in Requester :
        /\ requester[c].pc \in {"calling", "succeeded"}
        /\ stages[requester[c].stage].state = "running"
        => ~Completed(requester[c].batch)

\* Only overdue claims are taken over.
TakenWhenStale ==
    \A c \in Requester :
        requester[c].pc \in {"rechecking", "calling"} =>
            stages[requester[c].stage].state = "running" \/ requester[c].stage \in stale

\* The inductive invariant.
KnowledgeInvariant ==
    /\ KnowledgeTypeOK /\ ClaimsAreOwn /\ OnlyLastRuns /\ RecheckHolds /\ TakenWhenStale
    /\ OneResultPerBatch

LEMMA FunctionIsSeq ==
    ASSUME NEW S, NEW n \in Nat, NEW f \in [1..n -> S]
    PROVE  f \in Seq(S) /\ Len(f) = n
  <1>1. f \in Seq(S)
    BY SeqDef
  <1>2. DOMAIN f = 1..n /\ DOMAIN f = 1..Len(f) /\ Len(f) \in Nat
    BY <1>1, LenProperties
  <1> QED BY <1>1, <1>2

LEMMA StagesAreNumbered ==
    ASSUME KnowledgeTypeOK
    PROVE  /\ stages \in Seq(Stage) /\ Len(stages) \in Nat /\ DOMAIN stages = 1..Len(stages)
           /\ \A i \in DOMAIN stages : stages[i] \in Stage
  BY LenProperties, ElementOfSeq DEF KnowledgeTypeOK

\* What a request stores in its stage.
LEMMA StoredStages ==
    ASSUME KnowledgeTypeOK, NEW k \in DOMAIN stages,
           NEW s \in {"succeeded", "failed", "cancelled"}
    PROVE  LET new == Stored(k, s) IN
           /\ new \in Seq(Stage) /\ Len(new) = Len(stages) /\ DOMAIN new = DOMAIN stages
           /\ \A i \in DOMAIN stages :
                 /\ new[i].batch = stages[i].batch
                 /\ new[i].state = IF i = k /\ stages[i].state = "running" THEN s
                                   ELSE stages[i].state
  <1> DEFINE new == Stored(k, s)
             e == [stages[k] EXCEPT !.state = s]
  <1>1. e \in Stage /\ e.batch = stages[k].batch /\ e.state = s
    BY StagesAreNumbered DEF Stage
  <1>2. CASE stages[k].state = "running"
    <2>1. new = [stages EXCEPT ![k] = e]
      BY <1>2 DEF Stored
    <2> HIDE DEF new, e
    <2>2. /\ new \in Seq(Stage) /\ Len(new) = Len(stages)
          /\ \A i \in 1..Len(stages) : new[i] = IF i = k THEN e ELSE stages[i]
      BY <1>1, <2>1, StagesAreNumbered, ExceptSeq
    <2>3. DOMAIN new = DOMAIN stages
      BY <2>2, LenProperties, StagesAreNumbered
    <2> QED BY <1>1, <1>2, <2>2, <2>3, StagesAreNumbered DEF new
  <1>3. CASE stages[k].state # "running"
    BY <1>3, StagesAreNumbered DEF Stored
  <1> QED BY <1>2, <1>3

\* What a claim on batch b makes of the stages.
LEMMA ClaimedStages ==
    ASSUME KnowledgeTypeOK, NEW b \in Batch,
           stages' = Append(Superseded, [batch |-> b, state |-> "running"])
    PROVE  /\ stages' \in Seq(Stage) /\ Len(stages') = Len(stages) + 1
           /\ DOMAIN stages' = DOMAIN stages \cup {Len(stages')}
           /\ \A i \in DOMAIN stages :
                 /\ stages'[i].batch = stages[i].batch
                 /\ stages'[i].state = IF stages[i].state = "running" THEN "failed"
                                       ELSE stages[i].state
           /\ stages'[Len(stages')].batch = b /\ stages'[Len(stages')].state = "running"
  <1> DEFINE last == [batch |-> b, state |-> "running"]
  <1>1. \A i \in DOMAIN stages :
           /\ Superseded[i] \in Stage /\ Superseded[i].batch = stages[i].batch
           /\ Superseded[i].state = IF stages[i].state = "running" THEN "failed"
                                    ELSE stages[i].state
    BY StagesAreNumbered DEF Stage, Superseded
  <1>2. last \in Stage /\ last.batch = b /\ last.state = "running"
    BY DEF Stage
  <1>3. stages' = Append(Superseded, last)
    OBVIOUS
  <1>4. Superseded \in [1..Len(stages) -> Stage]
    BY <1>1, StagesAreNumbered DEF Superseded
  <1> HIDE DEF last
  <1>5. Superseded \in Seq(Stage) /\ Len(Superseded) = Len(stages)
    BY <1>4, StagesAreNumbered, FunctionIsSeq
  <1>6. /\ stages' \in Seq(Stage) /\ Len(stages') = Len(Superseded) + 1
        /\ \A i \in 1..Len(Superseded) : stages'[i] = Superseded[i]
        /\ stages'[Len(Superseded) + 1] = last
    BY <1>2, <1>3, <1>5, AppendProperties
  <1>7. DOMAIN stages' = 1..Len(stages) + 1
    BY <1>5, <1>6, LenProperties
  <1> QED BY <1>1, <1>2, <1>5, <1>6, <1>7, StagesAreNumbered

\* A request stores an outcome in its stage and ends.
LEMMA KnowledgeStoreStep ==
    ASSUME KnowledgeInvariant, NEW c \in Requester, Claims(c),
           NEW s \in {"succeeded", "failed", "cancelled"},
           s = "succeeded" => requester[c].pc = "succeeded",
           stages' = Stored(requester[c].stage, s), stale' = stale,
           requester' = [requester EXCEPT ![c] = Waiting]
    PROVE  KnowledgeInvariant'
  <1> DEFINE k == requester[c].stage
  <1> USE DEF KnowledgeInvariant
  <1>1. /\ k \in DOMAIN stages /\ stages[k].batch = requester[c].batch
        /\ \A d \in Requester : Claims(d) /\ d # c => requester[d].stage # k
    BY DEF ClaimsAreOwn
  <1>2. /\ stages' \in Seq(Stage) /\ Len(stages') = Len(stages) /\ DOMAIN stages' = DOMAIN stages
        /\ \A i \in DOMAIN stages :
              /\ stages'[i].batch = stages[i].batch
              /\ stages'[i].state = IF i = k /\ stages[i].state = "running" THEN s
                                    ELSE stages[i].state
    BY <1>1, StoredStages
  <1>3. /\ requester'[c].pc = "idle"
        /\ \A d \in Requester : d # c => requester'[d] = requester[d]
    BY DEF Waiting, KnowledgeTypeOK
  <1> HIDE DEF k
  <1>4. KnowledgeTypeOK'
    BY <1>2, KnowledgeStagesAssumption DEF KnowledgeTypeOK, Waiting, Batch
  <1>5. ClaimsAreOwn'
    BY <1>2, <1>3 DEF ClaimsAreOwn, Claims
  <1>6. OnlyLastRuns'
    BY <1>2 DEF OnlyLastRuns
  <1>7. RecheckHolds'
    <2> SUFFICES ASSUME NEW d \in Requester, requester'[d].pc \in {"calling", "succeeded"},
                        stages'[requester'[d].stage].state = "running"
                 PROVE  ~(Completed(requester[d].batch))'
      BY DEF RecheckHolds
    <2>1. d # c /\ requester'[d] = requester[d] /\ Claims(d) /\ requester[d].stage \in DOMAIN stages
      BY <1>3 DEF Claims, ClaimsAreOwn
    <2>2. stages[requester[d].stage].state = "running" /\ requester[d].stage # k
      BY <1>1, <1>2, <2>1
    <2>3. stages[k].state # "running"
      BY <1>1, <2>1, <2>2 DEF OnlyLastRuns
    <2>4. ~Completed(requester[d].batch)
      BY <2>1, <2>2 DEF RecheckHolds
    <2> QED BY <1>2, <2>1, <2>3, <2>4 DEF Completed
  <1>8. TakenWhenStale'
    BY <1>1, <1>2, <1>3 DEF TakenWhenStale, ClaimsAreOwn, Claims
  <1>9. OneResultPerBatch'
    BY <1>1, <1>2 DEF OneResultPerBatch, RecheckHolds, Completed, k
  <1> QED BY <1>4, <1>5, <1>6, <1>7, <1>8, <1>9

\* Every step of every request, and time, preserve the invariant.
LEMMA KnowledgeStep ==
    ASSUME KnowledgeInvariant, [KnowledgeNext]_knowledgeVars
    PROVE  KnowledgeInvariant'
  <1> USE DEF KnowledgeInvariant
  <1>0. CASE UNCHANGED knowledgeVars
    BY <1>0 DEF knowledgeVars, KnowledgeTypeOK, ClaimsAreOwn, Claims, OnlyLastRuns, RecheckHolds,
                TakenWhenStale, OneResultPerBatch, Completed
  \* Requests that do not touch the stages, and end up without a claim or go on with one.
  <1>1. ASSUME NEW c \in Requester, ReadStatus(c) \/ LoseRequest(c)
        PROVE  KnowledgeInvariant'
    <2>1. /\ UNCHANGED <<stages, stale>>
          /\ requester'[c].pc \in {"idle", "claiming"}
          /\ \A d \in Requester : d # c => requester'[d] = requester[d]
      BY <1>1 DEF ReadStatus, LoseRequest, Waiting, KnowledgeTypeOK
    <2>2. \E b \in Batch, p \in {"idle", "claiming"} :
              requester' = [requester EXCEPT ![c] = [pc |-> p, batch |-> b, stage |-> 0]]
      <3>1. 1 \in Batch
        BY KnowledgeStagesAssumption DEF Batch
      <3> QED BY <1>1, <3>1 DEF ReadStatus, LoseRequest, Waiting
    <2>3. KnowledgeTypeOK'
      BY <2>1, <2>2, KnowledgeStagesAssumption DEF KnowledgeTypeOK
    <2> QED BY <2>1, <2>3 DEF ClaimsAreOwn, Claims, OnlyLastRuns, RecheckHolds, TakenWhenStale,
                              OneResultPerBatch, Completed
  <1>2. ASSUME NEW c \in Requester, CallProvider(c)
        PROVE  KnowledgeInvariant'
    <2>1. /\ UNCHANGED <<stages, stale>>
          /\ requester[c].pc = "calling"
          /\ requester'[c].pc \in {"succeeded", "failed"}
          /\ requester'[c].stage = requester[c].stage
          /\ requester'[c].batch = requester[c].batch
          /\ \A d \in Requester : d # c => requester'[d] = requester[d]
      BY <1>2 DEF CallProvider, KnowledgeTypeOK
    <2>2. KnowledgeTypeOK'
      BY <1>2 DEF CallProvider, KnowledgeTypeOK
    <2> QED BY <2>1, <2>2 DEF ClaimsAreOwn, Claims, OnlyLastRuns, RecheckHolds, TakenWhenStale,
                              OneResultPerBatch, Completed
  <1>3. ASSUME NEW c \in Requester, ClaimStage(c)
        PROVE  KnowledgeInvariant'
    <2> DEFINE b == requester[c].batch
               n == Len(stages')
    <2>0. /\ requester[c] \in [pc : {"idle", "claiming", "rechecking", "calling",
                                    "succeeded", "failed"},
                              batch : Batch, stage : 0..MaxStages]
          /\ \A d \in Requester : d # c => requester'[d] = requester[d]
          /\ stale' = stale
      BY <1>3 DEF ClaimStage, ClaimAs, KnowledgeTypeOK
    <2>1. CASE \E i \in DOMAIN stages : Active(i)
      <3>1. stages' = stages /\ requester' = [requester EXCEPT ![c] = Waiting]
        BY <1>3, <2>1 DEF ClaimStage, ClaimAs
      <3>2. requester'[c].pc = "idle"
        BY <3>1 DEF Waiting, KnowledgeTypeOK
      <3>3. KnowledgeTypeOK'
        BY <2>0, <3>1, KnowledgeStagesAssumption DEF Waiting, KnowledgeTypeOK, Batch
      <3> QED BY <2>0, <3>1, <3>2, <3>3
              DEF ClaimsAreOwn, Claims, OnlyLastRuns, RecheckHolds, TakenWhenStale,
                  OneResultPerBatch, Completed
    <2>2. CASE ~ \E i \in DOMAIN stages : Active(i)
      <3>1. /\ stages' = Append(Superseded, [batch |-> b, state |-> "running"])
            /\ requester' = [requester EXCEPT ![c] =
                                [pc |-> "rechecking", batch |-> b, stage |-> n]]
            /\ Len(stages) < MaxStages
        BY <1>3, <2>2 DEF ClaimStage, ClaimAs
      <3>2. /\ stages' \in Seq(Stage) /\ n = Len(stages) + 1
            /\ DOMAIN stages' = DOMAIN stages \cup {n}
            /\ \A i \in DOMAIN stages :
                  /\ stages'[i].batch = stages[i].batch
                  /\ stages'[i].state = IF stages[i].state = "running" THEN "failed"
                                        ELSE stages[i].state
            /\ stages'[n].batch = b /\ stages'[n].state = "running"
        BY <2>0, <3>1, ClaimedStages
      <3>3. n \in 1..MaxStages /\ n \notin DOMAIN stages
        BY <3>1, <3>2, StagesAreNumbered, KnowledgeStagesAssumption
      <3>4. requester'[c].pc = "rechecking" /\ requester'[c].stage = n /\ requester'[c].batch = b
        BY <2>0, <3>1 DEF KnowledgeTypeOK
      <3> HIDE DEF b, n
      <3>5. KnowledgeTypeOK'
        <4>1. requester' \in [Requester -> [pc : {"idle", "claiming", "rechecking", "calling",
                                                  "succeeded", "failed"},
                                            batch : Batch, stage : 0..MaxStages]]
          <5>1. [pc |-> "rechecking", batch |-> b, stage |-> n]
                   \in [pc : {"idle", "claiming", "rechecking", "calling", "succeeded", "failed"},
                       batch : Batch, stage : 0..MaxStages]
            <6>1. b \in Batch /\ n \in 0..MaxStages
              BY <2>0, <3>3, KnowledgeStagesAssumption DEF b
            <6> QED BY <6>1
          <5> QED BY <3>1, <5>1 DEF KnowledgeTypeOK
        <4> QED BY <2>0, <3>2, <4>1 DEF KnowledgeTypeOK
      <3>6. ClaimsAreOwn'
        BY <2>0, <3>2, <3>3, <3>4 DEF ClaimsAreOwn, Claims
      <3>7. OnlyLastRuns'
        BY <3>2 DEF OnlyLastRuns, n
      <3>8. RecheckHolds'
        BY <2>0, <3>2, <3>4 DEF RecheckHolds, ClaimsAreOwn, Claims
      <3>9. TakenWhenStale'
        BY <2>0, <2>2, <3>2, <3>4 DEF TakenWhenStale, ClaimsAreOwn, Claims, Active
      <3>10. OneResultPerBatch'
        BY <3>2 DEF OneResultPerBatch
      <3> QED BY <3>5, <3>6, <3>7, <3>8, <3>9, <3>10
    <2> QED BY <2>1, <2>2
  <1>4. ASSUME NEW c \in Requester, RecheckStage(c)
        PROVE  KnowledgeInvariant'
    <2> DEFINE k == requester[c].stage
    <2>0. /\ requester[c].pc = "rechecking" /\ stale' = stale
          /\ \A d \in Requester : d # c => requester'[d] = requester[d]
          /\ k \in DOMAIN stages
          /\ \A d \in Requester : Claims(d) /\ d # c => requester[d].stage # k
      BY <1>4 DEF RecheckStage, KnowledgeTypeOK, ClaimsAreOwn, Claims
    <2>1. CASE Completed(requester[c].batch)
      <3>1. stages' = Stored(k, "cancelled") /\ requester' = [requester EXCEPT ![c] = Waiting]
        BY <1>4, <2>1 DEF RecheckStage
      <3> QED BY <2>0, <3>1, KnowledgeStoreStep DEF Claims
    <2>2. CASE ~Completed(requester[c].batch)
      <3>1. /\ stages' = stages
            /\ requester'[c].pc \in {"calling", "failed"}
            /\ requester'[c].stage = k /\ requester'[c].batch = requester[c].batch
        BY <1>4, <2>2 DEF RecheckStage, KnowledgeTypeOK
      <3>2. KnowledgeTypeOK'
        BY <1>4, <2>2 DEF RecheckStage, KnowledgeTypeOK
      <3> QED BY <2>0, <2>2, <3>1, <3>2
              DEF ClaimsAreOwn, Claims, OnlyLastRuns, RecheckHolds, TakenWhenStale,
                  OneResultPerBatch, Completed
    <2> QED BY <2>1, <2>2
  <1>5. ASSUME NEW c \in Requester, SaveStage(c)
        PROVE  KnowledgeInvariant'
    <2>1. /\ requester[c].pc \in {"succeeded", "failed"} /\ stale' = stale
          /\ stages' = Stored(requester[c].stage, requester[c].pc)
          /\ requester' = [requester EXCEPT ![c] = Waiting]
      BY <1>5 DEF SaveStage
    <2> QED BY <2>1, KnowledgeStoreStep DEF Claims
  <1>6. ASSUME NEW i \in DOMAIN stages, Lapse(i)
        PROVE  KnowledgeInvariant'
    BY <1>6 DEF Lapse, KnowledgeTypeOK, ClaimsAreOwn, Claims, OnlyLastRuns, RecheckHolds,
                TakenWhenStale, OneResultPerBatch, Completed
  <1> QED BY <1>0, <1>1, <1>2, <1>3, <1>4, <1>5, <1>6 DEF KnowledgeNext

LEMMA KnowledgeStart == KnowledgeInit => KnowledgeInvariant
  <1> SUFFICES ASSUME KnowledgeInit
               PROVE  KnowledgeInvariant
    OBVIOUS
  <1>1. stages \in Seq(Stage) /\ Len(stages) = 0 /\ DOMAIN stages = {}
    BY EmptySeq DEF KnowledgeInit
  <1>2. KnowledgeTypeOK
    BY <1>1, KnowledgeStagesAssumption DEF KnowledgeInit, KnowledgeTypeOK, Waiting, Batch
  <1> QED BY <1>1, <1>2 DEF KnowledgeInit, Waiting, KnowledgeInvariant, ClaimsAreOwn, Claims,
                            OnlyLastRuns, RecheckHolds, TakenWhenStale, OneResultPerBatch

\* Claims of knowledge batches (claim, recheck, SaveDeveloperAssetIngestionStage) stand as
\* the named facts above say in every reachable state.
THEOREM KnowledgeInvariance == KnowledgeSpec => []KnowledgeInvariant
  BY KnowledgeStart, KnowledgeStep, PTL DEF KnowledgeSpec

\* No batch of a run gets two results, however many requests take over one another's
\* claims (SaveDeveloperAssetIngestionStage stores in a running stage only).
THEOREM ResultsAreSingle == KnowledgeSpec => []OneResultPerBatch
  BY KnowledgeInvariance, PTL DEF KnowledgeInvariant

\* Two requests call the provider for one run only when a claim was overdue.
THEOREM CallsAreSingle == KnowledgeSpec => []OneCallPerWindow
  <1>1. KnowledgeInvariant => OneCallPerWindow
    <2> SUFFICES ASSUME KnowledgeInvariant,
                        NEW c \in Requester, NEW d \in Requester, c # d,
                        requester[c].pc = "calling", requester[d].pc = "calling"
                 PROVE  {requester[c].stage, requester[d].stage} \cap stale # {}
      BY DEF OneCallPerWindow
    <2>1. requester[c].stage # requester[d].stage
      BY DEF KnowledgeInvariant, ClaimsAreOwn, Claims
    <2>2. \/ stages[requester[c].stage].state # "running"
          \/ stages[requester[d].stage].state # "running"
      BY <2>1 DEF KnowledgeInvariant, ClaimsAreOwn, Claims, OnlyLastRuns
    <2> QED BY <2>2 DEF KnowledgeInvariant, TakenWhenStale
  <1> QED BY <1>1, KnowledgeInvariance, PTL

-----------------------------------------------------------------------------
(* Uploaded sources.                                                       *)

SentAttempts == {uploads[u].attempt : u \in DOMAIN uploads}

\* What pages, local storage and the server remember was sent once, and for a source
\* that there is.
AttemptsWereSent ==
    /\ Len(uploads) <= MaxUploads
    /\ \A u \in DOMAIN uploads : uploads[u].attempt.target <= Len(sources)
    /\ \A g \in Target : draft[g] # None => draft[g] \in SentAttempts /\ draft[g].target = g
    /\ \A t \in Tab : \A kind \in {"create", "replace"} :
          tab[t].attempt[kind] # None => tab[t].attempt[kind] \in SentAttempts
    /\ \A k \in DOMAIN requests : requests[k] \in SentAttempts

\* Of the creations with one content that are neither done nor forgotten there is one
\* attempt, the one of local storage.
OneAttempt ==
    \A u \in DOMAIN uploads :
        /\ uploads[u].attempt.target = Create
        /\ uploads[u].attempt.content \notin seen \cup forgotten
        => draft[Create] = uploads[u].attempt

\* The uploads that sources refer to or have referred to.
Referred ==
    {u \in Upload :
        \E i \in DOMAIN sources : \E j \in DOMAIN sources[i].files : sources[i].files[j] = u}

FilesHaveSources ==
    /\ Referred \subseteq disk
    /\ \A u \in Referred : uploads[u].state # "sent"
    /\ \A u \in disk \ Referred : uploads[u].state = "failed"

\* The inductive invariant.
UploadsInvariant ==
    UploadsTypeOK /\ AttemptsWereSent /\ OneAttempt /\ FilesHaveSources

LEMMA UploadsAreNumbered ==
    ASSUME UploadsTypeOK
    PROVE  /\ Len(uploads) \in Nat /\ DOMAIN uploads = 1..Len(uploads)
           /\ Len(sources) \in Nat /\ DOMAIN sources = 1..Len(sources)
           /\ \A u \in DOMAIN uploads :
                 /\ uploads[u] \in Sent
                 /\ uploads[u].attempt \in Attempt
                 /\ uploads[u].attempt.target \in Target
                 /\ uploads[u].attempt.content \in Content
           /\ \A i \in DOMAIN sources :
                 /\ sources[i] \in Source
                 /\ sources[i].files \in Seq(Upload)
                 /\ DOMAIN sources[i].files = 1..Len(sources[i].files)
                 /\ Len(sources[i].files) \in Nat
  <1>1. /\ Len(uploads) \in Nat /\ DOMAIN uploads = 1..Len(uploads)
        /\ Len(sources) \in Nat /\ DOMAIN sources = 1..Len(sources)
        /\ \A u \in DOMAIN uploads : uploads[u] \in Sent
        /\ \A i \in DOMAIN sources : sources[i] \in Source
    BY LenProperties, ElementOfSeq DEF UploadsTypeOK
  <1>2. \A i \in DOMAIN sources : sources[i].files \in Seq(Upload)
    BY <1>1 DEF Source
  <1> QED BY <1>1, <1>2, LenProperties DEF Sent, Attempt

\* The server answers an upload.
LEMMA AnsweredUploads ==
    ASSUME UploadsTypeOK, NEW u \in DOMAIN uploads,
           NEW s \in {"made", "recovered", "changed", "failed", "uncertain"}, Answer(u, s)
    PROVE  /\ uploads' \in Seq(Sent)
           /\ Len(uploads') = Len(uploads) /\ DOMAIN uploads' = DOMAIN uploads
           /\ \A v \in DOMAIN uploads :
                 /\ uploads'[v].attempt = uploads[v].attempt
                 /\ uploads'[v].state = IF v = u THEN s ELSE uploads[v].state
  <1> DEFINE e == [uploads[u] EXCEPT !.state = s]
  <1>1. uploads' = [uploads EXCEPT ![u] = e]
    BY DEF Answer
  <1>2. e \in Sent /\ e.attempt = uploads[u].attempt /\ e.state = s
    BY UploadsAreNumbered DEF Sent
  <1> HIDE DEF e
  <1>3. /\ uploads' \in Seq(Sent) /\ Len(uploads') = Len(uploads)
        /\ \A v \in 1..Len(uploads) : uploads'[v] = IF v = u THEN e ELSE uploads[v]
    BY <1>1, <1>2, UploadsAreNumbered, ExceptSeq DEF UploadsTypeOK
  <1>4. DOMAIN uploads' = DOMAIN uploads
    BY <1>3, LenProperties, UploadsAreNumbered
  <1> QED BY <1>2, <1>3, <1>4, UploadsAreNumbered

\* The attempt that a page sends is new or one that was sent.
LEMMA PreparedAttempt ==
    ASSUME UploadsTypeOK, AttemptsWereSent, NEW t \in Tab, NEW fresh \in Attempt
    PROVE  LET a == Prepared(t, fresh)
               mine == tab[t].attempt[Kind(fresh.target)] IN
           /\ a \in Attempt
           /\ a.content = fresh.content /\ a.target = fresh.target
           /\ a = fresh \/ a \in SentAttempts
           /\ fresh.target = Create /\ draft[Create] # None
                 /\ draft[Create].content = fresh.content
              => a = draft[Create] \/ (a = mine /\ a \in SentAttempts)
  <1> DEFINE mine == tab[t].attempt[Kind(fresh.target)]
             stored == draft[fresh.target]
  <1>1. fresh.target \in Target /\ Kind(fresh.target) \in {"create", "replace"}
    BY DEF Attempt, Kind
  <1>2. mine \in Attempt \cup {None} /\ (mine # None => mine \in SentAttempts)
    BY <1>1 DEF UploadsTypeOK, AttemptsWereSent
  <1>3. /\ stored \in Attempt \cup {None}
        /\ stored # None => stored \in SentAttempts /\ stored.target = fresh.target
    BY <1>1 DEF UploadsTypeOK, AttemptsWereSent
  <1> QED BY <1>1, <1>2, <1>3 DEF Prepared, Same, Create

\* A page sends an upload.
LEMMA SendStep ==
    ASSUME UploadsInvariant, NEW t \in Tab, NEW g \in Target, NEW c \in Content,
           NEW shown \in 0..MaxRevision, Send(t, g, c, shown)
    PROVE  UploadsInvariant'
  <1> USE DEF UploadsInvariant
  <1> DEFINE n == Len(uploads) + 1
             fresh == [key |-> n, content |-> c, target |-> g, revision |-> shown]
             a == Prepared(t, fresh)
             mine == tab[t].attempt[Kind(g)]
             e == [attempt |-> a, shown |-> shown, state |-> "sent"]
  <1>1. /\ Len(uploads) \in Nat /\ DOMAIN uploads = 1..Len(uploads)
        /\ Len(sources) \in Nat /\ g <= Len(sources) /\ n \in Upload
        /\ n \notin DOMAIN uploads /\ n <= MaxUploads
    BY UploadsAreNumbered, SourceUploadsAssumption DEF Send, Target, Upload, Create
  <1>2. fresh \in Attempt
    BY <1>1 DEF Attempt
  <1>3. /\ a \in Attempt /\ a.content = c /\ a.target = g
        /\ a = fresh \/ a \in SentAttempts
        /\ g = Create /\ draft[Create] # None /\ draft[Create].content = c
           => a = draft[Create] \/ (a = mine /\ a \in SentAttempts)
    <2> HIDE DEF UploadsInvariant
    <2>1. fresh.content = c /\ fresh.target = g
      OBVIOUS
    <2> HIDE DEF fresh
    <2> QED BY <1>2, <2>1, PreparedAttempt DEF UploadsInvariant
  <1>4. e \in Sent /\ e.attempt = a /\ e.state = "sent"
    BY <1>3 DEF Sent
  <1>5. /\ uploads' = Append(uploads, e)
        /\ tab' = [tab EXCEPT ![t] = [attempt |-> [tab[t].attempt EXCEPT ![Kind(g)] = a],
                                      waits |-> n]]
        /\ Keep(g, a)
        /\ UNCHANGED <<sources, requests, disk, seen>>
    BY DEF Send, UploadsTypeOK
  <1> HIDE DEF e, a, fresh
  <1>6. /\ uploads' \in Seq(Sent) /\ Len(uploads') = n
        /\ \A v \in DOMAIN uploads : uploads'[v] = uploads[v]
        /\ uploads'[n] = e /\ DOMAIN uploads' = DOMAIN uploads \cup {n}
    <2>1. /\ uploads' \in Seq(Sent) /\ Len(uploads') = n
          /\ \A v \in 1..Len(uploads) : uploads'[v] = uploads[v]
          /\ uploads'[n] = e
      BY <1>4, <1>5, AppendProperties DEF UploadsTypeOK
    <2>2. DOMAIN uploads' = 1..n
      BY <2>1, LenProperties
    <2> QED BY <1>1, <2>1, <2>2
  <1>7. SentAttempts' = SentAttempts \cup {a}
    BY <1>4, <1>6 DEF SentAttempts
  <1>8. Kind(g) \in {"create", "replace"}
    BY DEF Kind
  <1>9. UploadsTypeOK'
    <2>1. tab' \in [Tab -> [attempt : [{"create", "replace"} -> Attempt \cup {None}],
                            waits : DOMAIN uploads' \cup {0}]]
      <3>1. tab \in [Tab -> [attempt : [{"create", "replace"} -> Attempt \cup {None}],
                             waits : DOMAIN uploads' \cup {0}]]
        BY <1>6 DEF UploadsTypeOK
      <3>2. [tab[t].attempt EXCEPT ![Kind(g)] = a] \in [{"create", "replace"} -> Attempt \cup {None}]
        BY <1>3, <1>8 DEF UploadsTypeOK
      <3> QED BY <1>5, <1>6, <3>1, <3>2
    <2>2. draft' \in [Target -> Attempt \cup {None}]
      BY <1>3, <1>5 DEF Keep, UploadsTypeOK
    <2>3. forgotten' \subseteq Content
      BY <1>5 DEF Keep, UploadsTypeOK, Attempt, Create, None
    <2> QED BY <1>5, <1>6, <2>1, <2>2, <2>3 DEF UploadsTypeOK
  <1>10. AttemptsWereSent'
    <2>1. Len(uploads') <= MaxUploads
      BY <1>1, <1>6
    <2>2. ASSUME NEW u \in DOMAIN uploads'
          PROVE  uploads'[u].attempt.target <= Len(sources)'
      BY <1>1, <1>3, <1>4, <1>5, <1>6 DEF AttemptsWereSent
    <2>3. ASSUME NEW h \in Target, draft'[h] # None
          PROVE  draft'[h] \in SentAttempts' /\ draft'[h].target = h
      BY <1>3, <1>5, <1>7, <2>3 DEF AttemptsWereSent, Keep, UploadsTypeOK
    <2>4. ASSUME NEW s \in Tab, NEW kind \in {"create", "replace"}, tab'[s].attempt[kind] # None
          PROVE  tab'[s].attempt[kind] \in SentAttempts'
      <3>1. \/ tab'[s].attempt[kind] = tab[s].attempt[kind]
            \/ tab'[s].attempt[kind] = a
        BY <1>5, <1>8 DEF UploadsTypeOK
      <3>2. tab[s].attempt[kind] \in Attempt \cup {None}
        BY DEF UploadsTypeOK
      <3>3. CASE tab'[s].attempt[kind] = a
        BY <1>7, <3>3 DEF SentAttempts
      <3>4. CASE tab'[s].attempt[kind] = tab[s].attempt[kind]
        BY <1>7, <2>4, <3>2, <3>4 DEF SentAttempts, AttemptsWereSent
      <3> QED BY <3>1, <3>3, <3>4
    <2>5. ASSUME NEW k \in DOMAIN requests'
          PROVE  requests'[k] \in SentAttempts'
      BY <1>5, <1>7 DEF AttemptsWereSent, UploadsTypeOK, SentAttempts
    <2> QED BY <2>1, <2>2, <2>3, <2>4, <2>5 DEF AttemptsWereSent
  <1>11. OneAttempt'
    <2> SUFFICES ASSUME NEW u \in DOMAIN uploads', uploads'[u].attempt.target = Create,
                        uploads'[u].attempt.content \notin seen' \cup forgotten'
                 PROVE  draft'[Create] = uploads'[u].attempt
      BY DEF OneAttempt
    <2>1. CASE g # Create
      <3>1. u \in DOMAIN uploads /\ forgotten' = forgotten /\ draft'[Create] = draft[Create]
        BY <1>3, <1>4, <1>5, <1>6, <2>1 DEF Keep, UploadsTypeOK, Target, Create
      <3> QED BY <1>5, <1>6, <3>1 DEF OneAttempt
    <2>2. CASE g = Create
      <3>1. draft'[Create] = a
        BY <1>5, <2>2 DEF Keep, UploadsTypeOK
      <3>2. CASE u = n
        BY <1>4, <1>6, <3>1, <3>2
      <3>3. CASE u \in DOMAIN uploads
        <4>1. draft[Create] = uploads[u].attempt /\ draft[Create] # None
          BY <1>5, <1>6, <3>3, UploadsAreNumbered DEF OneAttempt, Keep, Attempt, Upload, None
        <4>2. draft[Create].content = c /\ c \notin seen \cup forgotten
          BY <1>3, <1>5, <1>6, <2>2, <3>3, <4>1 DEF Keep
        <4>3. a \in SentAttempts => a = draft[Create]
          BY <1>3, <2>2, <4>2 DEF SentAttempts, OneAttempt
        <4> QED BY <1>3, <1>6, <2>2, <3>1, <3>3, <4>1, <4>2, <4>3
      <3> QED BY <1>6, <3>2, <3>3
    <2> QED BY <2>1, <2>2
  <1>12. FilesHaveSources'
    <2>1. Referred' = Referred
      BY <1>5 DEF Referred
    <2>2. disk' = disk /\ disk \subseteq DOMAIN uploads
      BY <1>5 DEF UploadsTypeOK
    <2> QED BY <1>6, <2>1, <2>2 DEF FilesHaveSources
  <1> QED BY <1>9, <1>10, <1>11, <1>12

\* A page hears of an answer, loads or is left, or local storage loses a draft: no
\* upload and nothing of the server changes, and attempts are only forgotten.
LEMMA PageStep ==
    ASSUME UploadsInvariant,
           \/ \E t \in Tab : \/ HearSuccess(t) \/ HearProblem(t) \/ Leave(t)
                             \/ \E i \in 1..MaxSources : Load(t, i)
           \/ \E g \in Target : LoseDraft(g)
    PROVE  UploadsInvariant'
  <1> USE DEF UploadsInvariant
  <1>1. UNCHANGED <<sources, requests, disk, uploads>>
    BY DEF HearSuccess, HearProblem, Leave, Load, LoseDraft
  <1>2. SentAttempts' = SentAttempts
    BY <1>1 DEF SentAttempts
  <1>3. FilesHaveSources'
    BY <1>1 DEF FilesHaveSources, Referred
  \* What the step makes of draft[g] it forgets.
  <1>4. ASSUME NEW g \in Target,
               draft' = [draft EXCEPT ![g] = None],
               tab' \in [Tab -> [attempt : [{"create", "replace"} -> Attempt \cup {None}],
                                 waits : DOMAIN uploads \cup {0}]],
               \A s \in Tab : \A kind \in {"create", "replace"} :
                  tab'[s].attempt[kind] \in {None, tab[s].attempt[kind]},
               seen' \subseteq Content /\ forgotten' \subseteq Content,
               seen \subseteq seen' /\ forgotten \subseteq forgotten',
               g = Create /\ draft[Create] # None => draft[Create].content \in seen' \cup forgotten'
        PROVE  UploadsInvariant'
    <2>1. UploadsTypeOK'
      BY <1>1, <1>4 DEF UploadsTypeOK
    <2>2. AttemptsWereSent'
      <3>1. \A h \in Target : draft'[h] # None => draft'[h] \in SentAttempts' /\ draft'[h].target = h
        BY <1>2, <1>4 DEF AttemptsWereSent, UploadsTypeOK
      <3>2. \A s \in Tab : \A kind \in {"create", "replace"} :
               tab'[s].attempt[kind] # None => tab'[s].attempt[kind] \in SentAttempts'
        BY <1>2, <1>4 DEF AttemptsWereSent
      <3> QED BY <1>1, <1>2, <3>1, <3>2 DEF AttemptsWereSent
    <2>3. OneAttempt'
      <3> SUFFICES ASSUME NEW u \in DOMAIN uploads, uploads[u].attempt.target = Create,
                          uploads[u].attempt.content \notin seen' \cup forgotten'
                   PROVE  draft'[Create] = uploads[u].attempt
        BY <1>1 DEF OneAttempt
      <3>1. draft[Create] = uploads[u].attempt /\ uploads[u].attempt # None
        BY <1>4, UploadsAreNumbered DEF OneAttempt, Attempt, Upload, None
      <3>2. g # Create
        BY <1>4, <3>1
      <3> QED BY <1>4, <3>1, <3>2 DEF UploadsTypeOK
    <2> QED BY <1>3, <2>1, <2>2, <2>3
  \* The step leaves local storage alone.
  <1>5. ASSUME tab' \in [Tab -> [attempt : [{"create", "replace"} -> Attempt \cup {None}],
                                 waits : DOMAIN uploads \cup {0}]],
               \A s \in Tab : \A kind \in {"create", "replace"} :
                  tab'[s].attempt[kind] \in {None, tab[s].attempt[kind]},
               UNCHANGED <<draft, seen, forgotten>>
        PROVE  UploadsInvariant'
    <2>1. UploadsTypeOK'
      BY <1>1, <1>5 DEF UploadsTypeOK
    <2>2. \A s \in Tab : \A kind \in {"create", "replace"} :
             tab'[s].attempt[kind] # None => tab'[s].attempt[kind] \in SentAttempts'
      BY <1>2, <1>5 DEF AttemptsWereSent
    <2>3. AttemptsWereSent'
      BY <1>1, <1>2, <1>5, <2>2 DEF AttemptsWereSent
    <2>4. OneAttempt'
      BY <1>1, <1>5 DEF OneAttempt
    <2> QED BY <1>3, <2>1, <2>3, <2>4
  <1>6. ASSUME NEW t \in Tab, HearSuccess(t)
        PROVE  UploadsInvariant'
    <2> DEFINE u == tab[t].waits
               a == uploads[u].attempt
               g == a.target
    <2>1. /\ u \in DOMAIN uploads /\ a \in Attempt /\ g \in Target /\ a.content \in Content
          /\ draft' = [draft EXCEPT ![g] = None]
          /\ tab' = [tab EXCEPT ![t] =
                        [attempt |-> [tab[t].attempt EXCEPT ![Kind(g)] = None], waits |-> 0]]
          /\ forgotten' = IF g = Create /\ draft[Create] \notin {None, a}
                          THEN forgotten \cup {draft[Create].content} ELSE forgotten
          /\ seen' = IF g = Create THEN seen \cup {a.content} ELSE seen
      <3>1. u \in DOMAIN uploads
        <4>1. u > 0 /\ u \in DOMAIN uploads \cup {0}
          BY <1>6 DEF HearSuccess, UploadsTypeOK
        <4> QED BY <4>1
      <3>2. a \in Attempt /\ g \in Target /\ a.content \in Content
        BY <3>1, UploadsAreNumbered
      <3> QED BY <1>6, <3>1, <3>2 DEF HearSuccess, UploadsTypeOK
    <2> HIDE DEF u, a
    <2>2. Kind(g) \in {"create", "replace"}
      BY DEF Kind
    <2>3. [tab[t].attempt EXCEPT ![Kind(g)] = None] \in [{"create", "replace"} -> Attempt \cup {None}]
      BY <2>2 DEF UploadsTypeOK
    <2>4. /\ tab' \in [Tab -> [attempt : [{"create", "replace"} -> Attempt \cup {None}],
                               waits : DOMAIN uploads \cup {0}]]
          /\ \A s \in Tab : \A kind \in {"create", "replace"} :
                tab'[s].attempt[kind] \in {None, tab[s].attempt[kind]}
      BY <2>1, <2>2, <2>3 DEF UploadsTypeOK
    <2>5. draft[Create] # None => draft[Create].content \in Content
      BY SourceUploadsAssumption DEF UploadsTypeOK, Attempt, Create, Target
    <2> QED BY <1>4, <2>1, <2>4, <2>5 DEF UploadsTypeOK
  <1>7. ASSUME NEW t \in Tab, HearProblem(t)
        PROVE  UploadsInvariant'
    BY <1>5, <1>7 DEF HearProblem, UploadsTypeOK
  <1>8. ASSUME NEW t \in Tab, Leave(t)
        PROVE  UploadsInvariant'
    BY <1>5, <1>8 DEF Leave, Page, UploadsTypeOK
  <1>9. ASSUME NEW t \in Tab, NEW i \in 1..MaxSources, Load(t, i)
        PROVE  UploadsInvariant'
    <2>1. i \in Target /\ i # Create
      BY SourceUploadsAssumption DEF Target, Create
    <2>2. draft' = [draft EXCEPT ![i] = None] /\ UNCHANGED <<seen, forgotten>>
      BY <1>9 DEF Load
    <2>3. tab' = [tab EXCEPT ![t].attempt["replace"] = None]
      BY <1>9 DEF Load
    <2>4. tab' \in [Tab -> [attempt : [{"create", "replace"} -> Attempt \cup {None}],
                            waits : DOMAIN uploads \cup {0}]]
      BY <2>3 DEF UploadsTypeOK
    <2>5. \A s \in Tab : \A kind \in {"create", "replace"} :
             tab'[s].attempt[kind] \in {None, tab[s].attempt[kind]}
      BY <2>3 DEF UploadsTypeOK
    <2> QED BY <1>4, <2>1, <2>2, <2>4, <2>5 DEF UploadsTypeOK
  <1>10. ASSUME NEW g \in Target, LoseDraft(g)
         PROVE  UploadsInvariant'
    <2>1. /\ draft' = [draft EXCEPT ![g] = None] /\ UNCHANGED <<tab, seen>>
          /\ forgotten' = IF g = Create THEN forgotten \cup {draft[g].content} ELSE forgotten
          /\ draft[g].content \in Content
      BY <1>10 DEF LoseDraft, Keep, UploadsTypeOK, Attempt
    <2> QED BY <1>4, <2>1 DEF UploadsTypeOK
  <1> QED BY <1>6, <1>7, <1>8, <1>9, <1>10

\* The server stores an input and remembers the key of the attempt.
LEMMA CommitStep ==
    ASSUME UploadsInvariant, NEW u \in DOMAIN uploads, CreateSource(u) \/ ReplaceInput(u)
    PROVE  UploadsInvariant'
  <1> USE DEF UploadsInvariant
  <1> DEFINE a == uploads[u].attempt
  <1>1. u \in Upload /\ a \in Attempt /\ a \in SentAttempts /\ a.key \in Upload
        /\ a.target \in Target /\ a.target <= Len(sources) /\ Len(sources) \in Nat
        /\ a.revision \in 0..MaxRevision
    BY UploadsAreNumbered, SourceUploadsAssumption
       DEF AttemptsWereSent, SentAttempts, Attempt, Upload
  <1>2. PICK state \in {"made", "uncertain"} : Answer(u, state) /\ disk' = disk \cup {u}
    BY DEF CreateSource, ReplaceInput, Commit, Kept
  <1>3. /\ uploads' \in Seq(Sent)
        /\ Len(uploads') = Len(uploads) /\ DOMAIN uploads' = DOMAIN uploads
        /\ \A v \in DOMAIN uploads :
              /\ uploads'[v].attempt = uploads[v].attempt
              /\ uploads'[v].state = IF v = u THEN state ELSE uploads[v].state
    BY <1>2, AnsweredUploads
  <1>4. /\ requests' = [k \in DOMAIN requests \cup {a.key} |->
                           IF k \in DOMAIN requests THEN requests[k] ELSE a]
        /\ UNCHANGED <<tab, draft, seen, forgotten>>
    BY DEF CreateSource, ReplaceInput, Commit
  <1> HIDE DEF a
  <1>5. /\ sources' \in Seq(Source) /\ Len(sources) <= Len(sources')
        /\ Referred' = Referred \cup {u}
    <2>1. CASE CreateSource(u)
      <3> DEFINE e == [files |-> <<u>>, revision |-> 1]
      <3>1. sources' = Append(sources, e)
        BY <2>1 DEF CreateSource
      <3>2. e \in Source /\ e.files = <<u>>
        BY <1>1, SourceUploadsAssumption DEF Source
      <3> HIDE DEF e
      <3>3. /\ sources' \in Seq(Source) /\ Len(sources') = Len(sources) + 1
            /\ \A i \in 1..Len(sources) : sources'[i] = sources[i]
            /\ sources'[Len(sources) + 1] = e
        BY <3>1, <3>2, AppendProperties DEF UploadsTypeOK
      <3>4. DOMAIN sources' = DOMAIN sources \cup {Len(sources) + 1}
            /\ Len(sources) + 1 \notin DOMAIN sources
        <4>1. DOMAIN sources' = 1..Len(sources) + 1
          BY <3>3, LenProperties
        <4> QED BY <4>1, UploadsAreNumbered
      <3>5. Referred' = Referred \cup {u}
        <4>1. /\ \A i \in DOMAIN sources : sources'[i] = sources[i]
              /\ sources'[Len(sources) + 1].files = <<u>>
              /\ DOMAIN <<u>> = {1} /\ <<u>>[1] = u
          BY <3>2, <3>3, UploadsAreNumbered
        <4> QED BY <1>1, <3>4, <4>1 DEF Referred
      <3> QED BY <1>1, <3>3, <3>5
    <2>2. CASE ReplaceInput(u)
      <3> DEFINE i == a.target
                 files == Append(sources[i].files, u)
                 e == [files |-> files, revision |-> a.revision + 1]
      <3>1. i \in DOMAIN sources
        BY <1>1, <2>2, UploadsAreNumbered DEF ReplaceInput, Target, Create, a
      <3>2. sources' = [sources EXCEPT ![i] = e]
        BY <2>2 DEF ReplaceInput, a
      <3>3. /\ files \in Seq(Upload)
            /\ DOMAIN files = DOMAIN sources[i].files \cup {Len(sources[i].files) + 1}
            /\ \A j \in DOMAIN sources[i].files : files[j] = sources[i].files[j]
            /\ files[Len(sources[i].files) + 1] = u
        <4>1. /\ files \in Seq(Upload) /\ Len(files) = Len(sources[i].files) + 1
              /\ \A j \in 1..Len(sources[i].files) : files[j] = sources[i].files[j]
              /\ files[Len(sources[i].files) + 1] = u
          BY <1>1, <3>1, UploadsAreNumbered, AppendProperties
        <4>2. DOMAIN files = 1..Len(sources[i].files) + 1
          BY <4>1, LenProperties
        <4> QED BY <3>1, <4>1, <4>2, UploadsAreNumbered
      <3>4. a.revision + 1 \in 1..MaxRevision
        BY <1>1, <2>2, SourceUploadsAssumption DEF ReplaceInput, a
      <3>5. e \in Source /\ e.files = files
        BY <3>3, <3>4 DEF Source
      <3> HIDE DEF e, files
      <3>6. /\ sources' \in Seq(Source) /\ Len(sources') = Len(sources)
            /\ \A j \in 1..Len(sources) : sources'[j] = IF j = i THEN e ELSE sources[j]
        BY <3>1, <3>2, <3>5, UploadsAreNumbered, ExceptSeq DEF UploadsTypeOK
      <3>7. /\ DOMAIN sources' = DOMAIN sources
            /\ sources'[i].files = files
            /\ \A j \in DOMAIN sources : j # i => sources'[j] = sources[j]
        BY <3>1, <3>5, <3>6, LenProperties, UploadsAreNumbered
      <3>8. ASSUME NEW v \in Upload
            PROVE  v \in Referred' <=> v \in Referred \/ v = u
        <4>1. v \in Referred => v \in Referred'
          BY <3>1, <3>3, <3>7 DEF Referred
        <4>2. u \in Referred'
          BY <1>1, <3>1, <3>3, <3>7 DEF Referred
        <4>3. v \in Referred' => v \in Referred \/ v = u
          BY <3>1, <3>3, <3>7 DEF Referred
        <4> QED BY <4>1, <4>2, <4>3
      <3>9. Referred' = Referred \cup {u}
        BY <1>1, <3>8 DEF Referred
      <3> QED BY <3>6, <3>9
    <2> QED BY <2>1, <2>2
  <1>6. UploadsTypeOK'
    BY <1>1, <1>2, <1>3, <1>4, <1>5 DEF UploadsTypeOK
  <1>7. SentAttempts' = SentAttempts
    BY <1>3 DEF SentAttempts
  <1>8. AttemptsWereSent'
    <2>1. Len(sources') \in Nat
      BY <1>5, LenProperties
    <2>2. \A v \in DOMAIN uploads : uploads'[v].attempt.target <= Len(sources')
      BY <1>1, <1>3, <1>5, <2>1, UploadsAreNumbered, SourceUploadsAssumption
         DEF AttemptsWereSent, Target
    <2>3. \A k \in DOMAIN requests' : requests'[k] \in SentAttempts
      BY <1>1, <1>4 DEF AttemptsWereSent
    <2> QED BY <1>3, <1>4, <1>7, <2>2, <2>3 DEF AttemptsWereSent
  <1>9. OneAttempt'
    BY <1>3, <1>4 DEF OneAttempt
  <1>10. FilesHaveSources'
    BY <1>1, <1>2, <1>3, <1>5, UploadsAreNumbered DEF FilesHaveSources, UploadsTypeOK
  <1> QED BY <1>6, <1>8, <1>9, <1>10

\* The server finds the key known, refuses or fails; or somebody else changes a source.
LEMMA ServerStep ==
    ASSUME UploadsInvariant,
           \/ \E u \in DOMAIN uploads : Recover(u) \/ Refuse(u) \/ Fail(u)
           \/ \E i \in DOMAIN sources : ChangeSource(i)
    PROVE  UploadsInvariant'
  <1> USE DEF UploadsInvariant
  <1>1. ASSUME NEW u \in DOMAIN uploads, Recover(u) \/ Refuse(u) \/ Fail(u)
        PROVE  UploadsInvariant'
    <2>1. PICK s \in {"recovered", "changed", "failed"} :
             Answer(u, s) /\ (disk' = disk \/ (s = "failed" /\ disk' = disk \cup {u}))
      BY <1>1 DEF Recover, Refuse, Fail
    <2>2. UNCHANGED <<sources, requests, tab, draft, seen, forgotten>> /\ uploads[u].state = "sent"
      BY <1>1 DEF Recover, Refuse, Fail
    <2>3. /\ uploads' \in Seq(Sent)
          /\ Len(uploads') = Len(uploads) /\ DOMAIN uploads' = DOMAIN uploads
          /\ \A v \in DOMAIN uploads :
                /\ uploads'[v].attempt = uploads[v].attempt
                /\ uploads'[v].state = IF v = u THEN s ELSE uploads[v].state
      BY <2>1, AnsweredUploads
    <2>4. UploadsTypeOK'
      BY <2>1, <2>2, <2>3 DEF UploadsTypeOK
    <2>5. SentAttempts' = SentAttempts
      BY <2>3 DEF SentAttempts
    <2>6. AttemptsWereSent'
      BY <2>2, <2>3, <2>5 DEF AttemptsWereSent
    <2>7. OneAttempt'
      BY <2>2, <2>3 DEF OneAttempt
    <2>8. FilesHaveSources'
      <3>1. Referred' = Referred
        BY <2>2 DEF Referred
      <3>2. u \in Upload /\ u \notin Referred /\ disk \subseteq Upload
        BY <2>2, UploadsAreNumbered, SourceUploadsAssumption
           DEF FilesHaveSources, AttemptsWereSent, UploadsTypeOK, Upload
      <3> QED BY <2>1, <2>2, <2>3, <3>1, <3>2 DEF FilesHaveSources, UploadsTypeOK
    <2> QED BY <2>4, <2>6, <2>7, <2>8
  <1>2. ASSUME NEW i \in DOMAIN sources, ChangeSource(i)
        PROVE  UploadsInvariant'
    <2> DEFINE e == [sources[i] EXCEPT !.revision = @ + 1]
    <2>1. /\ sources' = [sources EXCEPT ![i] = e]
          /\ UNCHANGED <<requests, disk, uploads, tab, draft, seen, forgotten>>
      BY <1>2 DEF ChangeSource
    <2>2. e \in Source /\ e.files = sources[i].files
      BY <1>2, UploadsAreNumbered, SourceUploadsAssumption DEF ChangeSource, Source
    <2> HIDE DEF e
    <2>3. /\ sources' \in Seq(Source) /\ Len(sources') = Len(sources)
          /\ \A j \in 1..Len(sources) : sources'[j] = IF j = i THEN e ELSE sources[j]
      BY <2>1, <2>2, UploadsAreNumbered, ExceptSeq DEF UploadsTypeOK
    <2>4. DOMAIN sources' = DOMAIN sources
      BY <2>3, LenProperties, UploadsAreNumbered
    <2>5. Referred' = Referred
      BY <2>2, <2>3, <2>4, UploadsAreNumbered DEF Referred
    <2>6. UploadsTypeOK'
      BY <2>1, <2>3 DEF UploadsTypeOK
    <2>7. AttemptsWereSent' /\ OneAttempt'
      BY <2>1, <2>3 DEF AttemptsWereSent, SentAttempts, OneAttempt
    <2>8. FilesHaveSources'
      <3>1. disk \subseteq Upload
        BY UploadsAreNumbered, SourceUploadsAssumption DEF AttemptsWereSent, UploadsTypeOK, Upload
      <3> QED BY <2>1, <2>5, <3>1 DEF FilesHaveSources
    <2> QED BY <2>6, <2>7, <2>8
  <1> QED BY <1>1, <1>2

LEMMA UploadsStart == UploadsInit => UploadsInvariant
  <1> SUFFICES ASSUME UploadsInit
               PROVE  UploadsInvariant
    OBVIOUS
  <1>1. /\ sources \in Seq(Source) /\ Len(sources) = 0 /\ DOMAIN sources = {}
        /\ uploads \in Seq(Sent) /\ Len(uploads) = 0 /\ DOMAIN uploads = {}
    BY EmptySeq DEF UploadsInit
  <1> QED BY <1>1, SourceUploadsAssumption
          DEF UploadsInit, UploadsInvariant, UploadsTypeOK, AttemptsWereSent, OneAttempt,
              FilesHaveSources, Referred, Page

LEMMA UploadsStep ==
    ASSUME UploadsInvariant, [UploadsNext]_uploadVars
    PROVE  UploadsInvariant'
  <1>1. CASE UNCHANGED uploadVars
    BY <1>1 DEF uploadVars, UploadsInvariant, UploadsTypeOK, AttemptsWereSent, SentAttempts,
                OneAttempt, FilesHaveSources, Referred
  <1>2. CASE UploadsNext
    BY <1>2, SendStep, PageStep, CommitStep, ServerStep DEF UploadsNext
  <1> QED BY <1>1, <1>2

\* Attempts in tabs and local storage, requests remembered by the server, sources and
\* files agree as the named facts above say in every reachable state.
THEOREM UploadsInvariance == UploadsSpec => []UploadsInvariant
  BY UploadsStart, UploadsStep, PTL DEF UploadsSpec

\* Whatever is lost, uncertain or sent again, the directory has every file that a
\* source refers to, and of the others only those of requests that broke off (the
\* deferred removal of createUploadedSource and replaceSourceInput).
THEOREM ReferredFilesAreKept == UploadsSpec => []FilesAreKept
  <1>1. UploadsInvariant => FilesAreKept
    <2> SUFFICES ASSUME UploadsInvariant
                 PROVE  FilesAreKept
      OBVIOUS
    <2> DEFINE referred == UNION {ToSet(sources[i].files) : i \in DOMAIN sources}
    <2>1. \A i \in DOMAIN sources : \A j \in DOMAIN sources[i].files : sources[i].files[j] \in Upload
      BY UploadsAreNumbered, ElementOfSeq DEF UploadsInvariant
    <2>2. referred = Referred
      BY <2>1 DEF ToSet, Referred
    <2> QED BY <2>2 DEF UploadsInvariant, FilesHaveSources, FilesAreKept
  <1> QED BY <1>1, UploadsInvariance, PTL

\* A creation that is retried, from any tab and after any reload, is recognized by its
\* key (sourceCreationAttempt, CreateSourceOnce): two keys have created sources from one
\* input only if the first creation was seen to succeed or its draft was lost.
THEOREM CreationsAreSingle == UploadsSpec => []OneSourcePerCreation
  <1>1. UploadsInvariant => OneSourcePerCreation
    <2> SUFFICES ASSUME UploadsInvariant,
                        NEW k \in DOMAIN requests, NEW l \in DOMAIN requests,
                        requests[k].target = Create, requests[l].target = Create,
                        requests[k].content = requests[l].content,
                        requests[k].content \notin seen \cup forgotten
                 PROVE  k = l
      BY DEF OneSourcePerCreation
    <2>1. requests[k] = draft[Create] /\ requests[l] = draft[Create]
      BY DEF UploadsInvariant, AttemptsWereSent, SentAttempts, OneAttempt
    <2> QED BY <2>1 DEF UploadsInvariant, UploadsTypeOK
  <1> QED BY <1>1, UploadsInvariance, PTL

-----------------------------------------------------------------------------
(* All parts.                                                              *)

\* Beside the others, each part does what it does alone, so that every theorem about
\* one holds of all.
THEOREM PartsAreApart ==
    PartsSpec => Spec /\ UploadsSpec /\ KnowledgeSpec /\ WindowSpec /\ BudgetSpec
  <1>1. PartsInit => Init /\ UploadsInit /\ KnowledgeInit /\ WindowInit /\ BudgetInit
    BY DEF PartsInit
  <1>2. [PartsNext]_<<part, vars, uploadVars, knowledgeVars, windowVars, budgetVars, backoffVars>> =>
            /\ [Next]_vars /\ [UploadsNext]_uploadVars /\ [KnowledgeNext]_knowledgeVars
            /\ [WindowNext]_windowVars /\ [BudgetNext]_budgetVars
    BY DEF PartsNext
  <1> QED BY <1>1, <1>2, PTL
          DEF PartsSpec, Spec, UploadsSpec, KnowledgeSpec, WindowSpec, BudgetSpec

\* Every variable of all parts keeps its type.
THEOREM PartsTypeInvariance == PartsSpec => []PartsTypeOK
  <1>1. UploadsInvariant /\ KnowledgeInvariant /\ WindowInvariant /\ BudgetInvariant => PartsTypeOK
    BY DEF UploadsInvariant, KnowledgeInvariant, WindowInvariant, BudgetInvariant, PartsTypeOK
  <1> QED BY <1>1, PartsAreApart, UploadsInvariance, KnowledgeInvariance, WindowInvariance,
             BudgetInvariance, PTL

\* The arguments that the claims of a row give to the delay.
BackoffArguments == base \in Nat \ {0} /\ cap \in Nat \ {0} /\ attempts \in Nat

\* However often a row is claimed, its delay is the base doubled once for each attempt
\* after the first, or the cap, and the loop that computes it stops within twice the
\* cap (reportDeliveryRetryDelay, authorizationUsageRetryDelay).
THEOREM DelaysAreCapped == PartsSpec => []CappedDoubling
  <1>1. PartsInit => BackoffArguments
    BY MCPartsAssumption DEF PartsInit, BackoffArguments
  <1>2. ASSUME BackoffArguments,
               [PartsNext]_<<part, vars, uploadVars, knowledgeVars, windowVars, budgetVars, backoffVars>>
        PROVE  BackoffArguments'
    BY <1>2 DEF PartsNext, ClaimAgain, BackoffArguments, backoffVars
  <1>3. BackoffArguments => CappedDoubling
    BY DelayIsCapped DEF BackoffArguments, CappedDoubling
  <1> QED BY <1>1, <1>2, <1>3, PTL DEF PartsSpec
=============================================================================
