--------------------------- MODULE KnowledgeStages ---------------------------
(***************************************************************************)
(* The knowledge processing of one ingestion run: each request sends at    *)
(* most one batch to the AI provider (ProcessKnowledgeBatch), under a      *)
(* claim that is a row of developer_asset_ingestion_stages and that other  *)
(* requests may take over when it has been running for three minutes       *)
(* (ClaimKnowledgeProcessingStage).  The evidence of a run is immutable    *)
(* and so are its batches.                                                 *)
(***************************************************************************)
EXTENDS Naturals, Sequences

CONSTANTS Requester, Batches, MaxStages  \* MaxStages bounds the attempts

ASSUME KnowledgeStagesAssumption == {Batches, MaxStages} \subseteq Nat \ {0}

VARIABLES stages,    \* the ai_enrich rows of the run, by attempt
          stale,     \* the attempts that started longer ago than the window
          requester  \* the requests at work

knowledgeVars == <<stages, stale, requester>>

Batch == 1..Batches
Stage == [batch : Batch, state : {"running", "succeeded", "failed", "cancelled"}]
Waiting == [pc |-> "idle", batch |-> 1, stage |-> 0]

KnowledgeTypeOK ==
    /\ stages \in Seq(Stage)
    /\ stale \subseteq DOMAIN stages
    /\ requester \in [Requester -> [pc : {"idle", "claiming", "rechecking", "calling",
                                          "succeeded", "failed"},
                                    batch : Batch, stage : 0..MaxStages]]

KnowledgeInit ==
    /\ stages = <<>> /\ stale = {}
    /\ requester = [c \in Requester |-> Waiting]

-----------------------------------------------------------------------------
Completed(b) == \E i \in DOMAIN stages : stages[i].batch = b /\ stages[i].state = "succeeded"

Active(i) == stages[i].state = "running" /\ i \notin stale

\* The status is "running" when the latest attempt at an unfinished batch is.
ShownRunning ==
    \E i \in DOMAIN stages :
        /\ Active(i) /\ ~Completed(stages[i].batch)
        /\ \A j \in DOMAIN stages : j > i => stages[j].batch # stages[i].batch

\* A request reads the status and goes for the first batch that is not done.
ReadStatus(c) ==
    /\ requester[c].pc = "idle" /\ ~ShownRunning
    /\ \E b \in Batch :
          /\ ~Completed(b) /\ \A earlier \in 1..b - 1 : Completed(earlier)
          /\ requester' = [requester EXCEPT ![c] = [pc |-> "claiming", batch |-> b, stage |-> 0]]
    /\ UNCHANGED <<stages, stale>>

\* What a claim makes of the attempts before it.
Superseded ==
    [i \in DOMAIN stages |-> IF stages[i].state = "running"
                             THEN [stages[i] EXCEPT !.state = "failed"] ELSE stages[i]]

ClaimAs(c, blocked) ==
    /\ requester[c].pc = "claiming" /\ Len(stages) < MaxStages
    /\ IF blocked
       THEN /\ requester' = [requester EXCEPT ![c] = Waiting]
            /\ UNCHANGED stages
       ELSE /\ stages' = Append(Superseded, [batch |-> requester[c].batch, state |-> "running"])
            /\ requester' = [requester EXCEPT ![c] = [pc |-> "rechecking", batch |-> @.batch,
                                                      stage |-> Len(stages')]]
    /\ UNCHANGED stale

\* Mutated: only claims on the same batch are looked for.
ClaimStageOfBatch(c) ==
    ClaimAs(c, \E i \in DOMAIN stages : Active(i) /\ stages[i].batch = requester[c].batch)

\* One transaction with the row of the run locked.
ClaimStage(c) == ClaimAs(c, \E i \in DOMAIN stages : Active(i))

\* What SaveDeveloperAssetIngestionStage(stage, "running") leaves.
Stored(i, state) ==
    IF stages[i].state = "running" THEN [stages EXCEPT ![i].state = state] ELSE stages

\* Another request may have completed the batch before the claim.
RecheckStage(c) ==
    /\ requester[c].pc = "rechecking"
    /\ IF Completed(requester[c].batch)
       THEN /\ stages' = Stored(requester[c].stage, "cancelled")
            /\ requester' = [requester EXCEPT ![c] = Waiting]
       ELSE /\ requester' \in {[requester EXCEPT ![c].pc = "calling"],
                               [requester EXCEPT ![c].pc = "failed"]}
            /\ UNCHANGED stages
    /\ UNCHANGED stale

\* The provider answers, or not within 90 s, or with something invalid.
CallProvider(c) ==
    /\ requester[c].pc = "calling"
    /\ \E outcome \in {"succeeded", "failed"} :
          requester' = [requester EXCEPT ![c].pc = outcome]
    /\ UNCHANGED <<stages, stale>>

\* Mutated: the result is stored whatever has become of the claim.
SaveStageAnyway(c) ==
    /\ requester[c].pc \in {"succeeded", "failed"}
    /\ stages' = [stages EXCEPT ![requester[c].stage].state = requester[c].pc]
    /\ requester' = [requester EXCEPT ![c] = Waiting]
    /\ UNCHANGED stale

SaveStage(c) ==
    /\ requester[c].pc \in {"succeeded", "failed"}
    /\ stages' = Stored(requester[c].stage, requester[c].pc)
    /\ requester' = [requester EXCEPT ![c] = Waiting]
    /\ UNCHANGED stale

\* The process stops or the database fails: the row goes on "running".
LoseRequest(c) ==
    /\ requester[c].pc # "idle"
    /\ requester' = [requester EXCEPT ![c] = Waiting]
    /\ UNCHANGED <<stages, stale>>

\* A claim passes three minutes, with its request at work or not.
Lapse(i) ==
    /\ Active(i)
    /\ stale' = stale \cup {i}
    /\ UNCHANGED <<stages, requester>>

KnowledgeNext ==
    \/ \E c \in Requester : \/ ReadStatus(c) \/ ClaimStage(c) \/ RecheckStage(c)
                            \/ CallProvider(c) \/ SaveStage(c) \/ LoseRequest(c)
    \/ \E i \in DOMAIN stages : Lapse(i)

KnowledgeSpec == KnowledgeInit /\ [][KnowledgeNext]_knowledgeVars

-----------------------------------------------------------------------------
\* No batch has two results: an answer that comes after the claim was taken over is
\* dropped, and a batch done in the meantime is not done again.
OneResultPerBatch ==
    \A i, j \in DOMAIN stages :
        /\ stages[i].state = "succeeded" /\ stages[j].state = "succeeded"
        /\ stages[i].batch = stages[j].batch
        => i = j

\* Of two requests that call the provider for one run at the same time, the claim
\* of one was overdue.
OneCallPerWindow ==
    \A c, d \in Requester :
        c # d /\ requester[c].pc = "calling" /\ requester[d].pc = "calling" =>
            {requester[c].stage, requester[d].stage} \cap stale # {}
=============================================================================
