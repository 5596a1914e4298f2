------------------------------- MODULE MCParts -------------------------------
(* Parts of the system that do not act on one another, small enough for TLC: *)
(* the behaviours of this module are those of each of them, one at a time.   *)
EXTENDS SourceLocks, SourceUploads, KnowledgeStages, FixedWindow, AIBudget, Backoff

CONSTANTS MaxBase, MaxCap, MaxAttempts  \* bounds of Backoff's arguments

ASSUME MCPartsAssumption == {MaxBase, MaxCap, MaxAttempts} \subseteq Nat

VARIABLES part,                    \* the part that acts
          base, cap, attempts      \* arguments of Backoff

backoffVars == <<base, cap, attempts>>

\* Everything but the publication.
MCUnpublished == AllPaths \ {"publish"}

PartsInit ==
    /\ part \in {"locks", "uploads", "knowledge", "window", "budget", "backoff"}
    /\ Init /\ UploadsInit /\ KnowledgeInit /\ WindowInit /\ BudgetInit
    /\ IF part = "backoff" THEN base \in 1..MaxBase /\ cap \in 1..MaxCap ELSE base = 1 /\ cap = 1
    /\ attempts = 0

\* A claim counts one attempt more.
ClaimAgain ==
    /\ attempts < MaxAttempts
    /\ attempts' = attempts + 1
    /\ UNCHANGED <<base, cap>>

PartsNext ==
    /\ \/ part = "locks" /\ Next
          /\ UNCHANGED <<uploadVars, knowledgeVars, windowVars, budgetVars, backoffVars>>
       \/ part = "uploads" /\ UploadsNext
          /\ UNCHANGED <<vars, knowledgeVars, windowVars, budgetVars, backoffVars>>
       \/ part = "knowledge" /\ KnowledgeNext
          /\ UNCHANGED <<vars, uploadVars, windowVars, budgetVars, backoffVars>>
       \/ part = "window" /\ WindowNext
          /\ UNCHANGED <<vars, uploadVars, knowledgeVars, budgetVars, backoffVars>>
       \/ part = "budget" /\ BudgetNext
          /\ UNCHANGED <<vars, uploadVars, knowledgeVars, windowVars, backoffVars>>
       \/ part = "backoff" /\ ClaimAgain
          /\ UNCHANGED <<vars, uploadVars, knowledgeVars, windowVars, budgetVars>>
    /\ UNCHANGED part

PartsSpec ==
    PartsInit /\ [][PartsNext]_<<part, vars, uploadVars, knowledgeVars, windowVars,
                                 budgetVars, backoffVars>>

\* Tabs, contents and callers are alike.
PartsSymmetry == Permutations(Tab) \cup Permutations(Content) \cup Permutations(Caller)

\* The types of all parts.
PartsTypeOK == UploadsTypeOK /\ KnowledgeTypeOK /\ WindowTypeOK /\ BudgetTypeOK

\* The delays of an outbox row double from the base and stop at the cap, whether or
\* not the cap is a power of two times the base and for counts below one, and however
\* many attempts a row that is never given up has made, the loop computes no duration
\* that grows with them (int64 nanoseconds would overflow).
CappedDoubling ==
    /\ BackoffDelay(base, cap, attempts) =
          Min({cap, base * 2 ^ (IF attempts < 1 THEN 0 ELSE attempts - 1)})
    /\ LoopDelay(base, cap, attempts) <= Max({base, 2 * cap - 1})
=============================================================================
