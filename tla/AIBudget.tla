------------------------------- MODULE AIBudget -------------------------------
(***************************************************************************)
(* The daily token budget of one product and workload                      *)
(* (internal/platform/ai_runtime.go, internal/store/postgres_ai.go): a     *)
(* call to a model provider reserves its estimate in one transaction, and  *)
(* another one settles it with the tokens that the answer reports.  A      *)
(* reservation expires by the database's clock at a time that the process  *)
(* set by its own, and any later reservation deletes it.                   *)
(***************************************************************************)
EXTENDS Integers, FiniteSets, FiniteSetsExt, Functions

CONSTANTS Caller, Budget, Estimates,
          MaxTokens, MaxReservations  \* bounds of the model

ASSUME AIBudgetAssumption ==
    /\ IsFiniteSet(Caller)
    /\ Estimates \subseteq Nat \ {0}
    /\ {Budget, MaxTokens, MaxReservations} \subseteq Nat \ {0}

VARIABLES reservations,  \* the tokens of the rows of ai_budget_reservations
          expired,       \* the rows that are past expires_at
          used,          \* used_tokens of ai_budget_days
          call,          \* of each caller: where it is, its reservation, what it reports
          issued,        \* history: reservations so far
          spent,         \* history: the tokens of all answers
          slack          \* history: tokens past the estimate, or of lapsed reservations

budgetVars == <<reservations, expired, used, call, issued, spent, slack>>

Idle == [pc |-> "idle", id |-> 0, estimate |-> 0, tokens |-> 0]

BudgetTypeOK ==
    /\ DOMAIN reservations \subseteq 1..issued /\ issued \in 0..MaxReservations
    /\ \A id \in DOMAIN reservations : reservations[id] \in Estimates
    /\ expired \subseteq DOMAIN reservations
    /\ call \in [Caller -> [pc : {"idle", "calling", "answered", "failed"},
                            id : 0..MaxReservations,
                            estimate : Estimates \cup {0}, tokens : 0..MaxTokens]]
    /\ {used, spent, slack} \subseteq Nat

BudgetInit ==
    /\ reservations = [id \in {} |-> 0] /\ expired = {}
    /\ call = [c \in Caller |-> Idle]
    /\ used = 0 /\ issued = 0 /\ spent = 0 /\ slack = 0

-----------------------------------------------------------------------------
Without(ids) == Restrict(reservations, DOMAIN reservations \ ids)

Tokens(ids) == MapThenSumSet(LAMBDA id : reservations[id], ids)

\* Mutated: only what is settled counts.
CommittedWithoutLive == used

\* What a new reservation is added to.
Committed == used + Tokens(DOMAIN reservations \ expired)

\* ReserveAIBudget, for the primary provider or for the backup.
Reserve(c) == \E estimate \in Estimates :
    /\ call[c].pc \in {"idle", "failed"} /\ issued < MaxReservations
    /\ slack' = slack + Tokens(expired)
    /\ expired' = {}
    /\ IF Committed + estimate > Budget
       THEN /\ reservations' = Without(expired)
            /\ call' = [call EXCEPT ![c] = Idle]
            /\ UNCHANGED issued
       ELSE /\ issued' = issued + 1
            /\ reservations' =
                  [id \in DOMAIN Without(expired) \cup {issued'} |->
                      IF id = issued' THEN estimate ELSE reservations[id]]
            /\ call' = [call EXCEPT ![c] =
                          [pc |-> "calling", id |-> issued', estimate |-> estimate, tokens |-> 0]]
    /\ UNCHANGED <<used, spent>>

\* The provider has answered, well or badly; a call without an answer reports no tokens.
AnswerCall(c) == \E tokens \in 0..MaxTokens :
    /\ call[c].pc = "calling"
    /\ call' = [call EXCEPT ![c].pc = "answered", ![c].tokens = tokens]
    /\ spent' = spent + tokens
    /\ slack' = slack + Max({0, tokens - call[c].estimate})
    /\ UNCHANGED <<reservations, expired, used, issued>>

\* The caller returns its result or error, or (a retryable error) turns to the backup.
Returned(c) == \E next \in {Idle, [Idle EXCEPT !.pc = "failed"]} : call' = [call EXCEPT ![c] = next]

\* FinishAIUsage.
Settle(c) ==
    /\ call[c].pc = "answered" /\ call[c].id \in DOMAIN reservations
    /\ reservations' = Without({call[c].id})
    /\ expired' = expired \ {call[c].id}
    /\ used' = used + call[c].tokens
    /\ Returned(c)
    /\ UNCHANGED <<issued, spent, slack>>

\* FinishAIUsage finds no row or fails: finishAI ignores the error.
SettleFails(c) ==
    /\ call[c].pc = "answered"
    /\ Returned(c)
    /\ UNCHANGED <<reservations, expired, used, issued, spent, slack>>

\* The process dies, or its caller gave up and every statement fails; the answer of
\* ReserveAIBudget may have been lost; a failed primary may have no backup.
GiveUp(c) ==
    /\ call[c].pc # "idle"
    /\ call' = [call EXCEPT ![c] = Idle]
    /\ UNCHANGED <<reservations, expired, used, issued, spent, slack>>

\* Two minutes are more than the 45 seconds of a call; a process that stalls, or a
\* clock that is behind the database's, makes them fewer.
Expire(id) ==
    /\ id \notin expired
    /\ expired' = expired \cup {id}
    /\ UNCHANGED <<reservations, used, call, issued, spent, slack>>

BudgetNext ==
    \/ \E c \in Caller : Reserve(c) \/ AnswerCall(c) \/ Settle(c) \/ SettleFails(c) \/ GiveUp(c)
    \/ \E id \in DOMAIN reservations : Expire(id)

BudgetSpec == BudgetInit /\ [][BudgetNext]_budgetVars

-----------------------------------------------------------------------------
\* However calls run beside one another, turn to the backup, fail to settle or die,
\* the answers of a day use no more than the daily budget and, beyond it, what
\* answers used past their estimates and what was set aside by reservations that
\* were deleted before they were settled (ReserveAIBudget adds what is reserved to
\* what is used; finishAI drops the error of a settlement).
BudgetIsKept == spent <= Budget + slack
=============================================================================
