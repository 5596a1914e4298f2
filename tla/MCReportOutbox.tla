--------------------------- MODULE MCReportOutbox ---------------------------
(* Instances of ReportOutbox small enough for TLC. *)
EXTENDS ReportOutbox, TLC

MCTwoIds == 1..2
MCOneId == {1}

\* The delays of Backoff with RetryBase = 1 and RetryCap = 2.
MCRetryDelay == [n \in 1..MaxAttempts |-> IF n = 1 THEN 1 ELSE 2]

\* Owners are random and workers alike (only for runs without liveness).
Symmetry == Permutations(Owner) \cup Permutations(Worker)
=============================================================================
