--------------------------- MODULE MCSourceCrawl ---------------------------
(* Instances of SourceCrawl small enough for TLC. *)
EXTENDS SourceCrawl, TLC

MCTwoJobs == 1..2

\* Documents and processes are interchangeable (only for runs without liveness).
Symmetry == Permutations(Doc) \cup Permutations(Worker) \cup Permutations(Reviewer)
=============================================================================
