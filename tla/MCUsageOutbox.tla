---------------------------- MODULE MCUsageOutbox ----------------------------
(* Instances of UsageOutbox small enough for TLC. *)
EXTENDS UsageOutbox

MCTwoIds == 1..2
MCOneId == {1}
MCRetryDelay == [n \in 1..DelayCap |-> n]
=============================================================================
