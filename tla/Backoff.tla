------------------------------- MODULE Backoff ------------------------------
(***************************************************************************)
(* The delay before the next attempt of an outbox row:                     *)
(* reportDeliveryRetryDelay and authorizationUsageRetryDelay, which are    *)
(* the same loop.                                                          *)
(***************************************************************************)
EXTENDS Naturals

\* Mutated: the loop does not stop at the cap.
DoubledForever(delay, cap) == 2 * delay

\* The body of the loop with its condition on delay.
Doubled(delay, cap) == IF delay < cap THEN 2 * delay ELSE delay

\* delay when the loop ends.
LoopDelay(base, cap, attempts) ==
    LET after[n \in Nat] == IF n = 0 THEN base ELSE Doubled(after[n - 1], cap)
    IN  after[IF attempts < 1 THEN 0 ELSE attempts - 1]

BackoffDelay(base, cap, attempts) ==
    IF LoopDelay(base, cap, attempts) > cap THEN cap ELSE LoopDelay(base, cap, attempts)
=============================================================================
