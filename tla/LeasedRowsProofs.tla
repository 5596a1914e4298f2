-------------------------- MODULE LeasedRowsProofs --------------------------
(***************************************************************************)
(* What the statements of the store make of a row, for any owners and any  *)
(* lease; the proofs about both outboxes rest on it.                       *)
(***************************************************************************)
EXTENDS LeasedRows, TLAPS

LEMMA ClaimedRow ==
    ASSUME NEW r \in Row, NEW o \in Owner
    PROVE  /\ Claimed(r, o) \in Row
           /\ Claimed(r, o).state = "delivering"
           /\ Claimed(r, o).owner = o
           /\ Claimed(r, o).due = Lease + 1
           /\ Claimed(r, o).attempts = r.attempts + 1
  BY LeasedRowsAssumption DEF Claimed, Row, RowState

LEMMA SettledRow ==
    ASSUME NEW r \in Row, NEW s \in RowState
    PROVE  /\ Settled(r, s) \in Row
           /\ Settled(r, s).state = s
           /\ Settled(r, s).owner = NoOwner
           /\ Settled(r, s).due = 0
           /\ Settled(r, s).attempts = r.attempts
  BY LeasedRowsAssumption DEF Settled, Row, RowState

LEMMA RequeuedRow ==
    ASSUME NEW r \in Row, NEW d \in Nat
    PROVE  /\ Requeued(r, d) \in Row
           /\ Requeued(r, d).state = "queued"
           /\ Requeued(r, d).owner = NoOwner
           /\ Requeued(r, d).due = d
           /\ Requeued(r, d).attempts = r.attempts
  BY LeasedRowsAssumption DEF Requeued, Row, RowState

LEMMA AgedRow ==
    ASSUME NEW r \in Row
    PROVE  /\ Aged(r) \in Row
           /\ Aged(r).state = r.state
           /\ Aged(r).owner = r.owner
           /\ Aged(r).attempts = r.attempts
           /\ Aged(r).due = IF r.due = 0 THEN 0 ELSE r.due - 1
  BY DEF Aged, Row, RowState

LEMMA NewRow ==
    /\ NoRow \in Row /\ NoRow.state = "none" /\ NoRow.owner = NoOwner
    /\ NoRow.due = 0 /\ NoRow.attempts = 0
    /\ Queued \in Row /\ Queued.state = "queued" /\ Queued.owner = NoOwner
    /\ Queued.due = 0 /\ Queued.attempts = 0
  BY LeasedRowsAssumption DEF NoRow, Queued, Row, RowState
=============================================================================
