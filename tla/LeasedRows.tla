----------------------------- MODULE LeasedRows -----------------------------
(***************************************************************************)
(* The rows of an outbox table that several delivery workers share, and    *)
(* the five statements internal/store runs on them.  report_submissions    *)
(* and authorization_usage_events use the same columns and the same SQL.   *)
(*                                                                         *)
(* The two deadlines of a row are kept as the time that is left: due is    *)
(* available_at - now of a queued row (claimable from due = 0 on), and     *)
(* leased_until - now + 1 of a delivering one (the SQL asks for            *)
(* leased_until < now, strictly).                                          *)
(***************************************************************************)
EXTENDS Naturals, FiniteSets

CONSTANTS Owner,    \* lease owners: the random UUID of one run of a delivery loop
          NoOwner,  \* the empty lease_owner column
          Lease     \* the lease a claim takes, in ticks

ASSUME LeasedRowsAssumption == Lease \in Nat /\ NoOwner \notin Owner

RowState == {"none", "queued", "delivering", "delivered", "failed"}

Row == [state : RowState, owner : Owner \cup {NoOwner}, due : Nat, attempts : Nat]

NoRow == [state |-> "none", owner |-> NoOwner, due |-> 0, attempts |-> 0]

\* What the INSERT of a new row writes (available_at is the present).
Queued == [NoRow EXCEPT !.state = "queued"]

\* Mutated: an expired lease is not taken over.
ClaimableOnceQueued(r) == r.state = "queued" /\ r.due = 0

\* Mutated: the lease of a delivering row is not looked at.
ClaimableWhileLeased(r) == r.state = "delivering" \/ (r.state = "queued" /\ r.due = 0)

Claimable(r) == r.state \in {"queued", "delivering"} /\ r.due = 0

\* The LIMIT first candidates in the order of creation; ids are numbered in it.
Oldest(S, limit) == {i \in S : Cardinality({j \in S : j < i}) < limit}

\* Mutated: the claim does not count the attempt.
ClaimedUncounted(r, o) ==
    [state |-> "delivering", owner |-> o, due |-> Lease + 1, attempts |-> r.attempts]

Claimed(r, o) ==
    [state |-> "delivering", owner |-> o, due |-> Lease + 1, attempts |-> r.attempts + 1]

\* Mutated: the WHERE clause forgets lease_owner.
HeldByAnyone(r, o) == r.state = "delivering"

\* The WHERE clause of Complete, Retry and Fail: no row affected is ErrConflict.
HeldBy(r, o) == r.state = "delivering" /\ r.owner = o

\* Mutated: a settled row is given a state the schema does not have.
SettledAsDone(r, s) == [r EXCEPT !.state = "done", !.owner = NoOwner, !.due = 0]

Settled(r, s) == [r EXCEPT !.state = s, !.owner = NoOwner, !.due = 0]

\* Mutated: lease_owner is not cleared.
RequeuedWithOwner(r, delay) == [r EXCEPT !.state = "queued", !.due = delay]

Requeued(r, delay) == [r EXCEPT !.state = "queued", !.owner = NoOwner, !.due = delay]

\* One tick of the clock later.
Aged(r) == [r EXCEPT !.due = IF @ = 0 THEN 0 ELSE @ - 1]
=============================================================================
