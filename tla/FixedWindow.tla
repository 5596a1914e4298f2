----------------------------- MODULE FixedWindow -----------------------------
(***************************************************************************)
(* The rate limiter of internal/ratelimit: one window for each key in a    *)
(* map of bounded size, under a mutex.  The time it is given is the wall   *)
(* clock (time.Now().UTC() has no monotonic reading), which an             *)
(* administrator or NTP may set.                                           *)
(***************************************************************************)
EXTENDS Integers, FiniteSets, FiniteSetsExt, Functions

CONSTANTS Key, Limit, Duration, MaxEntries,
          MaxClock, MaxJumps  \* bounds of the model

ASSUME FixedWindowAssumption ==
    /\ {Limit, Duration, MaxEntries} \subseteq Nat \ {0}
    /\ {MaxClock, MaxJumps} \subseteq Nat

VARIABLES windows,  \* the map
          clock,    \* now
          recent,   \* history: what a key was allowed in each of the last Duration ticks
          jumps     \* history: how often the clock was set

windowVars == <<windows, clock, recent, jumps>>

WindowTypeOK ==
    /\ DOMAIN windows \subseteq Key /\ Cardinality(DOMAIN windows) <= MaxEntries
    /\ \A k \in DOMAIN windows : windows[k] \in [started : 0..MaxClock, count : 0..Limit]
    /\ clock \in 0..MaxClock
    /\ recent \in [Key -> [0..Duration - 1 -> Nat]]
    /\ jumps \in 0..MaxJumps

WindowInit ==
    /\ windows = [k \in {} |-> 0]
    /\ clock = 0
    /\ recent = [k \in Key |-> [n \in 0..Duration - 1 |-> 0]]
    /\ jumps = 0

-----------------------------------------------------------------------------
Elapsed(w) == clock < w.started \/ clock - w.started >= Duration

\* Mutated: the condition is the wrong way round.
PrunedLive == Restrict(windows, {k \in DOMAIN windows : Elapsed(windows[k])})

\* pruneExpired, when the map is full or not.
Pruned == Restrict(windows, {k \in DOMAIN windows : ~Elapsed(windows[k])})

\* Mutated: there is room for one more than there is.
FitsOneMore(k, map) == k \in DOMAIN map \/ Cardinality(DOMAIN map) <= MaxEntries

Fits(k, map) == k \in DOMAIN map \/ Cardinality(DOMAIN map) < MaxEntries

Allow(k) ==
    LET map == IF k \in DOMAIN windows THEN windows ELSE Pruned
        window == IF k \in DOMAIN map /\ ~Elapsed(map[k]) THEN map[k]
                  ELSE [started |-> clock, count |-> 0]
        allowed == Fits(k, map) /\ window.count < Limit
        added == IF allowed THEN 1 ELSE 0 IN
    /\ windows' = IF ~Fits(k, map) THEN map
                  ELSE [j \in DOMAIN map \cup {k} |->
                           IF j = k THEN [window EXCEPT !.count = @ + added] ELSE map[j]]
    /\ recent' = [recent EXCEPT ![k][0] = @ + added]
    /\ UNCHANGED <<clock, jumps>>

PassTime ==
    /\ clock < MaxClock
    /\ clock' = clock + 1
    /\ recent' = [k \in Key |-> [n \in 0..Duration - 1 |-> IF n = 0 THEN 0 ELSE recent[k][n - 1]]]
    /\ UNCHANGED <<windows, jumps>>

SetClock ==
    /\ jumps < MaxJumps
    /\ jumps' = jumps + 1
    /\ clock' \in 0..MaxClock \ {clock}
    /\ UNCHANGED <<windows, recent>>

WindowNext == (\E k \in Key : Allow(k)) \/ PassTime \/ SetClock

WindowSpec == WindowInit /\ [][WindowNext]_windowVars

-----------------------------------------------------------------------------
\* However requests fall on the boundary of two windows, and although the windows
\* of keys come and go in a full map, no key is allowed more than twice its limit
\* within one duration, and once more for each time that the clock was set.
BoundaryBurst ==
    \A k \in Key : MapThenSumSet(LAMBDA n : recent[k][n], 0..Duration - 1) <= (2 + jumps) * Limit
=============================================================================
