------------------------------ MODULE RateLimiter ------------------------------
(***************************************************************************)
(* LoginRateLimiter (app/platform/permissions/middleware.py) as operators  *)
(* on its table: a function from the peers it tracks to their admitted     *)
(* attempts. The code keeps a deque of times for each; times only grow, so *)
(* what it pops from the left is what has left the window. Two attempts    *)
(* may have one time, so an attempt here is a pair of the request that     *)
(* made it and the time. `allow` has no await, so a call is one step.      *)
(***************************************************************************)
EXTENDS Naturals, FiniteSets

CONSTANTS
    Limit,      \* LOGIN_ATTEMPTS_PER_WINDOW
    Window,     \* LOGIN_RATE_LIMIT_WINDOW_SECONDS
    MaxTracked  \* _MAX_TRACKED_PEERS

ASSUME RateLimiterAssumption ==
    Limit \in Nat \ {0} /\ Window \in Nat \ {0} /\ MaxTracked \in Nat \ {0}

EmptyTable == [p \in {} |-> {}]

Time(attempt) == attempt[2]

\* Mutant: the window is fixed: the times of a peer go together, with the first.
LiveTogether(now, attempts) ==
    IF \E a \in attempts : now - Time(a) >= Window THEN {} ELSE attempts

\* The attempts that are in the window.
Live(now, attempts) == {a \in attempts : now - Time(a) < Window}

Without(table, p) == [q \in DOMAIN table \ {p} |-> table[q]]

\* _prune: peers with no attempt in the window are forgotten.
Prune(table, now) ==
    [p \in {q \in DOMAIN table : Live(now, table[q]) # {}} |-> Live(now, table[p])]

\* The peers that may be evicted: one whose first attempt is the oldest.
Oldest(table) ==
    {p \in DOMAIN table :
        \E a \in table[p] : \A q \in DOMAIN table : \A b \in table[q] : Time(a) <= Time(b)}

Full(table) == Cardinality(DOMAIN table) >= MaxTracked

\* The tables in which p may be tracked: a full one is pruned first, and when it
\* is full still it loses the oldest peer.
RoomFor(table, p, now) ==
    LET pruned == IF Full(table) THEN Prune(table, now) ELSE table IN
    IF p \in DOMAIN table THEN {table}
    ELSE IF Full(pruned) THEN {Without(pruned, q) : q \in Oldest(pruned)}
    ELSE {pruned}

Attempts(table, p) == IF p \in DOMAIN table THEN table[p] ELSE {}

Admits(table, p, now) == Cardinality(Live(now, Attempts(table, p))) < Limit

\* allow: a refused attempt is not counted.
AfterAllow(table, p, attempt) ==
    LET now == Time(attempt)
        counted == Live(now, Attempts(table, p)) \cup
                   IF Admits(table, p, now) THEN {attempt} ELSE {}
    IN [q \in DOMAIN table \cup {p} |-> IF q = p THEN counted ELSE table[q]]
================================================================================
