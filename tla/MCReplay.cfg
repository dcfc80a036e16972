\* Two runs at once over old, malformed, costed and free shipments; no symmetry,
\* for liveness.
SPECIFICATION FairReplaySpec
CONSTANTS
    bad = bad
    old = old
    paid = paid
    free = free
    Rows = {bad, old, paid, free}
    Old <- MCOld
    Malformed = {bad}
    Qty <- MCQty
    Cost <- MCCost
    Period <- MCPeriod
    Closable = {"past"}
    Deltas <- Corrections
    Opening = 2
    MaxOnHand = 2
    Runs = {r1, r2}
    Inline = Inline
INVARIANTS
    EffectsOnce
    NothingLost
    SummaryTrue
PROPERTIES
    ReplayEnds
CHECK_DEADLOCK FALSE
