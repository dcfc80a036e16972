\* Stock is used up, or a period closed, between a shipment and the replay of its
\* row.
SPECIFICATION ReplaySpec
CONSTANTS
    bad = bad
    old = old
    paid = paid
    free = free
    Rows = {paid, free}
    Old <- NoOld
    Malformed = {}
    Qty <- MCQty
    Cost <- MCCost
    Period <- MCPeriod
    Closable = {"new"}
    Deltas <- WriteOffs
    Opening = 2
    MaxOnHand = 2
    Runs = {r1}
    Inline = Inline
PROPERTIES
    SafeToRerun
CHECK_DEADLOCK FALSE
