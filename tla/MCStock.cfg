\* Three writers race two rebuilds of a summary that is right, or has drifted and
\* lost a row; no symmetry, for liveness.
SPECIFICATION FairSpec
CONSTANTS
    s1 = s1
    s2 = s2
    Writers = {w1, w2, w3}
    Rebuilders = {r1, r2}
    Products = {1, 2}
    Shipments = {s1, s2}
    ShipmentLines <- MCLines
    Adjustments <- MCAdjustments
    Opening <- MCOpening
    Summaries <- RightOrWrong
    NoShipment = NoShipment
    NoWriter = NoWriter
    Missing = Missing
INVARIANTS
    OnHandIsTotal
    DeductedOnce
PROPERTIES
    ImplementsWarehouse
    EveryTransactionEnds
