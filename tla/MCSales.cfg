\* Two requests on two drafts of one customer, which race for its credit, on a
\* confirmed order and on new ones, beside a shipped order; no symmetry, for liveness.
SPECIFICATION FairSpec
CONSTANTS
    c1 = c1
    Customers = {c1}
    Txns = {t1, t2}
    Orders = {1, 2, 3, 4, 5, 6}
    Quantities = {2}
    Prices = {0, 2}
    Costs = {1, 2}
    Limits = {0, 2}
    Grace = 1
    FirstOrders <- MCOrders
    NoOrder = NoOrder
    NoOverride = NoOverride
INVARIANTS
    EventsMatchOrders
    NumbersNeverClash
PROPERTIES
    OrderFrozen
    CreditRespected
    EveryRequestEnds
