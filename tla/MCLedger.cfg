\* Three posts race two period transactions over two months; no symmetry, for
\* liveness.
SPECIFICATION FairSpec
CONSTANTS
    jan = jan
    dec = dec
    cash = cash
    revenue = revenue
    ar = ar
    foreign = foreign
    sale = sale
    shipment = shipment
    free = free
    Posters = {t1, t2, t3}
    Admins = {a1, a2}
    Months = {jan, dec}
    Years = {2025, 2026}
    YearOf <- MCYearOf
    Accounts = {cash, revenue, ar, foreign}
    Chart = {cash, revenue, ar}
    Control = {ar}
    Sources = {sale, shipment, free}
    NoSource = NoSource
    NoPoster = NoPoster
    NoEntry = NoEntry
    ManualLines <- MCManualLines
    EventMonth <- MCEventMonth
    EventLines <- MCEventLines
INVARIANTS
    GaplessNumbering
    PostedOnce
PROPERTIES
    ClosedPeriodFrozen
    ImplementsJournal
    EveryRequestEnds
