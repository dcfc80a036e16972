\* Two requests race over columns that have drifted from the allocations; no inline
\* allocations, which may deadlock, and no symmetry, for liveness.
SPECIFICATION FairSpec
CONSTANTS
    o1 = o1
    o2 = o2
    c1 = c1
    x1 = x1
    x2 = x2
    Txns = {t1, t2}
    Kinds = {"invoice", "voidInvoice", "payment", "voidPayment", "allocate", "rebuild"}
    InvoiceIds = {1, 2, 3}
    PaymentIds = {1, 2, 3}
    Orders = {o1, o2}
    OrderTotal <- MCOrderTotal
    CustomerOf <- MCCustomerOf
    Customers = {c1}
    ExternalRefs = {x1, x2, x3}
    RequestRefs = {x1, x2}
    Amounts = {2}
    Batches <- MCBatches
    NoRow = NoRow
    NoBatch = NoBatch
    InlineBatches = {}
    FirstBilled <- MCBilled
    FirstReceived <- MCReceivedTwo
    FirstCommands <- SettledOne
    InitialInvoices <- WrongInvoices
    InitialPayments <- WrongPayments
INVARIANTS
    RebuildRepairs
PROPERTIES
    EveryRequestEnds
