\* Three requests of every kind race.
SPECIFICATION Spec
CONSTANTS
    o1 = o1
    o2 = o2
    c1 = c1
    x1 = x1
    x2 = x2
    Txns = {t1, t2, t3}
    Kinds = {"invoice", "voidInvoice", "payment", "voidPayment", "allocate", "rebuild"}
    InvoiceIds = {1, 2, 3}
    PaymentIds = {1, 2}
    Orders = {o1, o2}
    OrderTotal <- MCOrderTotal
    CustomerOf <- MCCustomerOf
    Customers = {c1, c2}
    ExternalRefs = {x1, x2}
    RequestRefs = {x1, x2}
    Amounts = {2}
    Batches <- MCBatches
    NoRow = NoRow
    NoBatch = NoBatch
    InlineBatches <- MCInline
    FirstBilled <- MCBilled
    FirstReceived <- MCReceived
    FirstCommands = {}
    InitialInvoices <- RightInvoices
    InitialPayments <- RightPayments
SYMMETRY TxnSymmetry
INVARIANTS
    BalancesMatch
    OneLiveInvoice
    TieOut
    DeadlockNeedsInline
PROPERTIES
    ImplementsSubledger
