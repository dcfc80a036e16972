\* A payment request with inline allocations races the void of one of its invoices.
SPECIFICATION Spec
CONSTANTS
    o1 = o1
    o2 = o2
    c1 = c1
    x1 = x1
    x2 = x2
    Txns = {t1, t2}
    Kinds = {"voidInvoice", "payment"}
    InvoiceIds = {1, 2, 3}
    PaymentIds = {1, 2}
    Orders = {o1, o2}
    OrderTotal <- MCOrderTotal
    CustomerOf <- MCCustomerOf
    Customers = {c1}
    ExternalRefs = {x1, x2}
    RequestRefs = {x1}
    Amounts = {2}
    Batches <- MCBatches
    NoRow = NoRow
    NoBatch = NoBatch
    InlineBatches <- MCInline
    FirstBilled <- MCBilled
    FirstReceived <- MCReceived
    FirstCommands = {}
    InitialInvoices <- RightInvoices
    InitialPayments <- RightPayments
INVARIANTS
    NoDeadlock
