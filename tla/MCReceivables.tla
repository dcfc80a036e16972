----------------------------- MODULE MCReceivables -----------------------------
(***************************************************************************)
(* Instances of Receivables: two shipped orders of customer c1, both       *)
(* invoiced, a payment of c1, and room for one more invoice and payment.   *)
(***************************************************************************)
EXTENDS Receivables, TLC

CONSTANTS o1, o2, c1, x1, x2

MCOrderTotal == [o \in Orders |-> IF o = o1 THEN 2 ELSE 1]
MCCustomerOf == [o \in Orders |-> c1]

MCBilled == [i \in InvoiceIds |-> IF i = 1 THEN o1 ELSE IF i = 2 THEN o2 ELSE NoRow]
MCReceived == [p \in PaymentIds |->
                 IF p = 1 THEN [ref |-> x1, customer |-> c1, amount |-> 2] ELSE NoRow]

Both == 1 :> 1 @@ 2 :> 1
MCBatches == {Both, 1 :> 2, 1 :> 1}
MCInline == {Both}

InvoiceWith(o, settled) ==
    LET row == [order |-> o, total |-> OrderTotal[o], settled |-> settled, status |-> "OPEN"]
    IN [row EXCEPT !.status = StatusFor(row)]

PaymentWith(r, allocated) ==
    [ref |-> r.ref, customer |-> r.customer, amount |-> r.amount,
     allocated |-> allocated, status |-> "RECEIVED"]

Invoices(settled) ==
    [i \in InvoiceIds |-> IF FirstBilled[i] = NoRow THEN NoRow
                          ELSE InvoiceWith(FirstBilled[i], settled[i])]

Payments(allocated) ==
    [p \in PaymentIds |-> IF FirstReceived[p] = NoRow THEN NoRow
                          ELSE PaymentWith(FirstReceived[p], allocated)]

\* A second payment, for two allocations that name the same invoices.
MCReceivedTwo == [MCReceived EXCEPT ![2] = [ref |-> x2, customer |-> c1, amount |-> 2]]

\* Nothing is allocated yet.
RightInvoices == {Invoices([i \in InvoiceIds |-> 0])}
RightPayments == {Payments(0)}

\* One command has settled 1 of the first invoice; the columns have drifted.
SettledOne == {[payment |-> 1, ref |-> x1, batch |-> 1 :> 1]}
WrongInvoices == {Invoices([i \in InvoiceIds |-> 0]), Invoices([i \in InvoiceIds |-> 1])}
WrongPayments == {Payments(0), Payments(2)}

TxnSymmetry == Permutations(Txns)
================================================================================
