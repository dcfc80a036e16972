----------------------------- MODULE SubledgerData -----------------------------
(***************************************************************************)
(* The data of accounts receivable (app/modules/receivables): invoices of  *)
(* shipped orders, customer payments and the allocation commands that      *)
(* settle one with the other. One company, one currency (the code takes    *)
(* TWD alone); amounts are whole.                                          *)
(***************************************************************************)
EXTENDS Integers, FiniteSets, Functions, Folds

CONSTANTS
    InvoiceIds,     \* invoice ids, in the order PostgreSQL sorts them
    PaymentIds,     \* payment ids, likewise
    Orders,         \* the shipped sales orders
    OrderTotal,     \* Orders -> Nat
    CustomerOf,     \* Orders -> Customers
    Customers,
    ExternalRefs,   \* the references payment requests carry
    RequestRefs,    \* the references allocation requests carry
    Amounts,        \* the amounts a payment request may carry
    Batches,        \* what an allocation may ask for: invoice id -> amount
    NoRow,          \* no such row
    FirstBilled,    \* the invoices issued before the run: id -> order
    FirstReceived,  \* the payments taken before it: id -> receipt
    FirstCommands   \* the allocation commands carried out before it

Receipt == [ref : ExternalRefs, customer : Customers, amount : Amounts]

\* One row of payment_allocation_commands together with its lines in
\* payment_allocations, which are written by the same flush.
Command == [payment : PaymentIds, ref : RequestRefs \cup ExternalRefs, batch : Batches]

ASSUME SubledgerAssumption ==
    /\ NoRow \notin Orders
    /\ NoRow \notin [ref : ExternalRefs, customer : Customers, amount : Nat \ {0}]
    /\ InvoiceIds \subseteq Int /\ IsFiniteSet(InvoiceIds)
    /\ PaymentIds \subseteq Int /\ IsFiniteSet(PaymentIds)
    /\ OrderTotal \in [Orders -> Nat \ {0}]
    /\ CustomerOf \in [Orders -> Customers]
    /\ Amounts \subseteq Nat \ {0}
    /\ \A b \in Batches : DOMAIN b \subseteq InvoiceIds /\ b \in [DOMAIN b -> Nat \ {0}]
    /\ FirstBilled \in [InvoiceIds -> Orders \cup {NoRow}]
    /\ FirstReceived \in [PaymentIds -> Receipt \cup {NoRow}]
    /\ FirstCommands \subseteq Command /\ IsFiniteSet(FirstCommands)

LineFor(c, i) == IF i \in DOMAIN c.batch THEN c.batch[i] ELSE 0

\* SUM(amount) of the allocations cs of an invoice, and of a payment.
SettledBy(cs, i) == SumFunction([c \in cs |-> LineFor(c, i)])

AllocatedBy(cs, p) ==
    SumFunction([c \in {d \in cs : d.payment = p} |-> SumFunction(c.batch)])
================================================================================
