------------------------------- MODULE Subledger -------------------------------
(***************************************************************************)
(* What accounts receivable promises (ADR-008), with no transaction, lock  *)
(* or maintained column in it: invoices and payments are issued, received  *)
(* and voided, and an allocation command is carried out once, whole, and   *)
(* within what both sides have left. Module Receivables implements it.     *)
(***************************************************************************)
EXTENDS SubledgerData

VARIABLES
    billed,     \* invoice id -> its order, NoRow if not issued
    received,   \* payment id -> its customer and amount, NoRow if none
    voided,     \* the voided invoice and payment ids
    commands,   \* the allocation commands carried out
    answered    \* the reference and the allocations of each payment request that
                \* carried allocations and was answered with success

Init ==
    /\ billed = FirstBilled
    /\ received = FirstReceived
    /\ voided = {}
    /\ commands = FirstCommands
    /\ answered = {}

InvoiceKey(i) == <<"invoice", i>>
PaymentKey(p) == <<"payment", p>>

Live(i) == billed[i] # NoRow /\ InvoiceKey(i) \notin voided

Issue(i, o) ==
    /\ billed[i] = NoRow
    /\ \A j \in InvoiceIds : Live(j) => billed[j] # o
    /\ billed' = [billed EXCEPT ![i] = o]
    /\ UNCHANGED <<received, voided, commands, answered>>

VoidInvoice(i) ==
    /\ Live(i) /\ SettledBy(commands, i) = 0
    /\ voided' = voided \cup {InvoiceKey(i)}
    /\ UNCHANGED <<billed, received, commands, answered>>

VoidPayment(p) ==
    /\ received[p] # NoRow /\ PaymentKey(p) \notin voided
    /\ AllocatedBy(commands, p) = 0
    /\ voided' = voided \cup {PaymentKey(p)}
    /\ UNCHANGED <<billed, received, commands, answered>>

\* Command c fits payment r and the invoices it names.
Fits(c, r) ==
    /\ AllocatedBy(commands, c.payment) + SumFunction(c.batch) <= r.amount
    /\ \A i \in DOMAIN c.batch :
          /\ Live(i) /\ CustomerOf[billed[i]] = r.customer
          /\ SettledBy(commands, i) + c.batch[i] <= OrderTotal[billed[i]]

Allocate(c) ==
    /\ received[c.payment] # NoRow /\ PaymentKey(c.payment) \notin voided
    /\ \A d \in commands : d.payment = c.payment => d.ref # c.ref
    /\ Fits(c, received[c.payment])
    /\ commands' = commands \cup {c}
    /\ UNCHANGED <<billed, received, voided, answered>>

Receive(p, r) ==
    /\ received[p] = NoRow
    /\ \A q \in PaymentIds : received[q] # NoRow => received[q].ref # r.ref
    /\ received' = [received EXCEPT ![p] = r]
    /\ UNCHANGED <<billed, voided>>

ReceiveAlone(p, r) == Receive(p, r) /\ UNCHANGED <<commands, answered>>

\* A payment that comes with allocations is taken with all of them or not at all.
ReceiveAllocated(p, r, b) ==
    LET c == [payment |-> p, ref |-> r.ref, batch |-> b] IN
    /\ Receive(p, r)
    /\ Fits(c, r)
    /\ commands' = commands \cup {c}
    /\ answered' = answered \cup {<<r.ref, b>>}

Next ==
    \/ \E i \in InvoiceIds : VoidInvoice(i) \/ \E o \in Orders : Issue(i, o)
    \/ \E p \in PaymentIds : VoidPayment(p)
    \/ \E c \in commands' \ commands : Allocate(c)
    \/ \E p \in PaymentIds :
          /\ received'[p] # NoRow
          /\ \/ ReceiveAlone(p, received'[p])
             \/ \E b \in Batches : ReceiveAllocated(p, received'[p], b)

Spec == Init /\ [][Next]_<<billed, received, voided, commands, answered>>
================================================================================
