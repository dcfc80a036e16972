------------------------------ MODULE Receivables ------------------------------
(***************************************************************************)
(* Accounts receivable of app/modules/receivables as its database          *)
(* transactions run it: issuing and voiding invoices, taking and voiding   *)
(* payments, allocating, and the rebuild command. One step per statement   *)
(* another transaction can notice. inv[t] and pay[t] hold the rows t has   *)
(* locked or inserted, as t will leave them; they are visible to the       *)
(* others, and free, when t ends. A request runs once per transaction.     *)
(***************************************************************************)
EXTENDS SubledgerData

CONSTANTS
    Txns,               \* database transactions
    Kinds,              \* the kinds of request a run has
    InlineBatches,      \* the allocations a payment request may carry
    NoBatch,            \* none
    InitialInvoices,    \* the invoice tables a run may start with
    InitialPayments     \* the payment tables a run may start with

Invoice == [order : Orders, total : Nat \ {0}, settled : Int,
            status : {"OPEN", "PARTIAL", "PAID", "VOIDED"}]

Payment == [ref : ExternalRefs, customer : Customers, amount : Nat \ {0}, allocated : Int,
            status : {"RECEIVED", "VOIDED"}]

LiveOn(row, o) == row # NoRow /\ row.order = o /\ row.status # "VOIDED"

\* Of the invoices of an order, one at most is not voided.
OneLive(table) ==
    \A i, j \in InvoiceIds : \A o \in Orders :
        LiveOn(table[i], o) /\ LiveOn(table[j], o) => i = j

ReceiptOf(row) == [ref |-> row.ref, customer |-> row.customer, amount |-> row.amount]

Standing(row) == row # NoRow /\ row.status # "VOIDED"

\* Before the run nothing is voided, each order is invoiced once at most and with
\* its total, and the commands carried out are of rows that are there.
ASSUME ReceivablesAssumption ==
    /\ InlineBatches \subseteq Batches /\ NoBatch \notin Batches
    /\ NoRow \notin Invoice /\ NoRow \notin Payment
    /\ InitialInvoices \subseteq [InvoiceIds -> Invoice \cup {NoRow}]
    /\ InitialPayments \subseteq [PaymentIds -> Payment \cup {NoRow}]
    /\ \A table \in InitialInvoices :
          /\ \A i \in InvoiceIds : table[i] # NoRow => Standing(table[i])
          /\ OneLive(table)
          /\ \A i \in InvoiceIds :
                IF table[i] = NoRow THEN FirstBilled[i] = NoRow
                ELSE /\ FirstBilled[i] = table[i].order
                     /\ table[i].total = OrderTotal[table[i].order]
          /\ \A c \in FirstCommands : \A i \in DOMAIN c.batch : table[i] # NoRow
    /\ \A table \in InitialPayments :
          /\ \A p \in PaymentIds : table[p] # NoRow => Standing(table[p])
          /\ \A c \in FirstCommands : table[c.payment] # NoRow
          /\ \A p \in PaymentIds :
                FirstReceived[p] = IF table[p] = NoRow THEN NoRow ELSE ReceiptOf(table[p])

VARIABLES
    invoice,    \* committed invoices: id -> row or NoRow
    payment,    \* committed payments: id -> row or NoRow
    commands,   \* committed allocation commands with their allocations
    posted,     \* committed journal entries of receivables events
    pc,         \* the statement each transaction runs next
    req,        \* the request it serves
    todo,       \* the rows its current statement has still to lock
    inv,        \* the invoice rows it holds
    pay,        \* the payment rows it holds
    news        \* what it has inserted: commands and journal entries

vars == <<invoice, payment, commands, posted, pc, req, todo, inv, pay, news>>

Stored == <<invoice, payment, commands, posted>>

NoInvoices == [i \in InvoiceIds |-> NoRow]
NoPayments == [p \in PaymentIds |-> NoRow]
Nothing == [commands |-> {}, entries |-> {}]

\* The journal entry of an event, as its effect on account 1100.
Entry(type, id, amount) == [type |-> type, id |-> id, amount |-> amount]

\* POSTING_RULES: the first and the fourth debit 1100, the others credit it.
Issued(i, row) == Entry("invoice_issued", i, row.total)
\* Mutant: the accounts of the rule are not flipped.
InvoiceVoidedUnflipped(i, row) == Entry("invoice_voided", i, row.total)

InvoiceVoided(i, row) == Entry("invoice_voided", i, -row.total)

Received(p, row) == Entry("payment_received", p, -row.amount)
PaymentVoided(p, row) == Entry("payment_voided", p, row.amount)

Init ==
    /\ invoice \in InitialInvoices
    /\ payment \in InitialPayments
    /\ commands = FirstCommands
    /\ posted = {Issued(i, invoice[i]) : i \in {j \in InvoiceIds : invoice[j] # NoRow}}
                \cup {Received(p, payment[p]) : p \in {q \in PaymentIds : payment[q] # NoRow}}
    /\ pc = [t \in Txns |-> "idle"]
    /\ req = [t \in Txns |-> NoRow]
    /\ todo = [t \in Txns |-> {}]
    /\ inv = [t \in Txns |-> NoInvoices]
    /\ pay = [t \in Txns |-> NoPayments]
    /\ news = [t \in Txns |-> Nothing]

-------------------------------------------------------------------------------
(* Who waits for whom. *)

Running == {t \in Txns : pc[t] \notin {"idle", "committed", "refused"}}

InvoiceHolders(i) == {t \in Txns : inv[t][i] # NoRow}
PaymentHolders(p) == {t \in Txns : pay[t][p] # NoRow}

\* The row of receivables_sequences, one per document type.
DocNoHolders(kind) ==
    {t \in Running : req[t].kind = kind /\ pc[t] # "doc"}

\* The row of ledger_sequences: who has posted has it until it ends.
EntryNoHolders == {t \in Txns : news[t].entries # {}}

\* uq_invoices_order_live and uq_payments_company_external_ref: an insert waits
\* for a transaction that is adding or removing the same key.
KeyWriters(r) ==
    IF r.kind = "invoice"
    THEN {u \in Txns : \E i \in InvoiceIds :
             inv[u][i] # NoRow /\ LiveOn(inv[u][i], r.order) # LiveOn(invoice[i], r.order)
                               /\ inv[u][i].order = r.order}
    ELSE {u \in Txns : \E p \in PaymentIds :
             payment[p] = NoRow /\ pay[u][p] # NoRow /\ pay[u][p].ref = r.receipt.ref}

Lowest(S) == CHOOSE x \in S : \A y \in S : x <= y
Highest(S) == CHOOSE x \in S : \A y \in S : x >= y

\* Mutant: rows are locked as the request names them, and requests differ.
TurnByRequest(t) ==
    IF pay[t][Lowest(PaymentIds)] = NoRow THEN Highest(todo[t]) ELSE Lowest(todo[t])

\* The next row of a SELECT ... FOR UPDATE: ORDER BY id.
Turn(t) == Lowest(todo[t])

\* Mutant: the invoices are read without a lock.
RowHoldersPayments(t) ==
    IF pc[t] = "payments" THEN PaymentHolders(Turn(t)) ELSE {}

RowHolders(t) ==
    IF pc[t] = "payments" THEN PaymentHolders(Turn(t)) ELSE InvoiceHolders(Turn(t))

WaitsFor(t) ==
    CASE pc[t] = "doc" -> DocNoHolders(req[t].kind) \ {t}
      [] pc[t] = "insert" -> KeyWriters(req[t]) \ {t}
      [] pc[t] = "post" -> EntryNoHolders \ {t}
      [] pc[t] \in {"payments", "invoices"} /\ todo[t] # {} -> RowHolders(t) \ {t}
      [] OTHER -> {}

MayRun(t, where) == pc[t] = where /\ WaitsFor(t) = {}

-------------------------------------------------------------------------------
Goto(t, where) == pc' = [pc EXCEPT ![t] = where]

\* Ends t: its locks go, and what it has written goes with them unless it has
\* been put into the tables by the same step.
End(t, how) ==
    /\ Goto(t, how)
    /\ todo' = [todo EXCEPT ![t] = {}]
    /\ inv' = [inv EXCEPT ![t] = NoInvoices]
    /\ pay' = [pay EXCEPT ![t] = NoPayments]
    /\ news' = [news EXCEPT ![t] = Nothing]
    /\ UNCHANGED req

Refuse(t) == End(t, "refused") /\ UNCHANGED Stored

Request(kind) ==
    [kind |-> kind, order |-> NoRow, receipt |-> NoRow, ref |-> NoRow, batch |-> NoBatch]

Idle(t, kind) == pc[t] = "idle" /\ kind \in Kinds

\* Transaction t serves request r: its first statement, and the rows it locks.
Start(t, r, where, rows) ==
    /\ req' = [req EXCEPT ![t] = r]
    /\ todo' = [todo EXCEPT ![t] = rows]
    /\ Goto(t, where)
    /\ UNCHANGED <<Stored, inv, pay, news>>

BeginInvoice(t, o) ==
    /\ Idle(t, "invoice")
    /\ Start(t, [Request("invoice") EXCEPT !.order = o], "doc", {})

BeginVoidInvoice(t, i) ==
    /\ Idle(t, "voidInvoice")
    /\ Start(t, Request("voidInvoice"), "invoices", {i})

BeginPayment(t, r, b) ==
    /\ Idle(t, "payment")
    /\ Start(t, [Request("payment") EXCEPT !.receipt = r, !.batch = b], "doc", {})

BeginVoidPayment(t, p) ==
    /\ Idle(t, "voidPayment")
    /\ Start(t, Request("voidPayment"), "payments", {p})

BeginAllocate(t, p, x, b) ==
    /\ Idle(t, "allocate")
    /\ Start(t, [Request("allocate") EXCEPT !.ref = x, !.batch = b], "payments", {p})

BeginRebuild(t) ==
    /\ Idle(t, "rebuild")
    /\ Start(t, Request("rebuild"), "payments", {p \in PaymentIds : payment[p] # NoRow})

-------------------------------------------------------------------------------
(* create_invoice and create_payment. *)

\* _allocate_doc_no
LockDocNo(t) ==
    /\ MayRun(t, "doc")
    /\ Goto(t, "insert")
    /\ UNCHANGED <<Stored, req, todo, inv, pay, news>>

\* Mutant: the unique index covers open invoices alone.
OrderTakenByOpen(o) ==
    \E i \in InvoiceIds : LiveOn(invoice[i], o) /\ invoice[i].status = "OPEN"

OrderTaken(o) == \E i \in InvoiceIds : LiveOn(invoice[i], o)

InsertInvoice(t, i) ==
    LET o == req[t].order IN
    /\ MayRun(t, "insert") /\ req[t].kind = "invoice"
    /\ invoice[i] = NoRow /\ InvoiceHolders(i) = {}
    /\ ~OrderTaken(o)
    /\ inv' = [inv EXCEPT ![t][i] = [order |-> o, total |-> OrderTotal[o],
                                     settled |-> 0, status |-> "OPEN"]]
    /\ Goto(t, "post")
    /\ UNCHANGED <<Stored, req, todo, pay, news>>

RefTaken(x) == \E p \in PaymentIds : payment[p] # NoRow /\ payment[p].ref = x

InsertPayment(t, p) ==
    LET r == req[t].receipt IN
    /\ MayRun(t, "insert") /\ req[t].kind = "payment"
    /\ payment[p] = NoRow /\ PaymentHolders(p) = {}
    /\ ~RefTaken(r.ref)
    /\ pay' = [pay EXCEPT ![t][p] = [ref |-> r.ref, customer |-> r.customer, amount |-> r.amount,
                                     allocated |-> 0, status |-> "RECEIVED"]]
    /\ Goto(t, "post")
    /\ UNCHANGED <<Stored, req, todo, inv, news>>

\* The conflict with a committed key is answered with 409.
RefuseInsert(t) ==
    /\ MayRun(t, "insert")
    /\ IF req[t].kind = "invoice" THEN OrderTaken(req[t].order)
                                  ELSE RefTaken(req[t].receipt.ref)
    /\ Refuse(t)

\* The posting of the event in the same transaction (module Ledger has its
\* own steps; here it is the one lock on the year's sequence row). A payment
\* with inline allocations goes on to lock their invoices.
EventOf(t) ==
    UNION {{IF inv[t][i].status = "VOIDED" THEN InvoiceVoided(i, inv[t][i])
                                           ELSE Issued(i, inv[t][i]) :
              i \in {j \in InvoiceIds : inv[t][j] # NoRow}},
           {IF pay[t][p].status = "VOIDED" THEN PaymentVoided(p, pay[t][p])
                                           ELSE Received(p, pay[t][p]) :
              p \in {q \in PaymentIds : pay[t][q] # NoRow}}}

Inline(t) == req[t].kind = "payment" /\ req[t].batch # NoBatch

Post(t) ==
    /\ MayRun(t, "post")
    /\ news' = [news EXCEPT ![t].entries = EventOf(t)]
    /\ IF Inline(t)
       THEN todo' = [todo EXCEPT ![t] = DOMAIN req[t].batch] /\ Goto(t, "invoices")
       ELSE UNCHANGED todo /\ Goto(t, "commit")
    /\ UNCHANGED <<Stored, req, inv, pay>>

-------------------------------------------------------------------------------
(* SELECT ... FOR UPDATE, one row at a time in the order of the ids. *)

LockPayment(t) ==
    LET p == Turn(t) IN
    /\ MayRun(t, "payments") /\ todo[t] # {} /\ payment[p] # NoRow
    /\ pay' = [pay EXCEPT ![t][p] = payment[p]]
    /\ todo' = [todo EXCEPT ![t] = @ \ {p}]
    /\ UNCHANGED <<Stored, pc, req, inv, news>>

LockInvoice(t) ==
    LET i == Turn(t) IN
    /\ MayRun(t, "invoices") /\ todo[t] # {}
    /\ \A j \in todo[t] : invoice[j] # NoRow
    /\ inv' = [inv EXCEPT ![t][i] = invoice[i]]
    /\ todo' = [todo EXCEPT ![t] = @ \ {i}]
    /\ UNCHANGED <<Stored, pc, req, pay, news>>

\* 404, or 422 for a batch that names an invoice that is not there.
RefuseMissing(t) ==
    /\ \/ pc[t] = "payments" /\ \E p \in todo[t] : payment[p] = NoRow
       \/ pc[t] = "invoices" /\ \E i \in todo[t] : invoice[i] = NoRow
    /\ Refuse(t)

HasRows(t, where, kind) == pc[t] = where /\ todo[t] = {} /\ req[t].kind = kind

HeldInvoices(t) == {i \in InvoiceIds : inv[t][i] # NoRow}
HeldPayments(t) == {p \in PaymentIds : pay[t][p] # NoRow}

-------------------------------------------------------------------------------
(* void_invoice and void_payment, once the row is locked. *)

MayVoidInvoice(row) == row.status # "VOIDED" /\ row.settled = 0

VoidInvoice(t, i) ==
    /\ HasRows(t, "invoices", "voidInvoice") /\ inv[t][i] # NoRow
    /\ IF MayVoidInvoice(inv[t][i])
       THEN /\ inv' = [inv EXCEPT ![t][i].status = "VOIDED"]
            /\ Goto(t, "post")
            /\ UNCHANGED <<Stored, req, todo, pay, news>>
       ELSE Refuse(t)

MayVoidPayment(row) == row.status # "VOIDED" /\ row.allocated = 0

VoidPayment(t, p) ==
    /\ HasRows(t, "payments", "voidPayment") /\ pay[t][p] # NoRow
    /\ IF MayVoidPayment(pay[t][p])
       THEN /\ pay' = [pay EXCEPT ![t][p].status = "VOIDED"]
            /\ Goto(t, "post")
            /\ UNCHANGED <<Stored, req, todo, inv, news>>
       ELSE Refuse(t)

-------------------------------------------------------------------------------
(* allocate_payment_core *)

CommandOf(t) ==
    LET p == CHOOSE q \in PaymentIds : pay[t][q] # NoRow
    IN [payment |-> p, batch |-> req[t].batch,
        ref |-> IF Inline(t) THEN req[t].receipt.ref ELSE req[t].ref]

\* The command an allocation request repeats, if there is one.
SameRef(c) == {d \in commands : d.payment = c.payment /\ d.ref = c.ref}

\* With the payment locked: a voided payment and a reference used for another
\* batch are refused, an exact retry does nothing, the rest goes on.
CheckPayment(t) ==
    LET c == CommandOf(t) IN
    /\ HasRows(t, "payments", "allocate")
    /\ \/ /\ pay[t][c.payment].status = "VOIDED" \/ \E d \in SameRef(c) : d.batch # c.batch
          /\ Refuse(t)
       \/ /\ pay[t][c.payment].status # "VOIDED"
          /\ SameRef(c) # {} /\ \A d \in SameRef(c) : d.batch = c.batch
          /\ Goto(t, "commit")
          /\ UNCHANGED <<Stored, req, todo, inv, pay, news>>
       \/ /\ pay[t][c.payment].status # "VOIDED" /\ SameRef(c) = {}
          /\ Goto(t, "invoices")
          /\ todo' = [todo EXCEPT ![t] = DOMAIN req[t].batch]
          /\ UNCHANGED <<Stored, req, inv, pay, news>>

StatusFor(row) ==
    IF row.settled >= row.total THEN "PAID"
    ELSE IF row.settled > 0 THEN "PARTIAL" ELSE "OPEN"

\* Every check under the locks, on both sides.
FitsLocked(t, c) ==
    LET row == pay[t][c.payment] IN
    /\ row.allocated + SumFunction(c.batch) <= row.amount
    /\ \A i \in DOMAIN c.batch :
          /\ inv[t][i].status # "VOIDED"
          /\ CustomerOf[inv[t][i].order] = row.customer
          /\ inv[t][i].settled + c.batch[i] <= inv[t][i].total

Settle(row, amount) ==
    LET paid == [row EXCEPT !.settled = @ + amount]
    IN [paid EXCEPT !.status = StatusFor(paid)]

CarryOut(t, c) ==
    /\ inv' = [inv EXCEPT ![t] = [i \in InvoiceIds |->
                  IF i \in DOMAIN c.batch THEN Settle(@[i], c.batch[i]) ELSE @[i]]]
    /\ pay' = [pay EXCEPT ![t][c.payment].allocated = @ + SumFunction(c.batch)]
    /\ news' = [news EXCEPT ![t].commands = {c}]
    /\ Goto(t, "commit")
    /\ UNCHANGED <<Stored, req, todo>>

MayAllocate(t) ==
    HasRows(t, "invoices", "allocate") \/ (HasRows(t, "invoices", "payment") /\ Inline(t))

\* Mutant: a payment whose allocations are refused is kept, without them.
AllocateOrKeepPayment(t) ==
    /\ MayAllocate(t)
    /\ IF FitsLocked(t, CommandOf(t)) THEN CarryOut(t, CommandOf(t))
       ELSE IF ~Inline(t) THEN Refuse(t)
       ELSE Goto(t, "commit") /\ UNCHANGED <<Stored, req, todo, inv, pay, news>>

Allocate(t) ==
    /\ MayAllocate(t)
    /\ IF FitsLocked(t, CommandOf(t)) THEN CarryOut(t, CommandOf(t)) ELSE Refuse(t)

-------------------------------------------------------------------------------
(* _rebuild_company of rebuild_ar_balances. *)

SelectInvoices(t) ==
    /\ HasRows(t, "payments", "rebuild")
    /\ todo' = [todo EXCEPT ![t] = {i \in InvoiceIds : invoice[i] # NoRow}]
    /\ Goto(t, "invoices")
    /\ UNCHANGED <<Stored, req, inv, pay, news>>

\* Mutant: an invoice without allocations keeps what its row says.
ResetToSkipsZero(row, sum) ==
    IF sum = 0 THEN row
    ELSE [row EXCEPT !.settled = sum, !.status = StatusFor([row EXCEPT !.settled = sum])]

ResetTo(row, sum) ==
    LET right == [row EXCEPT !.settled = sum]
    IN IF row.status = "VOIDED" THEN right ELSE [right EXCEPT !.status = StatusFor(right)]

SumInvoices(t) ==
    /\ HasRows(t, "invoices", "rebuild")
    /\ inv' = [inv EXCEPT ![t] = [i \in InvoiceIds |->
                  IF @[i] = NoRow THEN NoRow ELSE ResetTo(@[i], SettledBy(commands, i))]]
    /\ Goto(t, "sum")
    /\ UNCHANGED <<Stored, req, todo, pay, news>>

SumPayments(t) ==
    /\ pc[t] = "sum"
    /\ pay' = [pay EXCEPT ![t] = [p \in PaymentIds |->
                  IF @[p] = NoRow THEN NoRow
                  ELSE [@[p] EXCEPT !.allocated = AllocatedBy(commands, p)]]]
    /\ Goto(t, "commit")
    /\ UNCHANGED <<Stored, req, todo, inv, news>>

-------------------------------------------------------------------------------
(* The CHECK constraints of invoices and payments. *)
InvoiceAllowed(row) ==
    \/ row.status \in {"OPEN", "VOIDED"} /\ row.settled = 0
    \/ row.status = "PARTIAL" /\ row.settled \in 1 .. row.total - 1
    \/ row.status = "PAID" /\ row.settled = row.total

PaymentAllowed(row) ==
    /\ row.allocated \in 0 .. row.amount
    /\ row.status = "VOIDED" => row.allocated = 0

Allowed(t) ==
    /\ \A i \in HeldInvoices(t) : InvoiceAllowed(inv[t][i])
    /\ \A p \in HeldPayments(t) : PaymentAllowed(pay[t][p])

Commit(t) ==
    /\ pc[t] = "commit" /\ Allowed(t)
    /\ invoice' = [i \in InvoiceIds |-> IF inv[t][i] = NoRow THEN invoice[i] ELSE inv[t][i]]
    /\ payment' = [p \in PaymentIds |-> IF pay[t][p] = NoRow THEN payment[p] ELSE pay[t][p]]
    /\ commands' = commands \cup news[t].commands
    /\ posted' = posted \cup news[t].entries
    /\ End(t, "committed")

BreaksCheck(t) == pc[t] = "commit" /\ ~Allowed(t) /\ Refuse(t)

\* The posting fails (a closed period, for one), the database breaks a
\* deadlock, the process dies.
Rollback(t) == t \in Running /\ Refuse(t)

BeginRequest(t) ==
    \/ \E o \in Orders : BeginInvoice(t, o)
    \/ \E i \in InvoiceIds : BeginVoidInvoice(t, i)
    \/ \E r \in Receipt, b \in InlineBatches \cup {NoBatch} : BeginPayment(t, r, b)
    \/ \E p \in PaymentIds : BeginVoidPayment(t, p)
    \/ \E p \in PaymentIds, x \in RequestRefs, b \in Batches : BeginAllocate(t, p, x, b)
    \/ BeginRebuild(t)

Advance(t) ==
    \/ LockDocNo(t)
    \/ \E i \in InvoiceIds : InsertInvoice(t, i) \/ VoidInvoice(t, i)
    \/ \E p \in PaymentIds : InsertPayment(t, p) \/ VoidPayment(t, p)
    \/ RefuseInsert(t)
    \/ Post(t)
    \/ LockPayment(t)
    \/ LockInvoice(t)
    \/ RefuseMissing(t)
    \/ CheckPayment(t)
    \/ Allocate(t)
    \/ SelectInvoices(t)
    \/ SumInvoices(t)
    \/ SumPayments(t)
    \/ Commit(t)
    \/ BreaksCheck(t)

Finished == Running = {} /\ (\A t \in Txns : pc[t] # "idle") /\ UNCHANGED vars

Next == (\E t \in Txns : BeginRequest(t) \/ Advance(t) \/ Rollback(t)) \/ Finished

Spec == Init /\ [][Next]_vars

\* A statement runs when the locks it waits for are free.
FairSpec == Spec /\ \A t \in Txns : WF_vars(Advance(t))
-------------------------------------------------------------------------------
(* Properties. *)

Balanced ==
    /\ \A i \in InvoiceIds : invoice[i] # NoRow =>
          invoice[i].settled = SettledBy(commands, i)
    /\ \A p \in PaymentIds : payment[p] # NoRow =>
          payment[p].allocated = AllocatedBy(commands, p)

\* ADR-008 Decision 3: settled_amount and allocated_amount are the sums of the
\* allocations, whatever allocations, voids and rebuilds run at once.
BalancesMatch == Balanced

\* ADR-008 R9: after a rebuild both columns are right again, and stay right.
RebuildRepairs ==
    (\E t \in Txns : pc[t] = "committed" /\ req[t].kind = "rebuild") => Balanced

\* ADR-008 Decision 1: of the invoices of an order, one at most is not voided.
OneLiveInvoice == OneLive(invoice)

\* ADR-008 Decision 4 and its tie-out: the balance of account 1100 in the
\* general ledger is what the invoices that are not voided ask for, less the
\* payments that are not voided.
TieOut ==
    SumFunction([e \in posted |-> e.amount]) =
        SumFunction([i \in {j \in InvoiceIds : Standing(invoice[j])} |-> invoice[i].total])
      - SumFunction([p \in {q \in PaymentIds : Standing(payment[q])} |-> payment[p].amount])

\* The transactions of the code implement the abstract subledger.
Book == INSTANCE Subledger WITH
            billed <- [i \in InvoiceIds |-> IF invoice[i] = NoRow THEN NoRow ELSE invoice[i].order],
            received <- [p \in PaymentIds |->
                            IF payment[p] = NoRow THEN NoRow ELSE ReceiptOf(payment[p])],
            voided <- {<<"invoice", i>> : i \in {j \in InvoiceIds :
                          invoice[j] # NoRow /\ invoice[j].status = "VOIDED"}}
                      \cup {<<"payment", p>> : p \in {q \in PaymentIds :
                          payment[q] # NoRow /\ payment[q].status = "VOIDED"}},
            answered <- {<<req[t].receipt.ref, req[t].batch>> :
                            t \in {u \in Txns : pc[u] = "committed" /\ Inline(u)}}

ImplementsSubledger == Book!Spec

\* Of any of these transactions, one waits for none of the others.
SomeMayGo(S) == S # {} => \E t \in S : WaitsFor(t) \cap S = {}

\* ADR-008's lock order, as far as it holds: payments, then invoices by id, then
\* entry numbers. Whatever deadlocks, a payment request with inline allocations
\* is in it; the other requests never wait for each other in a circle.
DeadlockNeedsInline ==
    \A S \in SUBSET Running : (\A t \in S : ~Inline(t)) => SomeMayGo(S)

\* ADR-008's lock order, as it is stated: no set of transactions waits for itself.
NoDeadlock == \A S \in SUBSET Running : SomeMayGo(S)

\* Under fairness every request that has started is answered.
EveryRequestEnds ==
    \A t \in Txns : pc[t] # "idle" ~> pc[t] \in {"committed", "refused"}
-------------------------------------------------------------------------------
(* The inductive invariants. ReceivablesInv: the types, what a transaction    *)
(* holds at each statement, how the rows it holds differ from the committed   *)
(* ones, and whom the locks exclude.                                          *)

RequestType ==
    [kind : {"invoice", "voidInvoice", "payment", "voidPayment", "allocate", "rebuild"},
     order : Orders \cup {NoRow}, receipt : Receipt \cup {NoRow},
     ref : RequestRefs \cup {NoRow}, batch : Batches \cup {NoBatch}]

EntryType ==
    [type : {"invoice_issued", "invoice_voided", "payment_received", "payment_voided"},
     id : InvoiceIds \cup PaymentIds, amount : Int]

TypeOK ==
    /\ invoice \in [InvoiceIds -> Invoice \cup {NoRow}]
    /\ payment \in [PaymentIds -> Payment \cup {NoRow}]
    /\ commands \subseteq Command /\ IsFiniteSet(commands)
    /\ posted \subseteq EntryType
    /\ pc \in [Txns -> {"idle", "doc", "insert", "payments", "invoices", "post", "sum",
                        "commit", "committed", "refused"}]
    /\ req \in [Txns -> RequestType \cup {NoRow}]
    /\ todo \in [Txns -> SUBSET (InvoiceIds \cup PaymentIds)]
    /\ inv \in [Txns -> [InvoiceIds -> Invoice \cup {NoRow}]]
    /\ pay \in [Txns -> [PaymentIds -> Payment \cup {NoRow}]]
    /\ news \in [Txns -> [commands : SUBSET Command, entries : SUBSET EntryType]]

Serves(t, kind, places) == pc[t] \in places /\ req[t].kind = kind

\* The statements each kind of request goes through, and what it asks for.
Served(t) ==
    t \in Running =>
      /\ req[t] \in RequestType
      /\ \/ Serves(t, "invoice", {"doc", "insert", "post", "commit"}) /\ req[t].order \in Orders
         \/ Serves(t, "voidInvoice", {"invoices", "post", "commit"})
         \/ /\ Serves(t, "payment", {"doc", "insert", "post", "invoices", "commit"})
            /\ req[t].receipt \in Receipt
            /\ pc[t] = "invoices" => Inline(t)
         \/ Serves(t, "voidPayment", {"payments", "post", "commit"})
         \/ /\ Serves(t, "allocate", {"payments", "invoices", "commit"})
            /\ req[t].batch \in Batches /\ req[t].ref \in RequestRefs
         \/ Serves(t, "rebuild", {"payments", "invoices", "sum", "commit"})

\* Rows are locked in the order of their ids, those of one table at a time.
Queued(t) ==
    /\ pc[t] \notin {"payments", "invoices"} => todo[t] = {}
    /\ pc[t] = "payments" => /\ todo[t] \subseteq PaymentIds
                             /\ \A p \in HeldPayments(t), q \in todo[t] : p < q
    /\ pc[t] = "invoices" => /\ todo[t] \subseteq InvoiceIds
                             /\ \A i \in HeldInvoices(t), j \in todo[t] : i < j

IsOne(S) == \E x \in S : S = {x}

\* Which rows, commands and entries a transaction has at each statement.
Holds(t) ==
    /\ pc[t] \in {"idle", "doc", "insert", "committed", "refused"} =>
          HeldInvoices(t) = {} /\ HeldPayments(t) = {} /\ news[t] = Nothing
    /\ pc[t] = "payments" => HeldInvoices(t) = {}
    /\ pc[t] \in {"payments", "post", "sum"} => news[t] = Nothing
    /\ pc[t] = "invoices" /\ req[t].kind # "payment" => news[t] = Nothing
    /\ news[t].commands # {} => pc[t] = "commit" /\ IsOne(news[t].commands)
    /\ pc[t] \in {"post", "invoices", "commit"} =>
          /\ req[t].kind \in {"invoice", "voidInvoice"} =>
                HeldPayments(t) = {} /\ IsOne(HeldInvoices(t) \cup todo[t])
          /\ req[t].kind \in {"payment", "voidPayment", "allocate"} => IsOne(HeldPayments(t))
          /\ req[t].kind = "voidPayment" \/ Serves(t, "payment", {"post"}) =>
                HeldInvoices(t) = {}
    /\ pc[t] = "payments" /\ req[t].kind # "rebuild" => IsOne(HeldPayments(t) \cup todo[t])
    /\ Serves(t, "payment", {"invoices"}) \/ Serves(t, "allocate", {"invoices"}) =>
          HeldInvoices(t) \cup todo[t] = DOMAIN req[t].batch

\* The invoice row x, held by t, of the committed row y.
OfInvoice(t, x, y) ==
    IF req[t].kind = "invoice"
    THEN /\ y = NoRow
         /\ x.order = req[t].order /\ x.total = OrderTotal[x.order] /\ x.status = "OPEN"
    ELSE /\ y # NoRow /\ x.order = y.order /\ x.total = y.total
         /\ IF Serves(t, "voidInvoice", {"post", "commit"})
            THEN y.status # "VOIDED" /\ x.status = "VOIDED"
            ELSE y.status = "VOIDED" <=> x.status = "VOIDED"

OfPayment(t, x, y) ==
    IF req[t].kind = "payment"
    THEN /\ y = NoRow
         /\ x.ref = req[t].receipt.ref /\ x.customer = req[t].receipt.customer
         /\ x.amount = req[t].receipt.amount /\ x.status = "RECEIVED"
    ELSE /\ y # NoRow /\ x.ref = y.ref /\ x.customer = y.customer /\ x.amount = y.amount
         /\ IF Serves(t, "voidPayment", {"post", "commit"})
            THEN y.status # "VOIDED" /\ x.status = "VOIDED"
            ELSE y.status = x.status

Based(t) ==
    /\ \A i \in HeldInvoices(t) : OfInvoice(t, inv[t][i], invoice[i])
    /\ \A p \in HeldPayments(t) : OfPayment(t, pay[t][p], payment[p])

\* The key a transaction has inserted is nobody else's.
KeyFree(t) ==
    pc[t] \in {"post", "invoices", "commit"} =>
       /\ req[t].kind = "invoice" => ~OrderTaken(req[t].order)
       /\ req[t].kind = "payment" => ~RefTaken(req[t].receipt.ref)

\* A row has one holder, and so has the sequence row of each document type.
Excluded ==
    \A t, u \in Txns : t # u =>
       /\ HeldInvoices(t) \cap HeldInvoices(u) = {}
       /\ HeldPayments(t) \cap HeldPayments(u) = {}
       /\ \A kind \in {"invoice", "payment"} :
             ~(t \in DocNoHolders(kind) /\ u \in DocNoHolders(kind))

ReceivablesInv ==
    /\ TypeOK /\ Excluded /\ OneLiveInvoice
    /\ \A t \in Txns : Served(t) /\ Queued(t) /\ Holds(t) /\ Based(t) /\ KeyFree(t)

-------------------------------------------------------------------------------
(* BooksInv: the journal has the entries of what happened to each row.         *)

Books ==
    {Issued(i, invoice[i]) : i \in {j \in InvoiceIds : invoice[j] # NoRow}}
    \cup {InvoiceVoided(i, invoice[i]) :
            i \in {j \in InvoiceIds : invoice[j] # NoRow /\ invoice[j].status = "VOIDED"}}
    \cup {Received(p, payment[p]) : p \in {q \in PaymentIds : payment[q] # NoRow}}
    \cup {PaymentVoided(p, payment[p]) :
            p \in {q \in PaymentIds : payment[q] # NoRow /\ payment[q].status = "VOIDED"}}

\* The entries a transaction adds.
EntriesOf(t) ==
    CASE req[t].kind = "invoice" -> {Issued(i, inv[t][i]) : i \in HeldInvoices(t)}
      [] req[t].kind = "voidInvoice" -> {InvoiceVoided(i, inv[t][i]) : i \in HeldInvoices(t)}
      [] req[t].kind = "payment" -> {Received(p, pay[t][p]) : p \in HeldPayments(t)}
      [] req[t].kind = "voidPayment" -> {PaymentVoided(p, pay[t][p]) : p \in HeldPayments(t)}
      [] OTHER -> {}

BooksInv ==
    /\ posted = Books
    /\ \A t \in Txns : /\ pc[t] = "commit" => news[t].entries = EntriesOf(t)
                       /\ Serves(t, "payment", {"invoices"}) => news[t].entries = EntriesOf(t)

-------------------------------------------------------------------------------
(* SumsInv: what a transaction will leave in the maintained columns.           *)

RightInvoice(i) == invoice[i] # NoRow => invoice[i].settled = SettledBy(commands, i)
RightPayment(p) == payment[p] # NoRow => payment[p].allocated = AllocatedBy(commands, p)

\* The commands are of rows that are there.
NamesExist ==
    \A c \in commands :
        payment[c.payment] # NoRow /\ \A i \in DOMAIN c.batch : invoice[i] # NoRow

\* The command a transaction adds is new, and of the rows it holds.
AddsCommand(t) ==
    /\ Serves(t, "allocate", {"invoices"}) => SameRef(CommandOf(t)) = {}
    /\ news[t].commands # {} =>
          /\ Serves(t, "allocate", {"commit"}) \/ (Serves(t, "payment", {"commit"}) /\ Inline(t))
          /\ news[t].commands = {CommandOf(t)}
          /\ HeldInvoices(t) = DOMAIN req[t].batch
          /\ SameRef(CommandOf(t)) = {}

Summed(t) == Serves(t, "rebuild", {"sum", "commit"})

\* A committed row is locked before it is changed, and by the changes that
\* news has.
Reckoned(t) ==
    /\ \A i \in HeldInvoices(t) :
          inv[t][i].settled =
             IF req[t].kind = "invoice" THEN 0
             ELSE IF Summed(t) THEN SettledBy(commands, i)
             ELSE invoice[i].settled + IF news[t].commands = {} THEN 0 ELSE req[t].batch[i]
    /\ \A p \in HeldPayments(t) :
          pay[t][p].allocated =
             IF Serves(t, "rebuild", {"commit"}) THEN AllocatedBy(commands, p)
             ELSE (IF req[t].kind = "payment" THEN 0 ELSE payment[p].allocated)
                  + IF news[t].commands = {} THEN 0 ELSE SumFunction(req[t].batch)

\* A rebuild has, or is still to lock, every row that is wrong.
Covers(t) ==
    t \in Running /\ req[t].kind = "rebuild" =>
       /\ \A p \in PaymentIds :
             \/ RightPayment(p) \/ p \in HeldPayments(t)
             \/ pc[t] = "payments" /\ p \in todo[t]
       /\ \A i \in InvoiceIds :
             \/ RightInvoice(i) \/ i \in HeldInvoices(t)
             \/ pc[t] = "payments" \/ (pc[t] = "invoices" /\ i \in todo[t])

SumsInv ==
    /\ NamesExist /\ RebuildRepairs
    /\ \A t \in Txns : AddsCommand(t) /\ Reckoned(t) /\ Covers(t)

-------------------------------------------------------------------------------
(* FitInv: what an allocation has seen under its locks is so until it ends.   *)

Billed(i) == invoice[i] # NoRow => invoice[i].total = OrderTotal[invoice[i].order]

Matched(t) ==
    /\ Serves(t, "allocate", {"invoices", "commit"}) =>
          \A p \in HeldPayments(t) : pay[t][p].status # "VOIDED"
    /\ news[t].commands # {} =>
          \A i \in HeldInvoices(t), p \in HeldPayments(t) :
              inv[t][i].status # "VOIDED" /\ CustomerOf[inv[t][i].order] = pay[t][p].customer

\* A payment that came with allocations does not commit without its command.
Carries(t) == Serves(t, "payment", {"commit"}) /\ Inline(t) => news[t].commands # {}

FitInv ==
    /\ \A i \in InvoiceIds : Billed(i)
    /\ \A t \in Txns : Matched(t) /\ Carries(t)
================================================================================
