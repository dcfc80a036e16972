--------------------------------- MODULE Sales ---------------------------------
(***************************************************************************)
(* Sales orders (app/modules/sales) with the credit limit hook of          *)
(* app/plugins/credit_limit.py, as their database transactions run them:   *)
(* one step per statement another transaction can notice. An order has one *)
(* product here; quantity 0 is an order without lines. What receivables    *)
(* commits about an order (module Receivables) is a single step each.      *)
(***************************************************************************)
EXTENDS Integers, FiniteSets, Functions, Folds

CONSTANTS
    Txns,           \* database transactions, one request each
    Orders,         \* order ids
    Customers,
    Quantities,     \* what a request may order
    Prices,         \* list prices, and prices a request may override with
    Costs,          \* standard costs
    Limits,         \* credit limits; 0 means unchecked
    Grace,          \* grace_amount of the plugin's configuration
    FirstOrders,    \* the orders committed before the run
    NoOrder, NoOverride

ASSUME SalesAssumption ==
    /\ Quantities \cup Prices \cup Costs \cup Limits \subseteq Nat
    /\ Grace \in Nat
    /\ NoOverride \notin Prices

Statuses == {"DRAFT", "CONFIRMED", "SHIPPED", "CANCELLED"}

\* A row of sales_orders and its line.
Row == [status : Statuses, customer : Customers, qty : Nat, price : Nat,
        override : BOOLEAN, total : Nat, number : Nat]

Placed == {o \in Orders : FirstOrders[o] # NoOrder}

\* The orders before the run were numbered by the sequence, and priced when they
\* were confirmed.
ASSUME FirstOrdersAssumption ==
    /\ IsFiniteSet(Orders) /\ NoOrder \notin Row
    /\ FirstOrders \in [Orders -> Row \cup {NoOrder}]
    /\ \A o \in Placed :
          /\ FirstOrders[o].number <= Cardinality(Placed)
          /\ FirstOrders[o].status \in {"CONFIRMED", "SHIPPED"} =>
                /\ FirstOrders[o].total = FirstOrders[o].qty * FirstOrders[o].price
                /\ FirstOrders[o].total > 0

VARIABLES
    order,          \* committed sales_orders: id -> row, NoOrder if none
    nextNo,         \* committed sales_sequences.next_no
    listPrice,      \* products.list_price
    standardCost,   \* products.standard_cost
    limit,          \* customers.credit_limit
    invoiced,       \* the orders with an invoice that is not voided
    settled,        \* what has been paid on it
    outbox,         \* committed events of the orders
    pc,             \* the statement each transaction runs next
    req,            \* its request; "cost" is what ship_order read
    mine            \* the order row it has locked or built, as it will leave it

Masterdata == <<listPrice, standardCost, limit>>
Billing == <<invoiced, settled>>
Stored == <<order, nextNo, outbox>>
vars == <<Stored, Masterdata, Billing, pc, req, mine>>

NoRequest == [kind |-> "none", order |-> NoOrder, qty |-> 0,
              override |-> NoOverride, cost |-> 0]

Init ==
    /\ order = FirstOrders
    /\ nextNo = 1 + Cardinality(Placed)
    /\ listPrice \in Prices /\ standardCost \in Costs
    /\ limit \in [Customers -> Limits]
    /\ invoiced = {} /\ settled = [o \in Orders |-> 0]
    /\ outbox = {}
    /\ pc = [t \in Txns |-> "idle"]
    /\ req = [t \in Txns |-> NoRequest]
    /\ mine = [t \in Txns |-> NoOrder]

-------------------------------------------------------------------------------
(* Locks and exposure. *)

OrderHolders(o) ==
    {t \in Txns : pc[t] \in {"products", "customer", "limit", "commit"} /\ req[t].order = o}

\* Mutant: a refused creation keeps its transaction open.
SequenceHoldersUnreleased ==
    {t \in Txns : pc[t] \in {"commit", "refused"} /\ req[t].kind = "create"}

\* The row of sales_sequences.
SequenceHolders == {t \in Txns : pc[t] = "commit" /\ req[t].kind = "create"}

CustomerHolders(c) ==
    {t \in Txns : req[t].kind = "confirm" /\ pc[t] \in {"limit", "commit"}
                  /\ mine[t].customer = c}

Committed(o) == order[o] # NoOrder /\ order[o].status \in {"CONFIRMED", "SHIPPED"}

Owed(o) == IF o \in invoiced THEN order[o].total - settled[o] ELSE order[o].total

OrdersOf(c) == {o \in Orders : Committed(o) /\ order[o].customer = c}

\* get_customer_exposure_unchecked: one statement over committed rows.
Exposure(c) == SumFunction([o \in OrdersOf(c) |-> Owed(o)])

-------------------------------------------------------------------------------
Goto(t, where) == pc' = [pc EXCEPT ![t] = where]

Refuse(t) ==
    /\ Goto(t, "refused")
    /\ mine' = [mine EXCEPT ![t] = NoOrder]
    /\ UNCHANGED <<Stored, Masterdata, Billing, req>>

Continue(t, row, where) ==
    /\ Goto(t, where)
    /\ mine' = [mine EXCEPT ![t] = row]
    /\ UNCHANGED <<Stored, Masterdata, Billing, req>>

\* _build_lines: the price is the request's own, or the list price.
UnitPrice(override) == IF override = NoOverride THEN listPrice ELSE override

WithLines(row, q, override) ==
    [row EXCEPT !.qty = q, !.override = override # NoOverride,
                !.price = UnitPrice(override), !.total = q * UnitPrice(override)]

-------------------------------------------------------------------------------
(* create_order *)

EmptyOrder(c) == [status |-> "DRAFT", customer |-> c, qty |-> 0, price |-> 0,
                  override |-> FALSE, total |-> 0, number |-> 0]

BeginCreate(t, o, c, q, override) ==
    /\ pc[t] = "idle"
    /\ order[o] = NoOrder /\ \A u \in Txns : req[u].order # o
    /\ req' = [req EXCEPT ![t] = [NoRequest EXCEPT !.kind = "create", !.order = o]]
    /\ mine' = [mine EXCEPT ![t] = WithLines(EmptyOrder(c), q, override)]
    /\ Goto(t, "number")
    /\ UNCHANGED <<Stored, Masterdata, Billing>>

\* Mutant: the sequence is read without a lock.
AllocateOrderNoPlainRead(t) ==
    /\ pc[t] = "number"
    /\ Continue(t, [mine[t] EXCEPT !.number = nextNo], "commit")

AllocateOrderNo(t) ==
    /\ pc[t] = "number" /\ SequenceHolders = {}
    /\ Continue(t, [mine[t] EXCEPT !.number = nextNo], "commit")

-------------------------------------------------------------------------------
(* update_order, confirm_order, ship_order, cancel_order *)

Begin(t, kind, o, q, override) ==
    /\ pc[t] = "idle" /\ order[o] # NoOrder
    /\ req' = [req EXCEPT ![t] = [kind |-> kind, order |-> o, qty |-> q,
                                  override |-> override, cost |-> 0]]
    /\ Goto(t, "order")
    /\ UNCHANGED <<Stored, Masterdata, Billing, mine>>

Admits(kind, status) ==
    \/ kind \in {"update", "confirm"} /\ status = "DRAFT"
    \/ kind = "ship" /\ status = "CONFIRMED"
    \/ kind = "cancel" /\ status \in {"DRAFT", "CONFIRMED"}

\* Mutant: the order is read without a lock.
LockOrderPlainRead(t) ==
    LET row == order[req[t].order] IN
    /\ pc[t] = "order"
    /\ IF Admits(req[t].kind, row.status) THEN Continue(t, row, "products") ELSE Refuse(t)

LockOrder(t) ==
    LET row == order[req[t].order] IN
    /\ pc[t] = "order" /\ OrderHolders(req[t].order) = {}
    /\ IF Admits(req[t].kind, row.status) THEN Continue(t, row, "products") ELSE Refuse(t)

At(t, where, kind) == pc[t] = where /\ req[t].kind = kind

EditLines(t) ==
    /\ At(t, "products", "update")
    /\ Continue(t, WithLines(mine[t], req[t].qty, req[t].override), "commit")

Repriced(row) ==
    LET price == IF row.override THEN row.price ELSE listPrice
    IN [row EXCEPT !.price = price, !.total = row.qty * price]

\* Mutant: the total is checked before it is recomputed.
RepriceAfterCheck(t) ==
    /\ At(t, "products", "confirm")
    /\ IF mine[t].total > 0 THEN Continue(t, Repriced(mine[t]), "customer") ELSE Refuse(t)

\* confirm takes today's prices; no lines or no positive total is refused.
Reprice(t) ==
    /\ At(t, "products", "confirm")
    /\ IF mine[t].qty > 0 /\ Repriced(mine[t]).total > 0
       THEN Continue(t, Repriced(mine[t]), "customer")
       ELSE Refuse(t)

Confirmed(row) == [row EXCEPT !.status = "CONFIRMED"]

\* Mutant: the customer row is read without a lock.
LockCustomerPlainRead(t) ==
    /\ pc[t] = "customer"
    /\ IF limit[mine[t].customer] = 0
       THEN Continue(t, Confirmed(mine[t]), "commit")
       ELSE Continue(t, mine[t], "limit")

\* lock_customer_credit_limit_unchecked; a limit of 0 ends the hook.
LockCustomer(t) ==
    /\ pc[t] = "customer" /\ CustomerHolders(mine[t].customer) = {}
    /\ IF limit[mine[t].customer] = 0
       THEN Continue(t, Confirmed(mine[t]), "commit")
       ELSE Continue(t, mine[t], "limit")

CheckLimit(t) ==
    LET c == mine[t].customer IN
    /\ pc[t] = "limit"
    /\ IF Exposure(c) + mine[t].total > limit[c] + Grace
       THEN Refuse(t)
       ELSE Continue(t, Confirmed(mine[t]), "commit")

\* The unit cost is read under no lock of the product.
Ship(t) ==
    /\ At(t, "products", "ship")
    /\ req' = [req EXCEPT ![t].cost = standardCost]
    /\ mine' = [mine EXCEPT ![t].status = "SHIPPED"]
    /\ Goto(t, "commit")
    /\ UNCHANGED <<Stored, Masterdata, Billing>>

Cancel(t) ==
    /\ At(t, "products", "cancel")
    /\ Continue(t, [mine[t] EXCEPT !.status = "CANCELLED"], "commit")

\* The event published in the transaction, and the amount it quotes.
Quoted(t) ==
    IF req[t].kind = "confirm" THEN mine[t].total ELSE mine[t].qty * req[t].cost

Events(t) ==
    {[type |-> kind, order |-> req[t].order, qty |-> mine[t].qty,
      amount |-> Quoted(t), by |-> t] : kind \in {req[t].kind} \cap {"confirm", "ship"}}

Commit(t) ==
    /\ pc[t] = "commit"
    /\ order' = [order EXCEPT ![req[t].order] = mine[t]]
    /\ nextNo' = IF req[t].kind = "create" THEN mine[t].number + 1 ELSE nextNo
    /\ outbox' = outbox \cup Events(t)
    /\ Goto(t, "committed")
    /\ mine' = [mine EXCEPT ![t] = NoOrder]
    /\ UNCHANGED <<Masterdata, Billing, req>>

\* A handler of the event fails, or the process dies.
Rollback(t) ==
    /\ pc[t] \notin {"idle", "committed", "refused"}
    /\ Refuse(t)

-------------------------------------------------------------------------------
(* What master data and receivables commit meanwhile. *)

SetPrice ==
    /\ listPrice' \in Prices \ {listPrice}
    /\ UNCHANGED <<Stored, standardCost, limit, Billing, pc, req, mine>>

SetCost ==
    /\ standardCost' \in Costs \ {standardCost}
    /\ UNCHANGED <<Stored, listPrice, limit, Billing, pc, req, mine>>

\* The update waits for a transaction that holds the customer's row.
SetLimit(c) ==
    /\ CustomerHolders(c) = {}
    /\ \E l \in Limits \ {limit[c]} : limit' = [limit EXCEPT ![c] = l]
    /\ UNCHANGED <<Stored, listPrice, standardCost, Billing, pc, req, mine>>

Invoice(o) ==
    /\ order[o] # NoOrder /\ order[o].status = "SHIPPED" /\ o \notin invoiced
    /\ invoiced' = invoiced \cup {o}
    /\ UNCHANGED <<Stored, Masterdata, settled, pc, req, mine>>

\* The invoice is paid in full. A settled amount never falls: neither a
\* settled invoice nor an allocated payment can be voided.
Settle(o) ==
    /\ o \in invoiced /\ settled[o] = 0
    /\ settled' = [settled EXCEPT ![o] = order[o].total]
    /\ UNCHANGED <<Stored, Masterdata, invoiced, pc, req, mine>>

VoidInvoice(o) ==
    /\ o \in invoiced /\ settled[o] = 0
    /\ invoiced' = invoiced \ {o}
    /\ UNCHANGED <<Stored, Masterdata, settled, pc, req, mine>>

-------------------------------------------------------------------------------
Overrides == Prices \cup {NoOverride}

BeginRequest(t) ==
    \E o \in Orders :
        \/ \E c \in Customers, q \in Quantities, p \in Overrides : BeginCreate(t, o, c, q, p)
        \/ \E q \in Quantities, p \in Overrides : Begin(t, "update", o, q, p)
        \/ \E kind \in {"confirm", "ship", "cancel"} : Begin(t, kind, o, 0, NoOverride)

Advance(t) ==
    \/ AllocateOrderNo(t)
    \/ LockOrder(t)
    \/ EditLines(t)
    \/ Reprice(t)
    \/ LockCustomer(t)
    \/ CheckLimit(t)
    \/ Ship(t)
    \/ Cancel(t)
    \/ Commit(t)

Elsewhere ==
    \/ SetPrice
    \/ SetCost
    \/ \E c \in Customers : SetLimit(c)
    \/ \E o \in Orders : Invoice(o) \/ Settle(o) \/ VoidInvoice(o)

Finished ==
    /\ \A t \in Txns : pc[t] \in {"committed", "refused"}
    /\ UNCHANGED vars

Next ==
    \/ \E t \in Txns : BeginRequest(t) \/ Advance(t) \/ Rollback(t)
    \/ Elsewhere
    \/ Finished

Spec == Init /\ [][Next]_vars

\* A statement runs when the locks it waits for are free.
FairSpec == Spec /\ \A t \in Txns : WF_vars(Advance(t))

-------------------------------------------------------------------------------
(* Properties. *)

\* ADR-006 Decision 3: an order number that is about to be inserted is in no
\* row, so uq_sales_orders_company_order_no never turns a creation away.
NumbersNeverClash ==
    \A t \in Txns : At(t, "commit", "create") =>
        \A o \in Orders : order[o] # NoOrder => order[o].number # mine[t].number

EventsOf(type, o) == {e \in outbox : e.type = type /\ e.order = o}

ConfirmedBefore(o) == FirstOrders[o] # NoOrder /\ FirstOrders[o].status # "DRAFT"
ShippedBefore(o) == FirstOrders[o] # NoOrder /\ FirstOrders[o].status = "SHIPPED"

\* Ledger and stock work from the outbox: an order has one confirmation event
\* exactly when it has been confirmed in the run, one shipment event exactly
\* when it has been shipped in the run, and they quote the order as it stands,
\* with the total of its lines. No order without a positive total gets that far,
\* whatever the prices did since the draft.
EventsMatchOrders ==
    \A o \in Orders :
        LET confirmations == EventsOf("confirm", o)
            shipments == EventsOf("ship", o) IN
        /\ Cardinality(confirmations) <= 1 /\ Cardinality(shipments) <= 1
        /\ (shipments # {}) <=>
              (order[o] # NoOrder /\ order[o].status = "SHIPPED" /\ ~ShippedBefore(o))
        /\ confirmations # {} =>
              order[o].status \in {"CONFIRMED", "SHIPPED", "CANCELLED"}
        /\ Committed(o) => confirmations # {} \/ ConfirmedBefore(o)
        /\ Committed(o) => order[o].total = order[o].qty * order[o].price /\ order[o].total > 0
        /\ \A e \in confirmations : e.amount = order[o].total
        /\ \A e \in confirmations \cup shipments : e.qty = order[o].qty

Lifecycle == {<<"DRAFT", "DRAFT">>, <<"DRAFT", "CONFIRMED">>, <<"DRAFT", "CANCELLED">>,
              <<"CONFIRMED", "SHIPPED">>, <<"CONFIRMED", "CANCELLED">>}

Terms(row) == [row EXCEPT !.status = "any"]

\* An order moves along its lifecycle only, and what was agreed on (lines,
\* prices, total, number) is frozen once it is no draft: no edit that was
\* validated against a draft lands on a confirmed order.
OrderFrozen ==
    [][\A o \in Orders : order[o] # NoOrder /\ order'[o] # order[o] =>
          /\ order'[o] # NoOrder
          /\ <<order[o].status, order'[o].status>> \in Lifecycle
          /\ order[o].status # "DRAFT" => Terms(order'[o]) = Terms(order[o])]_vars

Confirms(o) == order[o] # order'[o] /\ order'[o].status = "CONFIRMED"

\* ADR-006 R1 with ADR-008 Decision 6: the confirmation that commits leaves the
\* customer within the limit in force, whatever was confirmed, repriced,
\* invoiced, voided or paid since the hook looked.
CreditRespected ==
    [][\A o \in Orders, c \in Customers :
          Confirms(o) /\ order'[o].customer = c /\ limit[c] # 0
             => (Exposure(c) <= limit[c] + Grace)']_vars

\* The order, customer and sequence locks have no cycle: a request ends.
EveryRequestEnds ==
    \A t \in Txns : pc[t] # "idle" ~> pc[t] \in {"committed", "refused"}

-------------------------------------------------------------------------------
(* The inductive invariant behind the theorems of SalesProofs. *)

Edits == {"update", "confirm", "ship", "cancel"}
Holding == {"products", "customer", "limit", "commit"}

Request == [kind : Edits \cup {"none", "create"}, order : Orders \cup {NoOrder},
            qty : Nat, override : Nat \cup {NoOverride}, cost : Nat]

\* Every variable that the theorems are about has its type.
TypeOK ==
    /\ order \in [Orders -> Row \cup {NoOrder}]
    /\ nextNo \in Nat
    /\ listPrice \in Nat /\ standardCost \in Nat
    /\ pc \in [Txns -> Holding \cup {"idle", "number", "order", "committed", "refused"}]
    /\ req \in [Txns -> Request]
    /\ mine \in [Txns -> Row \cup {NoOrder}]

\* A creation has its order's id to itself, and its number when it has one.
CreatesAlone ==
    \A t \in Txns : pc[t] \in {"number", "commit"} /\ req[t].kind = "create" =>
        /\ req[t].order \in Orders /\ order[req[t].order] = NoOrder
        /\ mine[t] \in Row /\ mine[t].status = "DRAFT"
        /\ \A u \in Txns \ {t} : req[u].order # req[t].order

\* The numbers of the committed orders are below the sequence, whose one holder
\* has the next.
Numbered ==
    /\ \A o \in Orders : order[o] # NoOrder => order[o].number < nextNo
    /\ \A t, u \in Txns : At(t, "commit", "create") /\ At(u, "commit", "create") =>
          t = u /\ mine[t].number = nextNo

Priced(row) == row.total = row.qty * row.price /\ row.total > 0

\* The row a request has in hand after the lock, against the committed one.
Ready(kind, old, row, at) ==
    /\ kind \in Edits /\ old \in Row /\ row \in Row
    /\ Admits(kind, old.status) /\ row.number = old.number
    /\ at = "products" => row = old
    /\ at \in {"customer", "limit"} => kind = "confirm" /\ row.status = "DRAFT" /\ Priced(row)
    /\ at = "commit" =>
          /\ kind = "update" => row.status = "DRAFT"
          /\ kind = "confirm" => row.status = "CONFIRMED" /\ Priced(row)
          /\ kind = "ship" => row = [old EXCEPT !.status = "SHIPPED"]
          /\ kind = "cancel" => row = [old EXCEPT !.status = "CANCELLED"]

\* The lock of an order has one holder, who works on the row as it still is.
Works ==
    \A t \in Txns :
        /\ pc[t] = "number" => req[t].kind = "create"
        /\ pc[t] \in {"products", "customer", "limit"} => req[t].kind # "create"
        /\ pc[t] = "order" =>
              req[t].kind \in Edits /\ req[t].order \in Orders /\ order[req[t].order] # NoOrder
        /\ pc[t] \in Holding /\ req[t].kind # "create" =>
              req[t].order \in Orders /\ Ready(req[t].kind, order[req[t].order], mine[t], pc[t])
        /\ \A u \in Txns : pc[t] \in Holding /\ pc[u] \in Holding
                            /\ req[t].order = req[u].order => t = u

\* What the outbox says of the orders.
EventsTrue ==
    /\ outbox \subseteq [type : {"confirm", "ship"}, order : Orders, qty : Nat,
                         amount : Nat, by : Txns]
    /\ \A e \in outbox :
          /\ order[e.order] # NoOrder /\ e.qty = order[e.order].qty
          /\ e.type = "confirm" =>
                order[e.order].status # "DRAFT" /\ e.amount = order[e.order].total
          /\ e.type = "ship" => order[e.order].status = "SHIPPED" /\ ~ShippedBefore(e.order)
    /\ \A e, f \in outbox : e.type = f.type /\ e.order = f.order => e = f

\* What the committed orders say of the outbox.
OrdersTold ==
    \A o \in Orders :
        /\ ShippedBefore(o) => order[o] # NoOrder /\ order[o].status = "SHIPPED"
        /\ Committed(o) => Priced(order[o]) /\ (EventsOf("confirm", o) # {} \/ ConfirmedBefore(o))
        /\ Committed(o) /\ order[o].status = "SHIPPED" =>
              EventsOf("ship", o) # {} \/ ShippedBefore(o)

SalesInv ==
    TypeOK /\ CreatesAlone /\ Numbered /\ Works /\ EventsTrue /\ OrdersTold

\* What is invoiced has been shipped, and what is settled is a whole invoice.
Billed ==
    /\ limit \in [Customers -> Nat] /\ settled \in [Orders -> Nat]
    /\ invoiced \subseteq {o \in Orders : order[o] # NoOrder /\ order[o].status = "SHIPPED"}
    /\ \A o \in Orders : settled[o] # 0 => o \in invoiced /\ settled[o] = order[o].total

\* The lock of a customer has one holder, and what its hook has found still holds.
WithinLimit ==
    \A c \in Customers :
        /\ \A t, u \in CustomerHolders(c) : t = u
        /\ \A t \in Txns : At(t, "commit", "confirm") /\ mine[t].customer = c =>
              limit[c] = 0 \/ Exposure(c) + mine[t].total <= limit[c] + Grace

CreditInv == SalesInv /\ Billed /\ WithinLimit
===============================================================================
