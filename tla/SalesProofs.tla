------------------------------ MODULE SalesProofs ------------------------------
(***************************************************************************)
(* Theorems of the specification Sales, for every set of requests, orders, *)
(* prices and limits, and every set of orders placed before.               *)
(***************************************************************************)
EXTENDS Sales, Sums

(* Facts about single definitions. *)

\* The total of a line is a natural number.
LEMMA TotalType ==
    ASSUME NEW q \in Nat, NEW p \in Nat
    PROVE  q * p \in Nat
OBVIOUS

\* A row with other lines is a row, of the same status and number.
LEMMA LinesType ==
    ASSUME NEW row \in Row, NEW q \in Nat, NEW p \in Nat \cup {NoOverride}, listPrice \in Nat
    PROVE  /\ WithLines(row, q, p) \in Row
           /\ WithLines(row, q, p).status = row.status
           /\ WithLines(row, q, p).number = row.number
<1>1. UnitPrice(p) \in Nat
  BY DEF UnitPrice
<1>2. q * UnitPrice(p) \in Nat
  BY <1>1, TotalType
<1> QED
  BY <1>1, <1>2 DEF WithLines, Row

\* A repriced row is a row whose total is that of its line.
LEMMA RepricedType ==
    ASSUME NEW row \in Row, listPrice \in Nat
    PROVE  /\ Repriced(row) \in Row
           /\ Repriced(row).status = row.status
           /\ Repriced(row).number = row.number
           /\ Repriced(row).total = Repriced(row).qty * Repriced(row).price
<1> DEFINE price == IF row.override THEN row.price ELSE listPrice
<1>1. price \in Nat /\ row.qty \in Nat
  BY DEF Row
<1>2. row.qty * price \in Nat
  BY <1>1, TotalType
<1> QED
  BY <1>1, <1>2 DEF Repriced, Row

--------------------------------------------------------------------------------
\* The initial states satisfy the invariant.
LEMMA InitInv == Init => SalesInv
<1> SUFFICES ASSUME Init PROVE SalesInv
  OBVIOUS
<1>1. IsFiniteSet(Placed) /\ Cardinality(Placed) \in Nat
  BY FirstOrdersAssumption, FS_Subset, FS_CardinalityType DEF Placed
<1>2. TypeOK
  BY <1>1, SalesAssumption, FirstOrdersAssumption
  DEF Init, TypeOK, NoRequest, Request, Edits
<1>3. CreatesAlone /\ Works
  BY DEF Init, CreatesAlone, Works, Holding
<1>4. Numbered
  <2>1. ASSUME NEW o \in Orders, order[o] # NoOrder
        PROVE  order[o].number < nextNo
    <3>1. o \in Placed /\ FirstOrders[o] \in Row
      BY <2>1, FirstOrdersAssumption DEF Init, Placed
    <3>2. order[o].number \in Nat /\ order[o].number <= Cardinality(Placed)
      BY <3>1, FirstOrdersAssumption DEF Init, Row
    <3> QED
      BY <3>2, <1>1 DEF Init
  <2> QED
    BY <2>1 DEF Init, Numbered, At
<1>5. EventsTrue
  BY DEF Init, EventsTrue
<1>6. OrdersTold
  BY FirstOrdersAssumption
  DEF Init, OrdersTold, Committed, Priced, ShippedBefore, ConfirmedBefore, Placed
<1> QED
  BY <1>2, <1>3, <1>4, <1>5, <1>6 DEF SalesInv

--------------------------------------------------------------------------------
\* What holds of the committed rows holds as long as they do not change.
LEMMA StoredUnchanged ==
    ASSUME SalesInv, UNCHANGED Stored
    PROVE  EventsTrue' /\ OrdersTold'
BY DEF SalesInv, Stored, EventsTrue, OrdersTold, Committed, Priced, EventsOf,
       ShippedBefore, ConfirmedBefore

\* A request that is refused leaves everything in place.
LEMMA RefuseStep ==
    ASSUME SalesInv, NEW t \in Txns, Refuse(t)
    PROVE  SalesInv'
<1> USE DEF SalesInv, Refuse, Goto, Stored, Masterdata
<1>1. TypeOK'
  BY DEF TypeOK
<1>2. CreatesAlone'
  BY DEF TypeOK, CreatesAlone
<1>3. Numbered'
  BY DEF TypeOK, Numbered, At
<1>4. Works'
  BY DEF TypeOK, Works, Holding
<1> QED
  BY <1>1, <1>2, <1>3, <1>4, StoredUnchanged

\* A statement that leaves the request with a row that is ready for the next one.
LEMMA WorkStep ==
    ASSUME SalesInv, NEW t \in Txns, NEW row, NEW where \in Holding,
           pc[t] \in {"order", "products", "customer", "limit"},
           pc[t] = "order" => OrderHolders(req[t].order) = {},
           Ready(req[t].kind, order[req[t].order], row, where),
           Goto(t, where), mine' = [mine EXCEPT ![t] = row],
           req' \in [Txns -> Request],
           \A u \in Txns : req'[u].kind = req[u].kind /\ req'[u].order = req[u].order,
           UNCHANGED <<Stored, Masterdata>>
    PROVE  SalesInv'
<1> USE DEF SalesInv, Goto, Stored, Masterdata
<1>0. row \in Row /\ req[t].kind \in Edits /\ req[t].order \in Orders
  BY DEF Ready, Works, Edits, Holding
<1>1. TypeOK'
  BY <1>0 DEF TypeOK
<1>2. CreatesAlone'
  BY <1>0 DEF TypeOK, CreatesAlone, Edits
<1>3. Numbered'
  BY <1>0 DEF TypeOK, Numbered, At, Edits
<1>4. Works'
  <2>1. ASSUME NEW u \in Txns
        PROVE  /\ pc'[u] = "number" => req'[u].kind = "create"
               /\ pc'[u] \in {"products", "customer", "limit"} => req'[u].kind # "create"
               /\ pc'[u] = "order" => /\ req'[u].kind \in Edits /\ req'[u].order \in Orders
                                      /\ order'[req'[u].order] # NoOrder
    BY <1>0 DEF TypeOK, Works, Holding, Edits
  <2>2. ASSUME NEW u \in Txns, pc'[u] \in Holding, req'[u].kind # "create"
        PROVE  req'[u].order \in Orders
               /\ Ready(req'[u].kind, order'[req'[u].order], mine'[u], pc'[u])
    BY <1>0, <2>2 DEF TypeOK, Works
  <2>3. ASSUME NEW u \in Txns, NEW v \in Txns, pc'[u] \in Holding, pc'[v] \in Holding,
               req'[u].order = req'[v].order
        PROVE  u = v
    <3>1. ASSUME NEW x \in Txns, x # t, pc[x] \in Holding
          PROVE  req[x].order # req[t].order
      BY <3>1 DEF Works, OrderHolders, Holding
    <3> QED
      BY <3>1, <2>3 DEF TypeOK, Works
  <2> QED
    BY <2>1, <2>2, <2>3 DEF Works
<1> QED
  BY <1>1, <1>2, <1>3, <1>4, StoredUnchanged

--------------------------------------------------------------------------------
(* Requests that begin. *)

\* A creation takes an id that nobody names.
LEMMA BeginCreateStep ==
    ASSUME SalesInv, NEW t \in Txns, NEW o \in Orders, NEW c \in Customers,
           NEW q \in Quantities, NEW p \in Overrides, BeginCreate(t, o, c, q, p)
    PROVE  SalesInv'
<1> USE DEF SalesInv, BeginCreate, Goto, Stored, Masterdata
<1> DEFINE row == WithLines(EmptyOrder(c), q, p)
           request == [NoRequest EXCEPT !.kind = "create", !.order = o]
<1>1. EmptyOrder(c) \in Row /\ EmptyOrder(c).status = "DRAFT"
  BY DEF EmptyOrder, Row, Statuses
<1>2. row \in Row /\ row.status = "DRAFT"
  <2>1. q \in Nat /\ p \in Nat \cup {NoOverride} /\ listPrice \in Nat
    BY SalesAssumption DEF TypeOK, Overrides
  <2> QED
    BY <1>1, <2>1, LinesType
<1>3. request \in Request /\ request.kind = "create" /\ request.order = o
  BY DEF NoRequest, Request
<1>4. /\ req' = [req EXCEPT ![t] = request] /\ mine' = [mine EXCEPT ![t] = row]
      /\ pc' = [pc EXCEPT ![t] = "number"]
  OBVIOUS
<1> HIDE DEF row, request
<1>5. TypeOK'
  BY <1>2, <1>3, <1>4 DEF TypeOK
<1>6. CreatesAlone'
  BY <1>2, <1>3, <1>4 DEF TypeOK, CreatesAlone
<1>7. Numbered'
  BY <1>4 DEF TypeOK, Numbered, At
<1>8. Works'
  BY <1>3, <1>4 DEF TypeOK, Works, Holding
<1> QED
  BY <1>5, <1>6, <1>7, <1>8, StoredUnchanged

\* A request on an order that is there.
LEMMA BeginStep ==
    ASSUME SalesInv, NEW t \in Txns, NEW o \in Orders, NEW kind \in Edits,
           NEW q \in Nat, NEW p \in Overrides, Begin(t, kind, o, q, p)
    PROVE  SalesInv'
<1> USE DEF SalesInv, Begin, Goto, Stored, Masterdata
<1> DEFINE request == [kind |-> kind, order |-> o, qty |-> q, override |-> p, cost |-> 0]
<1>1. request \in Request /\ request.kind = kind /\ request.order = o
  BY SalesAssumption DEF Request, Overrides
<1>2. req' = [req EXCEPT ![t] = request] /\ pc' = [pc EXCEPT ![t] = "order"]
  OBVIOUS
<1> HIDE DEF request
<1>3. TypeOK'
  BY <1>1, <1>2 DEF TypeOK
<1>4. CreatesAlone'
  BY <1>1, <1>2 DEF TypeOK, CreatesAlone
<1>5. Numbered'
  BY <1>2 DEF TypeOK, Numbered, At
<1>6. Works'
  BY <1>1, <1>2 DEF TypeOK, Works, Holding
<1> QED
  BY <1>3, <1>4, <1>5, <1>6, StoredUnchanged

--------------------------------------------------------------------------------
(* The statements of a request. *)

\* The holder of the sequence takes its next number.
LEMMA AllocateStep ==
    ASSUME SalesInv, NEW t \in Txns, AllocateOrderNo(t)
    PROVE  SalesInv'
<1> USE DEF SalesInv, AllocateOrderNo, Continue, Goto, Stored, Masterdata
<1> DEFINE row == [mine[t] EXCEPT !.number = nextNo]
<1>1. req[t].kind = "create" /\ mine[t] \in Row
  BY DEF Works, CreatesAlone
<1>2. row \in Row /\ row.status = mine[t].status /\ row.number = nextNo
  BY <1>1 DEF TypeOK, Row
<1>3. mine' = [mine EXCEPT ![t] = row] /\ pc' = [pc EXCEPT ![t] = "commit"]
  OBVIOUS
<1> HIDE DEF row
<1>4. TypeOK'
  BY <1>2, <1>3 DEF TypeOK, Holding
<1>5. CreatesAlone'
  BY <1>1, <1>2, <1>3 DEF TypeOK, CreatesAlone
<1>6. Numbered'
  BY <1>2, <1>3 DEF TypeOK, Numbered, At, SequenceHolders
<1>7. Works'
  BY <1>1, <1>3 DEF TypeOK, Works, Holding, CreatesAlone
<1> QED
  BY <1>4, <1>5, <1>6, <1>7, StoredUnchanged

\* The order is locked, and refused unless its status admits the request.
LEMMA LockOrderStep ==
    ASSUME SalesInv, NEW t \in Txns, LockOrder(t)
    PROVE  SalesInv'
<1> DEFINE row == order[req[t].order]
<1>1. CASE ~Admits(req[t].kind, row.status)
  BY <1>1, RefuseStep DEF LockOrder
<1>2. CASE Admits(req[t].kind, row.status)
  <2>1. req[t].kind \in Edits /\ row \in Row
    BY DEF LockOrder, SalesInv, Works, TypeOK
  <2>2. Ready(req[t].kind, row, row, "products")
    BY <1>2, <2>1 DEF Ready
  <2> QED
    BY <1>2, <2>2, WorkStep DEF LockOrder, Continue, SalesInv, TypeOK, Holding
<1> QED
  BY <1>1, <1>2

\* At "products" a request has the row as it is committed.
LEMMA ProductsRow ==
    ASSUME SalesInv, NEW t \in Txns, pc[t] = "products"
    PROVE  /\ req[t].kind \in Edits /\ mine[t] \in Row
           /\ mine[t] = order[req[t].order] /\ Admits(req[t].kind, mine[t].status)
BY DEF SalesInv, Works, Ready, Holding

\* An edit replaces the lines of a draft.
LEMMA EditLinesStep ==
    ASSUME SalesInv, NEW t \in Txns, EditLines(t)
    PROVE  SalesInv'
<1> DEFINE row == WithLines(mine[t], req[t].qty, req[t].override)
<1>1. /\ pc[t] = "products" /\ req[t].kind = "update"
      /\ req[t].qty \in Nat /\ req[t].override \in Nat \cup {NoOverride} /\ listPrice \in Nat
  BY DEF EditLines, At, SalesInv, TypeOK, Request
<1>2. row \in Row /\ row.status = mine[t].status /\ row.number = mine[t].number
  BY <1>1, LinesType, ProductsRow
<1>3. Ready("update", order[req[t].order], row, "commit")
  BY <1>1, <1>2, ProductsRow DEF Ready, Admits
<1> QED
  BY <1>1, <1>3, WorkStep DEF EditLines, Continue, SalesInv, TypeOK, Holding

\* A draft takes today's prices.
LEMMA RepriceStep ==
    ASSUME SalesInv, NEW t \in Txns, Reprice(t)
    PROVE  SalesInv'
<1> DEFINE row == Repriced(mine[t])
<1>1. pc[t] = "products" /\ req[t].kind = "confirm" /\ listPrice \in Nat
  BY DEF Reprice, At, SalesInv, TypeOK
<1>2. CASE mine[t].qty > 0 /\ row.total > 0
  <2>1. /\ row \in Row /\ row.status = mine[t].status /\ row.number = mine[t].number
        /\ row.total = row.qty * row.price
    BY <1>1, RepricedType, ProductsRow
  <2>2. Ready("confirm", order[req[t].order], row, "customer")
    BY <1>1, <1>2, <2>1, ProductsRow DEF Ready, Admits, Priced
  <2> QED
    BY <1>1, <1>2, <2>2, WorkStep DEF Reprice, Continue, SalesInv, TypeOK, Holding
<1>3. CASE ~(mine[t].qty > 0 /\ row.total > 0)
  BY <1>3, RefuseStep DEF Reprice
<1> QED
  BY <1>2, <1>3

\* At "customer" and "limit" a confirmation is priced and yet to be confirmed.
LEMMA ConfirmsNext ==
    ASSUME SalesInv, NEW t \in Txns, pc[t] \in {"customer", "limit"}
    PROVE  /\ Ready("confirm", order[req[t].order], mine[t], "limit")
           /\ Ready("confirm", order[req[t].order], Confirmed(mine[t]), "commit")
           /\ req[t].kind = "confirm"
<1>1. Ready("confirm", order[req[t].order], mine[t], "limit") /\ req[t].kind = "confirm"
  BY DEF SalesInv, Works, Ready, Holding
<1> DEFINE row == Confirmed(mine[t])
<1>2. /\ row \in Row /\ row.status = "CONFIRMED" /\ row.number = mine[t].number
      /\ row.total = mine[t].total /\ row.qty = mine[t].qty /\ row.price = mine[t].price
  BY <1>1 DEF Ready, Confirmed, Row, Statuses
<1> QED
  BY <1>1, <1>2 DEF Ready, Priced

\* The customer is locked; no limit ends the hook.
LEMMA LockCustomerStep ==
    ASSUME SalesInv, NEW t \in Txns, LockCustomer(t)
    PROVE  SalesInv'
BY ConfirmsNext, WorkStep DEF LockCustomer, Continue, SalesInv, TypeOK, Holding

\* The exposure is within the limit, or the confirmation is refused.
LEMMA CheckLimitStep ==
    ASSUME SalesInv, NEW t \in Txns, CheckLimit(t)
    PROVE  SalesInv'
<1> DEFINE over == Exposure(mine[t].customer) + mine[t].total > limit[mine[t].customer] + Grace
<1>1. pc[t] = "limit" /\ IF over THEN Refuse(t) ELSE Continue(t, Confirmed(mine[t]), "commit")
  BY DEF CheckLimit
<1> HIDE DEF over
<1> QED
  BY <1>1, ConfirmsNext, RefuseStep, WorkStep DEF Continue, SalesInv, TypeOK, Holding

\* A shipment reads its cost and changes the status only.
LEMMA ShipStep ==
    ASSUME SalesInv, NEW t \in Txns, Ship(t)
    PROVE  SalesInv'
<1> DEFINE row == [mine[t] EXCEPT !.status = "SHIPPED"]
           request == [req[t] EXCEPT !.cost = standardCost]
<1>1. pc[t] = "products" /\ req[t].kind = "ship" /\ req[t] \in Request /\ standardCost \in Nat
  BY DEF Ship, At, SalesInv, TypeOK
<1>2. row \in Row /\ row.number = mine[t].number
  BY <1>1, ProductsRow DEF Row, Statuses
<1>3. Ready("ship", order[req[t].order], row, "commit")
  BY <1>1, <1>2, ProductsRow DEF Ready, Admits
<1>4. request \in Request /\ request.kind = req[t].kind /\ request.order = req[t].order
  BY <1>1 DEF Request
<1>5. /\ mine' = [mine EXCEPT ![t] = row] /\ req' = [req EXCEPT ![t] = request]
      /\ Goto(t, "commit") /\ UNCHANGED <<Stored, Masterdata>>
  BY DEF Ship
<1> HIDE DEF row, request
<1>6. /\ req' \in [Txns -> Request]
      /\ \A u \in Txns : req'[u].kind = req[u].kind /\ req'[u].order = req[u].order
  BY <1>4, <1>5 DEF SalesInv, TypeOK
<1> QED
  BY <1>1, <1>3, <1>5, <1>6, WorkStep DEF Holding

\* A cancellation changes the status only.
LEMMA CancelStep ==
    ASSUME SalesInv, NEW t \in Txns, Cancel(t)
    PROVE  SalesInv'
<1> DEFINE row == [mine[t] EXCEPT !.status = "CANCELLED"]
<1>1. pc[t] = "products" /\ req[t].kind = "cancel"
  BY DEF Cancel, At
<1>2. row \in Row /\ row.number = mine[t].number
  BY <1>1, ProductsRow DEF Row, Statuses
<1>3. Ready("cancel", order[req[t].order], row, "commit")
  BY <1>1, <1>2, ProductsRow DEF Ready
<1> QED
  BY <1>1, <1>3, WorkStep DEF Cancel, Continue, SalesInv, TypeOK, Holding

--------------------------------------------------------------------------------
(* The commit. *)

\* What is committed: a new order, or the locked one moved along its lifecycle
\* with its terms kept, unless it was a draft.
LEMMA CommittedRow ==
    ASSUME SalesInv, NEW t \in Txns, pc[t] = "commit"
    PROVE  /\ req[t].order \in Orders /\ mine[t] \in Row
           /\ IF req[t].kind = "create"
              THEN order[req[t].order] = NoOrder /\ mine[t].status = "DRAFT"
                   /\ mine[t].number = nextNo
              ELSE Ready(req[t].kind, order[req[t].order], mine[t], "commit")
BY DEF SalesInv, CreatesAlone, Works, Numbered, At, Ready, Holding

\* The types, and the facts about the other requests.
LEMMA CommitKeepsRequests ==
    ASSUME SalesInv, NEW t \in Txns, Commit(t)
    PROVE  TypeOK' /\ CreatesAlone' /\ Numbered' /\ Works'
<1> USE DEF SalesInv, Commit, Goto, Masterdata
<1> DEFINE o == req[t].order
<1>1. /\ o \in Orders /\ mine[t] \in Row /\ mine[t].number \in Nat
      /\ req[t].kind = "create" => mine[t].number = nextNo
      /\ req[t].kind # "create" => /\ order[o] \in Row /\ order[o] # NoOrder
                                   /\ mine[t].number = order[o].number
  BY CommittedRow, FirstOrdersAssumption DEF Ready, Row
<1>2. /\ order' \in [Orders -> Row \cup {NoOrder}]
      /\ order'[o] = mine[t] /\ \A x \in Orders \ {o} : order'[x] = order[x]
  BY <1>1 DEF TypeOK
<1>3. nextNo' \in Nat
  BY <1>1 DEF TypeOK
<1>4. TypeOK'
  BY <1>2, <1>3 DEF TypeOK
<1>5. ASSUME NEW u \in Txns, u # t, pc[u] \in Holding \/ (pc[u] = "number" /\ req[u].kind = "create")
      PROVE  req[u].order # o
  BY <1>5 DEF Works, CreatesAlone, Holding
<1>6. CreatesAlone'
  BY <1>2, <1>5 DEF TypeOK, CreatesAlone, Holding
<1>7. Numbered'
  <2>1. ASSUME NEW x \in Orders, order'[x] # NoOrder
        PROVE  order'[x].number < nextNo'
    <3>1. CASE x = o
      BY <1>1, <1>2, <3>1 DEF Numbered, TypeOK
    <3>2. CASE x # o
      <4>1. order[x] \in Row /\ order[x].number \in Nat /\ order[x].number < nextNo
        BY <1>2, <2>1, <3>2 DEF Numbered, TypeOK, Row
      <4> QED
        BY <1>1, <1>2, <3>2, <4>1 DEF TypeOK
    <3> QED
      BY <3>1, <3>2
  <2>2. ASSUME NEW u \in Txns, NEW v \in Txns, At(u, "commit", "create")', At(v, "commit", "create")'
        PROVE  u = v /\ mine'[u].number = nextNo'
    <3>1. At(u, "commit", "create") /\ At(v, "commit", "create") /\ u # t /\ v # t
      BY <2>2 DEF At, TypeOK
    <3>2. req[t].kind # "create"
      BY <3>1 DEF Numbered, At
    <3> QED
      BY <3>1, <3>2 DEF Numbered, TypeOK
  <2> QED
    BY <2>1, <2>2 DEF Numbered
<1>8. Works'
  <2>1. ASSUME NEW u \in Txns, pc'[u] = "order"
        PROVE  /\ req'[u].kind \in Edits /\ req'[u].order \in Orders
               /\ order'[req'[u].order] # NoOrder
    BY <1>1, <1>2, <2>1, FirstOrdersAssumption DEF TypeOK, Works
  <2>2. ASSUME NEW u \in Txns, pc'[u] \in Holding, req'[u].kind # "create"
        PROVE  req'[u].order \in Orders
               /\ Ready(req'[u].kind, order'[req'[u].order], mine'[u], pc'[u])
    BY <1>2, <1>5, <2>2 DEF TypeOK, Works, Holding
  <2> QED
    BY <2>1, <2>2 DEF TypeOK, Works, Holding
<1> QED
  BY <1>4, <1>6, <1>7, <1>8

\* An order that is committed in the run and no draft keeps what its events say.
LEMMA TermsKept ==
    ASSUME SalesInv, NEW t \in Txns, pc[t] = "commit", order[req[t].order] # NoOrder,
           order[req[t].order].status # "DRAFT"
    PROVE  /\ order[req[t].order].status = "CONFIRMED"
           /\ \/ /\ req[t].kind = "ship"
                 /\ mine[t] = [order[req[t].order] EXCEPT !.status = "SHIPPED"]
              \/ /\ req[t].kind = "cancel"
                 /\ mine[t] = [order[req[t].order] EXCEPT !.status = "CANCELLED"]
BY CommittedRow DEF Ready, Admits, Edits

\* The same, of the fields of the row.
LEMMA FieldsKept ==
    ASSUME SalesInv, NEW t \in Txns, pc[t] = "commit", order[req[t].order] # NoOrder,
           order[req[t].order].status # "DRAFT"
    PROVE  /\ order[req[t].order].status = "CONFIRMED"
           /\ mine[t].qty = order[req[t].order].qty
           /\ mine[t].price = order[req[t].order].price
           /\ mine[t].total = order[req[t].order].total
           /\ \/ req[t].kind = "ship" /\ mine[t].status = "SHIPPED"
              \/ req[t].kind = "cancel" /\ mine[t].status = "CANCELLED"
<1>1. order[req[t].order] \in Row
  BY CommittedRow DEF Ready
<1> QED
  BY <1>1, TermsKept DEF Row

\* The event of a commit is about its order, as it is committed.
LEMMA EventCommitted ==
    ASSUME SalesInv, NEW t \in Txns, pc[t] = "commit", NEW e \in Events(t)
    PROVE  /\ e \in [type : {"confirm", "ship"}, order : Orders, qty : Nat,
                     amount : Nat, by : Txns]
           /\ e.type = req[t].kind /\ e.order = req[t].order /\ e.qty = mine[t].qty
           /\ e.type = "confirm" => e.amount = mine[t].total
<1>1. /\ req[t].order \in Orders /\ mine[t].qty \in Nat /\ mine[t].total \in Nat
      /\ req[t].cost \in Nat
  BY CommittedRow DEF SalesInv, TypeOK, Request, Row
<1>2. mine[t].qty * req[t].cost \in Nat
  BY <1>1, TotalType
<1>3. Quoted(t) \in Nat /\ (req[t].kind = "confirm" => Quoted(t) = mine[t].total)
  BY <1>1, <1>2 DEF Quoted
<1> HIDE DEF Quoted
<1> QED
  BY <1>1, <1>3 DEF Events

\* A confirmation and a shipment have one.
LEMMA EventMade ==
    ASSUME NEW t \in Txns, req[t].kind \in {"confirm", "ship"}
    PROVE  \E e \in Events(t) : e.type = req[t].kind /\ e.order = req[t].order
<1> DEFINE e == [type |-> req[t].kind, order |-> req[t].order, qty |-> mine[t].qty,
                 amount |-> Quoted(t), by |-> t]
<1>1. e \in Events(t)
  BY DEF Events
<1> QED
  BY <1>1

\* What a commit leaves: one row, and what it adds to the outbox.
LEMMA CommitChanges ==
    ASSUME SalesInv, NEW t \in Txns, Commit(t)
    PROVE  /\ pc[t] = "commit" /\ outbox' = outbox \cup Events(t)
           /\ req[t].order \in Orders
           /\ order'[req[t].order] = mine[t] /\ mine[t] \in Row /\ mine[t] # NoOrder
           /\ \A x \in Orders \ {req[t].order} : order'[x] = order[x]
BY CommittedRow, FirstOrdersAssumption DEF Commit, SalesInv, TypeOK

\* The outbox is still true of the orders.
LEMMA CommitKeepsEvents ==
    ASSUME SalesInv, NEW t \in Txns, Commit(t)
    PROVE  EventsTrue'
<1> DEFINE o == req[t].order
<1>0. pc[t] = "commit"
  BY CommitChanges
<1>1. ASSUME NEW e \in outbox
      PROVE  /\ order'[e.order] # NoOrder /\ e.qty = order'[e.order].qty
             /\ e.type = "confirm" =>
                   order'[e.order].status # "DRAFT" /\ e.amount = order'[e.order].total
             /\ e.type = "ship" => order'[e.order].status = "SHIPPED" /\ ~ShippedBefore(e.order)
             /\ e.order = o => e.type # req[t].kind
  <2>1. /\ e.order \in Orders /\ e.type \in {"confirm", "ship"}
        /\ order[e.order] # NoOrder /\ e.qty = order[e.order].qty
        /\ e.type = "confirm" =>
              order[e.order].status # "DRAFT" /\ e.amount = order[e.order].total
        /\ e.type = "ship" => order[e.order].status = "SHIPPED" /\ ~ShippedBefore(e.order)
    BY DEF SalesInv, EventsTrue
  <2>2. CASE e.order = o
    BY <1>0, <2>1, <2>2, CommitChanges, FieldsKept
  <2>3. CASE e.order # o
    BY <2>1, <2>3, CommitChanges
  <2> QED
    BY <2>2, <2>3
<1>2. ASSUME NEW e \in Events(t)
      PROVE  /\ e.type = req[t].kind /\ e.order = o /\ e.qty = mine[t].qty
             /\ order'[o] # NoOrder
             /\ e.type = "confirm" => mine[t].status # "DRAFT" /\ e.amount = mine[t].total
             /\ e.type = "ship" => mine[t].status = "SHIPPED" /\ ~ShippedBefore(o)
  <2>1. e.type = req[t].kind /\ e.type \in {"confirm", "ship"} /\ e.order = o
    BY <1>0, EventCommitted
  <2>2. Ready(req[t].kind, order[o], mine[t], "commit")
    BY <1>0, <2>1, CommittedRow
  <2>3. CASE e.type = "confirm"
    BY <1>0, <2>1, <2>2, <2>3, EventCommitted, CommitChanges DEF Ready
  <2>4. CASE e.type = "ship"
    <3>1. mine[t] = [order[o] EXCEPT !.status = "SHIPPED"] /\ order[o] \in Row
          /\ order[o].status = "CONFIRMED"
      BY <2>1, <2>2, <2>4 DEF Ready, Admits
    <3>2. mine[t].status = "SHIPPED"
      BY <3>1 DEF Row
    <3>3. ~ShippedBefore(o)
      BY <3>1, CommitChanges DEF SalesInv, OrdersTold
    <3> QED
      BY <1>0, <2>1, <2>4, <3>2, <3>3, EventCommitted, CommitChanges
  <2> QED
    BY <2>1, <2>3, <2>4
<1>3. outbox' \subseteq [type : {"confirm", "ship"}, order : Orders, qty : Nat,
                         amount : Nat, by : Txns]
  BY <1>0, EventCommitted, CommitChanges DEF SalesInv, EventsTrue
<1>4. ASSUME NEW e \in outbox', NEW f \in outbox', e.type = f.type, e.order = f.order
      PROVE  e = f
  <2>1. CASE e \in outbox /\ f \in outbox
    BY <1>4, <2>1 DEF SalesInv, EventsTrue
  <2>2. CASE e \in Events(t) /\ f \in Events(t)
    BY <1>4, <2>2 DEF Events
  <2> QED
    BY <1>1, <1>2, <1>4, <2>1, <2>2, CommitChanges
<1> QED
  BY <1>1, <1>2, <1>3, <1>4, CommitChanges DEF EventsTrue, ShippedBefore

\* The orders are still told of in the outbox.
LEMMA CommitKeepsOrders ==
    ASSUME SalesInv, NEW t \in Txns, Commit(t)
    PROVE  OrdersTold'
<1>0. PICK o \in Orders : o = req[t].order /\ pc[t] = "commit"
  BY CommitChanges
<1>1. ASSUME NEW x \in Orders, NEW type
      PROVE  EventsOf(type, x) \subseteq EventsOf(type, x)'
  BY CommitChanges DEF EventsOf
<1>2. ASSUME NEW x \in Orders, x # o
      PROVE  /\ ShippedBefore(x) => order'[x] # NoOrder /\ order'[x].status = "SHIPPED"
             /\ Committed(x)' => /\ Priced(order'[x])
                                 /\ EventsOf("confirm", x)' # {} \/ ConfirmedBefore(x)
             /\ Committed(x)' /\ order'[x].status = "SHIPPED" =>
                   EventsOf("ship", x)' # {} \/ ShippedBefore(x)
  <2>1. order'[x] = order[x]
    BY <1>0, <1>2, CommitChanges
  <2> QED
    BY <1>1, <2>1 DEF SalesInv, OrdersTold, Committed
<1>3. ~ShippedBefore(o)
  <2>1. SUFFICES ASSUME ShippedBefore(o) PROVE FALSE
    OBVIOUS
  <2>2. order[o] # NoOrder /\ order[o].status = "SHIPPED"
    BY <1>0, <2>1 DEF SalesInv, OrdersTold
  <2> QED
    BY <1>0, <2>2, FieldsKept
<1>4. ASSUME Committed(o)'
      PROVE  /\ Priced(order'[o]) /\ (EventsOf("confirm", o)' # {} \/ ConfirmedBefore(o))
             /\ order'[o].status = "SHIPPED" => EventsOf("ship", o)' # {}
  <2>1. order'[o] = mine[t] /\ mine[t].status \in {"CONFIRMED", "SHIPPED"}
    BY <1>0, <1>4, CommitChanges DEF Committed
  <2>2. Ready(req[t].kind, order[o], mine[t], "commit")
    BY <1>0, <2>1, CommittedRow
  <2>3. CASE req[t].kind = "confirm"
    <3>1. mine[t].status = "CONFIRMED" /\ Priced(mine[t])
      BY <2>2, <2>3 DEF Ready
    <3>2. EventsOf("confirm", o)' # {}
      BY <1>0, <2>3, CommitChanges, EventMade DEF EventsOf
    <3> QED
      BY <2>1, <3>1, <3>2
  <2>4. CASE req[t].kind = "ship"
    <3>1. order[o] \in Row /\ order[o].status = "CONFIRMED" /\ order[o] # NoOrder
      BY <2>2, <2>4, FirstOrdersAssumption DEF Ready, Admits
    <3>2. Priced(order[o]) /\ (EventsOf("confirm", o) # {} \/ ConfirmedBefore(o))
      BY <1>0, <3>1 DEF SalesInv, OrdersTold, Committed
    <3>3. Priced(mine[t])
      BY <1>0, <3>1, <3>2, FieldsKept DEF Priced
    <3>4. EventsOf("ship", o)' # {}
      BY <1>0, <2>4, CommitChanges, EventMade DEF EventsOf
    <3> QED
      BY <1>0, <1>1, <2>1, <3>2, <3>3, <3>4
  <2>5. CASE req[t].kind \notin {"confirm", "ship"}
    <3>1. mine[t].status = "DRAFT" \/ mine[t] = [order[o] EXCEPT !.status = "CANCELLED"]
      BY <2>2, <2>5 DEF Ready, Edits
    <3>2. order[o] \in Row
      BY <2>2 DEF Ready
    <3> QED
      BY <2>1, <3>1, <3>2 DEF Row
  <2> QED
    BY <2>3, <2>4, <2>5
<1>5. ASSUME NEW x \in Orders
      PROVE  /\ ShippedBefore(x) => order'[x] # NoOrder /\ order'[x].status = "SHIPPED"
             /\ Committed(x)' => /\ Priced(order'[x])
                                 /\ EventsOf("confirm", x)' # {} \/ ConfirmedBefore(x)
             /\ Committed(x)' /\ order'[x].status = "SHIPPED" =>
                   EventsOf("ship", x)' # {} \/ ShippedBefore(x)
  BY <1>2, <1>3, <1>4
<1> QED
  BY <1>5 DEF OrdersTold, ShippedBefore, ConfirmedBefore, Priced

--------------------------------------------------------------------------------
(* The steps of Next, and the theorems. *)

\* Prices, costs, limits and invoices move under the requests' feet.
LEMMA ElsewhereStep ==
    ASSUME SalesInv, Elsewhere
    PROVE  SalesInv'
<1> USE DEF SalesInv
<1>1. UNCHANGED <<Stored, pc, req, mine>>
  BY DEF Elsewhere, SetPrice, SetCost, SetLimit, Invoice, Settle, VoidInvoice
<1>2. TypeOK'
  <2>1. listPrice' \in Nat /\ standardCost' \in Nat
    BY SalesAssumption
    DEF TypeOK, Elsewhere, SetPrice, SetCost, SetLimit, Invoice, Settle, VoidInvoice, Masterdata
  <2> QED
    BY <1>1, <2>1 DEF TypeOK, Stored
<1>3. CreatesAlone' /\ Numbered' /\ Works'
  BY <1>1 DEF CreatesAlone, Numbered, Works, At, Stored
<1> QED
  BY <1>1, <1>2, <1>3, StoredUnchanged

\* Every step keeps the invariant.
LEMMA NextInv == SalesInv /\ [Next]_vars => SalesInv'
<1> SUFFICES ASSUME SalesInv, [Next]_vars PROVE SalesInv'
  OBVIOUS
<1>1. ASSUME NEW t \in Txns, BeginRequest(t) PROVE SalesInv'
  <2>1. ASSUME NEW o \in Orders, NEW c \in Customers, NEW q \in Quantities, NEW p \in Overrides,
               BeginCreate(t, o, c, q, p)
        PROVE  SalesInv'
    BY <2>1, BeginCreateStep
  <2>2. ASSUME NEW o \in Orders, NEW q \in Quantities, NEW p \in Overrides,
               Begin(t, "update", o, q, p)
        PROVE  SalesInv'
    BY <2>2, BeginStep, SalesAssumption DEF Edits
  <2>3. ASSUME NEW o \in Orders, NEW kind \in {"confirm", "ship", "cancel"},
               Begin(t, kind, o, 0, NoOverride)
        PROVE  SalesInv'
    BY <2>3, BeginStep DEF Edits, Overrides
  <2> QED
    BY <1>1, <2>1, <2>2, <2>3 DEF BeginRequest
<1>2. ASSUME NEW t \in Txns, Commit(t) PROVE SalesInv'
  BY <1>2, CommitKeepsRequests, CommitKeepsEvents, CommitKeepsOrders DEF SalesInv
<1>3. ASSUME NEW t \in Txns, Advance(t) PROVE SalesInv'
  BY <1>2, <1>3, AllocateStep, LockOrderStep, EditLinesStep, RepriceStep, LockCustomerStep,
     CheckLimitStep, ShipStep, CancelStep DEF Advance
<1>4. ASSUME NEW t \in Txns, Rollback(t) PROVE SalesInv'
  BY <1>4, RefuseStep DEF Rollback
<1>5. CASE UNCHANGED vars
  <2>1. UNCHANGED <<Stored, order, nextNo, listPrice, standardCost, pc, req, mine>>
    BY <1>5 DEF vars, Stored, Masterdata
  <2>2. TypeOK' /\ CreatesAlone' /\ Numbered' /\ Works'
    BY <2>1 DEF SalesInv, TypeOK, CreatesAlone, Numbered, Works, At
  <2> QED
    BY <2>1, <2>2, StoredUnchanged DEF SalesInv
<1> QED
  BY <1>1, <1>3, <1>4, <1>5, ElsewhereStep DEF Next, Finished

\* Only a commit changes an order, and one order only.
LEMMA OneCommits ==
    ASSUME SalesInv, [Next]_vars
    PROVE  UNCHANGED order \/ \E t \in Txns : Commit(t)
<1>1. \A t \in Txns : BeginRequest(t) \/ Rollback(t) => UNCHANGED order
  BY DEF BeginRequest, BeginCreate, Begin, Rollback, Refuse, Stored
<1>2. \A t \in Txns : Advance(t) => Commit(t) \/ UNCHANGED order
  BY DEF Advance, Refuse, Continue, Stored, AllocateOrderNo, LockOrder, EditLines, Reprice,
         LockCustomer, CheckLimit, Ship, Cancel
<1>3. Elsewhere \/ Finished \/ UNCHANGED vars => UNCHANGED order
  BY DEF Elsewhere, Finished, vars, Stored, SetPrice, SetCost, SetLimit, Invoice, Settle,
         VoidInvoice
<1> QED
  BY <1>1, <1>2, <1>3 DEF Next

\* SalesInv is an invariant: each lock has one holder, who works on the row as it
\* is committed, and the outbox and the orders tell the same.
THEOREM SalesInductive == Spec => []SalesInv
<1> QED
  BY InitInv, NextInv, PTL DEF Spec

\* No two creations are given the same number, nor one that an order has.
THEOREM NumbersUnique == Spec => []NumbersNeverClash
<1>1. SalesInv => NumbersNeverClash
  <2> SUFFICES ASSUME SalesInv, NEW t \in Txns, At(t, "commit", "create"),
                      NEW o \in Orders, order[o] # NoOrder
               PROVE  order[o].number # mine[t].number
    BY DEF NumbersNeverClash
  <2>1. order[o].number < nextNo /\ mine[t].number = nextNo /\ nextNo \in Nat
    BY DEF SalesInv, Numbered, TypeOK
  <2>2. order[o].number \in Nat
    BY DEF SalesInv, TypeOK, Row
  <2> QED
    BY <2>1, <2>2
<1> QED
  BY <1>1, SalesInductive, PTL

\* One event for each confirmation and shipment that committed, and it quotes the
\* order as it stands.
THEOREM EventsTold == Spec => []EventsMatchOrders
<1>1. SalesInv => EventsMatchOrders
  <2> SUFFICES ASSUME SalesInv, NEW o \in Orders
               PROVE  LET confirmations == EventsOf("confirm", o)
                          shipments == EventsOf("ship", o) IN
        /\ Cardinality(confirmations) <= 1 /\ Cardinality(shipments) <= 1
        /\ (shipments # {}) <=>
              (order[o] # NoOrder /\ order[o].status = "SHIPPED" /\ ~ShippedBefore(o))
        /\ confirmations # {} =>
              order[o].status \in {"CONFIRMED", "SHIPPED", "CANCELLED"}
        /\ Committed(o) => confirmations # {} \/ ConfirmedBefore(o)
        /\ Committed(o) => order[o].total = order[o].qty * order[o].price /\ order[o].total > 0
        /\ \A e \in confirmations : e.amount = order[o].total
        /\ \A e \in confirmations \cup shipments : e.qty = order[o].qty
    BY DEF EventsMatchOrders
  <2>1. ASSUME NEW type \in {"confirm", "ship"}
        PROVE  Cardinality(EventsOf(type, o)) <= 1
    <3>1. CASE EventsOf(type, o) = {}
      BY <3>1, FS_EmptySet
    <3>2. CASE EventsOf(type, o) # {}
      <4>1. PICK e : e \in EventsOf(type, o)
        BY <3>2
      <4>2. \A f \in outbox : f.type = type /\ f.order = o => f = e
        BY <4>1 DEF EventsOf, SalesInv, EventsTrue
      <4>3. EventsOf(type, o) = {e}
        BY <4>1, <4>2 DEF EventsOf
      <4> QED
        BY <4>3, FS_Singleton
    <3> QED
      BY <3>1, <3>2
  <2>2. ASSUME NEW e \in EventsOf("confirm", o)
        PROVE  /\ order[o] # NoOrder /\ order[o].status # "DRAFT"
               /\ e.amount = order[o].total /\ e.qty = order[o].qty
    BY DEF EventsOf, SalesInv, EventsTrue
  <2>3. ASSUME NEW e \in EventsOf("ship", o)
        PROVE  /\ order[o] # NoOrder /\ order[o].status = "SHIPPED" /\ ~ShippedBefore(o)
               /\ e.qty = order[o].qty
    BY DEF EventsOf, SalesInv, EventsTrue
  <2>4. order[o] # NoOrder => order[o].status \in Statuses
    BY DEF SalesInv, TypeOK, Row
  <2>5. /\ Committed(o) => Priced(order[o]) /\ (EventsOf("confirm", o) # {} \/ ConfirmedBefore(o))
        /\ Committed(o) /\ order[o].status = "SHIPPED" =>
              EventsOf("ship", o) # {} \/ ShippedBefore(o)
    BY DEF SalesInv, OrdersTold
  <2> QED
    BY <2>1, <2>2, <2>3, <2>4, <2>5 DEF Committed, Priced, Statuses
<1> QED
  BY <1>1, SalesInductive, PTL

\* An order moves along its lifecycle only, with its terms frozen once confirmed.
THEOREM Frozen == Spec => OrderFrozen
<1> DEFINE Moves ==
      \A o \in Orders : order[o] # NoOrder /\ order'[o] # order[o] =>
          /\ order'[o] # NoOrder
          /\ <<order[o].status, order'[o].status>> \in Lifecycle
          /\ order[o].status # "DRAFT" => Terms(order'[o]) = Terms(order[o])
<1>1. SalesInv /\ [Next]_vars => Moves
  <2> SUFFICES ASSUME SalesInv, [Next]_vars, NEW o \in Orders,
                      order[o] # NoOrder, order'[o] # order[o]
               PROVE  /\ order'[o] # NoOrder
                      /\ <<order[o].status, order'[o].status>> \in Lifecycle
                      /\ order[o].status # "DRAFT" => Terms(order'[o]) = Terms(order[o])
    OBVIOUS
  <2>1. PICK t \in Txns : Commit(t)
    BY OneCommits
  <2>2. /\ pc[t] = "commit" /\ o = req[t].order /\ order'[o] = mine[t] /\ mine[t] # NoOrder
    BY <2>1, CommitChanges
  <2>3. Ready(req[t].kind, order[o], mine[t], "commit")
    BY <2>2, CommittedRow
  <2>4. CASE order[o].status = "DRAFT"
    <3>1. mine[t].status \in {"DRAFT", "CONFIRMED", "CANCELLED"}
      BY <2>3, <2>4 DEF Ready, Edits, Admits, Row
    <3> QED
      BY <2>2, <2>4, <3>1 DEF Lifecycle
  <2>5. CASE order[o].status # "DRAFT"
    <3>1. order[o].status = "CONFIRMED" /\ mine[t].status \in {"SHIPPED", "CANCELLED"}
      BY <2>2, <2>5, FieldsKept
    <3>2. Terms(mine[t]) = Terms(order[o])
      BY <2>2, <2>3, <2>5, TermsKept DEF Terms, Ready, Row
    <3> QED
      BY <2>2, <3>1, <3>2 DEF Lifecycle
  <2> QED
    BY <2>4, <2>5
<1>2. Spec => [][Moves]_vars
  BY <1>1, SalesInductive, PTL DEF Spec
<1> QED
  BY <1>2, PTL DEF OrderFrozen
--------------------------------------------------------------------------------
(* The credit limit. *)

\* What a customer owes of an order is a natural number.
LEMMA OwedType ==
    ASSUME SalesInv, Billed, NEW o \in Orders, Committed(o)
    PROVE  Owed(o) \in Nat
<1>1. order[o] \in Row /\ order[o].total \in Nat
  BY DEF SalesInv, TypeOK, Committed, Row
<1>2. settled[o] \in Nat /\ (settled[o] # 0 => settled[o] = order[o].total)
  BY DEF Billed
<1> QED
  BY <1>1, <1>2 DEF Owed

\* An exposure is a natural number, and what a step leaves of it is no more unless
\* it adds an order or to what is owed of one.
LEMMA ExposureFalls ==
    ASSUME NEW c, \A o \in OrdersOf(c) : Owed(o) \in Nat,
           \A o \in OrdersOf(c)' : o \in OrdersOf(c) /\ Owed(o)' \in Nat /\ Owed(o)' <= Owed(o)
    PROVE  Exposure(c)' <= Exposure(c) /\ Exposure(c)' \in Int /\ Exposure(c) \in Int
<1> DEFINE f == [o \in OrdersOf(c) |-> Owed(o)]
           g == [o \in OrdersOf(c)' |-> Owed(o)']
<1>1. IsFiniteSet(OrdersOf(c)) /\ IsFiniteSet(OrdersOf(c)')
  <2>1. OrdersOf(c) \subseteq Orders /\ OrdersOf(c)' \subseteq Orders
    BY DEF OrdersOf
  <2> QED
    BY <2>1, FirstOrdersAssumption, FS_Subset
<1>2. f \in [OrdersOf(c) -> Nat] /\ g \in [OrdersOf(c)' -> Nat]
  OBVIOUS
<1>3. OrdersOf(c)' \in SUBSET OrdersOf(c)
  OBVIOUS
<1>4. Below(g, f, OrdersOf(c)')
  BY DEF Below
<1>5. SumFunction(g) <= SumFunction(f)
  BY <1>1, <1>2, <1>3, <1>4, SumAtMost
<1>6. f \in [OrdersOf(c) -> Int] /\ g \in [OrdersOf(c)' -> Int]
  BY <1>2
<1>7. SumFunction(g) \in Int /\ SumFunction(f) \in Int
  BY <1>1, <1>6, SumInt
<1>8. Exposure(c) = SumFunction(f) /\ Exposure(c)' = SumFunction(g)
  BY DEF Exposure
<1> QED
  BY <1>5, <1>7, <1>8

\* With one order more, it grows by what is owed of that.
LEMMA ExposureGrows ==
    ASSUME NEW c, \A o \in OrdersOf(c) : Owed(o) \in Nat, NEW x \in OrdersOf(c)', Owed(x)' \in Nat,
           \A o \in OrdersOf(c)' \ {x} :
              o \in OrdersOf(c) /\ Owed(o)' \in Nat /\ Owed(o)' <= Owed(o)
    PROVE  Exposure(c)' <= Exposure(c) + Owed(x)' /\ Exposure(c)' \in Int /\ Exposure(c) \in Int
<1> DEFINE f == [o \in OrdersOf(c) |-> Owed(o)]
           g == [o \in OrdersOf(c)' |-> Owed(o)']
<1>1. IsFiniteSet(OrdersOf(c)) /\ IsFiniteSet(OrdersOf(c)')
  <2>1. OrdersOf(c) \subseteq Orders /\ OrdersOf(c)' \subseteq Orders
    BY DEF OrdersOf
  <2> QED
    BY <2>1, FirstOrdersAssumption, FS_Subset
<1>2. f \in [OrdersOf(c) -> Nat] /\ g \in [OrdersOf(c)' -> Nat] /\ g[x] = Owed(x)'
  OBVIOUS
<1>3. OrdersOf(c)' \ {x} \subseteq OrdersOf(c)
  OBVIOUS
<1>4. Below(g, f, OrdersOf(c)' \ {x})
  BY DEF Below
<1>5. SumFunction(g) <= SumFunction(f) + g[x]
  BY <1>1, <1>2, <1>3, <1>4, SumAtMostWith
<1>6. f \in [OrdersOf(c) -> Int] /\ g \in [OrdersOf(c)' -> Int]
  BY <1>2
<1>7. SumFunction(g) \in Int /\ SumFunction(f) \in Int
  BY <1>1, <1>6, SumInt
<1>8. Exposure(c) = SumFunction(f) /\ Exposure(c)' = SumFunction(g)
  BY DEF Exposure
<1> QED
  BY <1>2, <1>5, <1>7, <1>8

\* Only what happens elsewhere changes an invoice or a limit.
LEMMA RequestsBillNothing ==
    ASSUME NEW t \in Txns, BeginRequest(t) \/ Advance(t) \/ Rollback(t)
    PROVE  UNCHANGED <<limit, invoiced, settled>>
<1>1. BeginRequest(t) \/ Rollback(t) => UNCHANGED <<limit, invoiced, settled>>
  BY DEF BeginRequest, BeginCreate, Begin, Rollback, Refuse, Masterdata, Billing
<1>2. Advance(t) => UNCHANGED <<limit, invoiced, settled>>
  BY DEF Advance, Refuse, Continue, AllocateOrderNo, LockOrder, EditLines, Reprice,
         LockCustomer, CheckLimit, Ship, Cancel, Commit, Masterdata, Billing
<1> QED
  BY <1>1, <1>2

\* The order of a request about to commit is not invoiced.
LEMMA UnbilledYet ==
    ASSUME SalesInv, Billed, NEW t \in Txns, pc[t] = "commit"
    PROVE  req[t].order \in Orders /\ req[t].order \notin invoiced /\ settled[req[t].order] = 0
<1> DEFINE o == req[t].order
<1>1. o \in Orders
  BY CommittedRow
<1>2. ~(order[o] # NoOrder /\ order[o].status = "SHIPPED")
  BY FieldsKept
<1> QED
  BY <1>1, <1>2 DEF Billed

\* Invoices are of shipped orders, and paid whole.
LEMMA BilledStep ==
    ASSUME SalesInv, Billed, [Next]_vars
    PROVE  Billed'
<1>1. ASSUME NEW t \in Txns, Commit(t) PROVE Billed'
  <2>1. UNCHANGED <<limit, invoiced, settled>>
    BY <1>1 DEF Commit, Masterdata, Billing
  <2>2. /\ req[t].order \notin invoiced /\ settled[req[t].order] = 0
        /\ \A x \in Orders \ {req[t].order} : order'[x] = order[x]
    BY <1>1, CommitChanges, UnbilledYet
  <2> QED
    BY <2>1, <2>2 DEF Billed
<1>2. ASSUME UNCHANGED order, Elsewhere PROVE Billed'
  <2>1. CASE SetPrice \/ SetCost
    BY <1>2, <2>1 DEF SetPrice, SetCost, Billing, Billed
  <2>2. CASE \E c \in Customers : SetLimit(c)
    BY <1>2, <2>2, SalesAssumption DEF SetLimit, Billing, Billed
  <2>3. CASE \E o \in Orders : Invoice(o) \/ VoidInvoice(o)
    BY <1>2, <2>3 DEF Invoice, VoidInvoice, Masterdata, Billed
  <2>4. ASSUME NEW o \in Orders, Settle(o) PROVE Billed'
    <3>1. order[o].total \in Nat
      BY <2>4 DEF Settle, Billed, SalesInv, TypeOK, Row
    <3> QED
      BY <1>2, <2>4, <3>1 DEF Settle, Masterdata, Billed
  <2> QED
    BY <1>2, <2>1, <2>2, <2>3, <2>4 DEF Elsewhere
<1>3. ASSUME UNCHANGED order, UNCHANGED <<limit, invoiced, settled>> PROVE Billed'
  BY <1>3 DEF Billed
<1>4. Finished \/ UNCHANGED vars => UNCHANGED <<limit, invoiced, settled>>
  BY DEF Finished, vars, Masterdata, Billing
<1> QED
  BY <1>1, <1>2, <1>3, <1>4, OneCommits, RequestsBillNothing DEF Next

\* Nothing that happens elsewhere adds to what a customer owes.
LEMMA ElsewhereOwed ==
    ASSUME SalesInv, Billed, Elsewhere, NEW o \in Orders, Committed(o)
    PROVE  Owed(o)' \in Nat /\ Owed(o)' <= Owed(o) /\ order'[o] = order[o]
<1>1. order[o].total \in Nat /\ order' = order
  BY DEF SalesInv, TypeOK, Committed, Row, Elsewhere, SetPrice, SetCost, SetLimit, Invoice,
         Settle, VoidInvoice, Stored
<1>2. /\ settled[o] \in Nat /\ (settled[o] # 0 => settled[o] = order[o].total)
      /\ (o \notin invoiced => settled[o] = 0) /\ settled \in [Orders -> Nat]
  BY DEF Billed
<1>3. CASE UNCHANGED Billing
  BY <1>1, <1>2, <1>3 DEF Owed, Billing
<1>4. ASSUME NEW x \in Orders, Invoice(x) \/ Settle(x) \/ VoidInvoice(x)
      PROVE  Owed(o)' \in Nat /\ Owed(o)' <= Owed(o)
  BY <1>1, <1>2, <1>4 DEF Invoice, Settle, VoidInvoice, Owed
<1> QED
  BY <1>1, <1>3, <1>4 DEF Elsewhere, SetPrice, SetCost, SetLimit

\* A commit leaves what is owed of a confirmed order, or cancels it.
LEMMA CommitOwed ==
    ASSUME SalesInv, Billed, NEW t \in Txns, Commit(t), NEW o \in Orders, Committed(o)
    PROVE  /\ Owed(o)' = Owed(o)
           /\ Committed(o)' => order'[o].customer = order[o].customer
<1>1. UNCHANGED <<invoiced, settled>> /\ pc[t] = "commit"
  BY DEF Commit, Billing
<1>2. CASE o # req[t].order
  BY <1>1, <1>2, CommitChanges DEF Owed
<1>3. CASE o = req[t].order
  <2>1. order[o] # NoOrder /\ order[o].status # "DRAFT" /\ order[o] \in Row
    BY DEF Committed, SalesInv, TypeOK
  <2>2. order'[o].total = order[o].total /\ order'[o].customer = order[o].customer
    <3>1. mine[t] \in {[order[o] EXCEPT !.status = "SHIPPED"], [order[o] EXCEPT !.status = "CANCELLED"]}
      BY <1>1, <1>3, <2>1, TermsKept
    <3>2. mine[t].total = order[o].total /\ mine[t].customer = order[o].customer
      BY <2>1, <3>1 DEF Row
    <3> QED
      BY <1>3, <3>2, CommitChanges
  <2> QED
    BY <1>1, <2>2 DEF Owed
<1> QED
  BY <1>2, <1>3

\* The exposure of a customer whose row another request has locked does not grow.
LEMMA ExposureStep ==
    ASSUME SalesInv, Billed, WithinLimit, [Next]_vars, NEW c \in Customers,
           \A t \in CustomerHolders(c) : ~Commit(t)
    PROVE  Exposure(c)' <= Exposure(c) /\ Exposure(c)' \in Int /\ Exposure(c) \in Int
<1>1. \A o \in OrdersOf(c) : Owed(o) \in Nat
  BY OwedType DEF OrdersOf
<1>2. ASSUME NEW t \in Txns, Commit(t), NEW o \in OrdersOf(c)'
      PROVE  o \in OrdersOf(c) /\ Owed(o)' \in Nat /\ Owed(o)' <= Owed(o)
  <2>1. o \in Orders /\ Committed(o)' /\ order'[o].customer = c
    BY <1>2 DEF OrdersOf
  <2>2. CASE Committed(o)
    BY <1>1, <1>2, <2>1, <2>2, CommitOwed DEF OrdersOf
  <2>3. CASE ~Committed(o)
    <3>1. o = req[t].order /\ order'[o] = mine[t] /\ pc[t] = "commit"
      BY <1>2, <2>1, <2>3, CommitChanges DEF Committed
    <3>2. mine[t].status \in {"CONFIRMED", "SHIPPED"} /\ mine[t].customer = c
      BY <2>1, <3>1 DEF Committed
    <3>3. Ready(req[t].kind, order[o], mine[t], "commit")
      BY <3>1, <3>2, CommittedRow
    <3>4. req[t].kind = "confirm"
      <4>1. order[o] # NoOrder /\ order[o].status \notin {"CONFIRMED", "SHIPPED"}
        BY <2>3, <3>3, FirstOrdersAssumption DEF Committed, Ready
      <4>2. req[t].kind # "ship"
        BY <3>3, <4>1 DEF Ready, Admits
      <4>3. req[t].kind # "update"
        BY <3>2, <3>3 DEF Ready
      <4>4. req[t].kind # "cancel"
        BY <3>2, <3>3 DEF Ready, Row
      <4> QED
        BY <3>3, <4>2, <4>3, <4>4 DEF Ready, Edits
    <3>5. t \in CustomerHolders(c)
      BY <3>1, <3>2, <3>4 DEF CustomerHolders
    <3> QED
      BY <1>2, <3>5
  <2> QED
    BY <2>2, <2>3
<1>3. ASSUME UNCHANGED order, NEW o \in OrdersOf(c)'
      PROVE  o \in OrdersOf(c) /\ Owed(o)' \in Nat /\ Owed(o)' <= Owed(o)
  <2>1. o \in OrdersOf(c) /\ Committed(o) /\ o \in Orders
    BY <1>3 DEF OrdersOf, Committed
  <2>2. CASE Elsewhere
    BY <2>1, <2>2, ElsewhereOwed
  <2>3. CASE UNCHANGED <<invoiced, settled>>
    <3>1. Owed(o)' = Owed(o) /\ Owed(o) \in Nat
      BY <1>1, <1>3, <2>1, <2>3 DEF Owed
    <3> QED
      BY <2>1, <3>1
  <2>4. Finished \/ UNCHANGED vars => UNCHANGED <<invoiced, settled>>
    BY DEF Finished, vars, Billing
  <2> QED
    BY <2>2, <2>3, <2>4, RequestsBillNothing DEF Next
<1>4. \A o \in OrdersOf(c)' : o \in OrdersOf(c) /\ Owed(o)' \in Nat /\ Owed(o)' <= Owed(o)
  BY <1>2, <1>3, OneCommits
<1> QED
  BY <1>1, <1>4, ExposureFalls
\* What a step of another request leaves to a request, and how it may get to commit.
LEMMA OthersLeave ==
    ASSUME SalesInv, [Next]_vars, NEW t \in Txns, At(t, "commit", "confirm")'
    PROVE  \/ At(t, "commit", "confirm") /\ mine'[t] = mine[t] /\ ~Commit(t)
           \/ LockCustomer(t) \/ CheckLimit(t)
<1> USE DEF SalesInv, TypeOK
<1>1. ASSUME NEW v \in Txns, BeginRequest(v) \/ Advance(v) \/ Rollback(v), v # t
      PROVE  pc'[t] = pc[t] /\ mine'[t] = mine[t] /\ req'[t] = req[t]
  <2>1. BeginRequest(v) => pc'[t] = pc[t] /\ mine'[t] = mine[t] /\ req'[t] = req[t]
    BY <1>1 DEF BeginRequest, BeginCreate, Begin, Goto
  <2>2. Refuse(v) => pc'[t] = pc[t] /\ mine'[t] = mine[t] /\ req'[t] = req[t]
    BY <1>1 DEF Refuse, Goto
  <2>3. \A row, where : Continue(v, row, where) =>
           pc'[t] = pc[t] /\ mine'[t] = mine[t] /\ req'[t] = req[t]
    BY <1>1 DEF Continue, Goto
  <2>4. Ship(v) \/ Commit(v) => pc'[t] = pc[t] /\ mine'[t] = mine[t] /\ req'[t] = req[t]
    BY <1>1 DEF Ship, Commit, Goto
  <2> QED
    BY <1>1, <2>1, <2>2, <2>3, <2>4
    DEF Advance, Rollback, AllocateOrderNo, LockOrder, EditLines, Reprice, LockCustomer,
        CheckLimit, Cancel
<1>2. ASSUME BeginRequest(t) \/ Rollback(t) \/ Commit(t) PROVE FALSE
  BY <1>2 DEF At, BeginRequest, BeginCreate, Begin, Rollback, Refuse, Commit, Goto
<1>3. AllocateOrderNo(t) \/ LockOrder(t) \/ EditLines(t) \/ Reprice(t) \/ Ship(t) \/ Cancel(t)
        => FALSE
  <2>1. AllocateOrderNo(t) => req[t].kind = "create" /\ req' = req
    BY DEF AllocateOrderNo, Continue, Works
  <2>2. LockOrder(t) \/ Reprice(t) => pc'[t] # "commit"
    BY DEF LockOrder, Reprice, Continue, Refuse, Goto
  <2>3. EditLines(t) \/ Cancel(t) => req[t].kind # "confirm" /\ req' = req
    BY DEF EditLines, Cancel, Continue, At
  <2>4. Ship(t) => req'[t].kind = "ship"
    BY DEF Ship, At, Request
  <2> QED
    BY <2>1, <2>2, <2>3, <2>4 DEF At
<1>4. Elsewhere \/ Finished \/ UNCHANGED vars => UNCHANGED <<pc, mine, req, order>>
  BY DEF Elsewhere, Finished, vars, Stored, SetPrice, SetCost, SetLimit, Invoice, Settle,
         VoidInvoice
<1>5. UNCHANGED pc => ~Commit(t)
  BY DEF At, Commit, Goto
<1>6. Commit(t) => FALSE
  BY <1>2
<1> QED
  BY <1>1, <1>2, <1>3, <1>4, <1>6 DEF Next, At, Advance

\* A customer's row is locked by one request at a time.
LEMMA HoldersStep ==
    ASSUME SalesInv, WithinLimit, [Next]_vars, NEW c \in Customers,
           NEW t \in CustomerHolders(c)', NEW u \in CustomerHolders(c)'
    PROVE  t = u
<1>1. ASSUME NEW v \in Txns, LockCustomer(v)
      PROVE  t = u
  <2>1. mine[v] \in Row /\ pc[v] = "customer"
    BY <1>1, ConfirmsNext DEF LockCustomer, Ready
  <2>2. /\ req' = req /\ \A x \in Txns \ {v} : pc'[x] = pc[x] /\ mine'[x] = mine[x]
        /\ mine'[v].customer = mine[v].customer
    BY <1>1, <2>1 DEF LockCustomer, Continue, Goto, Confirmed, Row, SalesInv, TypeOK
  <2>3. CustomerHolders(c)' \subseteq CustomerHolders(c) \cup {v}
    BY <2>2 DEF CustomerHolders
  <2>4. v \in CustomerHolders(c)' => CustomerHolders(c) = {}
    BY <1>1, <2>2 DEF CustomerHolders, LockCustomer
  <2> QED
    BY <2>3, <2>4 DEF WithinLimit
<1>2. ASSUME NEW v \in Txns, BeginRequest(v) \/ (Advance(v) /\ ~LockCustomer(v)) \/ Rollback(v)
      PROVE  CustomerHolders(c)' \subseteq CustomerHolders(c)
  <2>1. \A x \in Txns \ {v} : pc'[x] = pc[x] /\ mine'[x] = mine[x] /\ req'[x] = req[x]
    <3> USE DEF Goto
    <3>1. ASSUME Refuse(v) \/ \E row, where : Continue(v, row, where)
          PROVE  \A x \in Txns \ {v} : pc'[x] = pc[x] /\ mine'[x] = mine[x] /\ req'[x] = req[x]
      BY <3>1 DEF SalesInv, TypeOK, Refuse, Continue
    <3>2. CASE BeginRequest(v) \/ Rollback(v)
      BY <3>1, <3>2 DEF SalesInv, TypeOK, BeginRequest, BeginCreate, Begin, Rollback
    <3>3. CASE AllocateOrderNo(v) \/ LockOrder(v) \/ EditLines(v) \/ Reprice(v)
      BY <3>1, <3>3 DEF AllocateOrderNo, LockOrder, EditLines, Reprice
    <3>4. CASE CheckLimit(v) \/ Ship(v) \/ Cancel(v) \/ Commit(v)
      BY <3>1, <3>4 DEF SalesInv, TypeOK, CheckLimit, Ship, Cancel, Commit
    <3> QED
      BY <1>2, <3>2, <3>3, <3>4 DEF Advance
  <2>2. ASSUME v \in CustomerHolders(c)' PROVE v \in CustomerHolders(c)
    <3>1. ~(BeginRequest(v) \/ Rollback(v))
      BY <2>2 DEF CustomerHolders, SalesInv, TypeOK, BeginRequest, BeginCreate, Begin, Rollback,
                  Refuse, Goto
    <3>2. Advance(v) => CheckLimit(v)
      <4>1. pc'[v] \in {"limit", "commit"} /\ req'[v].kind = "confirm"
        BY <2>2 DEF CustomerHolders
      <4>2. pc'[v] = "limit" => ~(AllocateOrderNo(v) \/ LockOrder(v) \/ EditLines(v)
                \/ Reprice(v) \/ Ship(v) \/ Cancel(v) \/ Commit(v))
        BY DEF SalesInv, TypeOK, AllocateOrderNo, LockOrder, EditLines, Reprice, Ship, Cancel,
               Commit, Refuse, Continue, Goto
      <4>3. pc'[v] = "commit" => LockCustomer(v) \/ CheckLimit(v) \/ ~Advance(v)
        <5>1. SUFFICES ASSUME pc'[v] = "commit", Advance(v)
                       PROVE  LockCustomer(v) \/ CheckLimit(v)
          OBVIOUS
        <5>2. At(v, "commit", "confirm")'
          BY <4>1, <5>1 DEF At
        <5>3. ~(At(v, "commit", "confirm") /\ ~Commit(v))
          <6> SUFFICES ASSUME pc[v] = "commit" PROVE Commit(v)
            BY DEF At
          <6>1. ~(AllocateOrderNo(v) \/ LockOrder(v) \/ LockCustomer(v) \/ CheckLimit(v))
            BY Zenon DEF AllocateOrderNo, LockOrder, LockCustomer, CheckLimit
          <6>2. ~(EditLines(v) \/ Reprice(v) \/ Ship(v) \/ Cancel(v))
            BY DEF EditLines, Reprice, Ship, Cancel, At
          <6> QED
            BY <5>1, <6>1, <6>2 DEF Advance
        <5> QED
          BY <5>2, <5>3, OthersLeave
      <4> QED
        BY <1>2, <3>1, <4>1, <4>2, <4>3 DEF Advance
    <3>3. CheckLimit(v)
      BY <1>2, <3>1, <3>2
    <3>4. pc[v] = "limit" /\ mine[v] \in Row /\ pc'[v] # "refused"
      BY <2>2, <3>3, ConfirmsNext DEF CheckLimit, Ready, CustomerHolders
    <3>5. req' = req /\ mine' = [mine EXCEPT ![v] = Confirmed(mine[v])]
      BY <3>3, <3>4 DEF CheckLimit, Refuse, Continue, Goto, SalesInv, TypeOK
    <3>6. mine'[v].customer = mine[v].customer
      BY <3>4, <3>5 DEF SalesInv, TypeOK, Confirmed, Row
    <3> QED
      BY <2>2, <3>4, <3>5, <3>6 DEF CustomerHolders
  <2> QED
    BY <2>1, <2>2 DEF CustomerHolders
<1>3. Elsewhere \/ Finished \/ UNCHANGED vars => CustomerHolders(c)' = CustomerHolders(c)
  BY DEF CustomerHolders, Elsewhere, Finished, vars, SetPrice, SetCost, SetLimit, Invoice,
         Settle, VoidInvoice
<1> QED
  BY <1>1, <1>2, <1>3 DEF Next, WithinLimit

\* A limit stays as it is while a request holds the customer's row.
LEMMA LimitStep ==
    ASSUME Billed, [Next]_vars, NEW c \in Customers, CustomerHolders(c) # {}
    PROVE  limit'[c] = limit[c]
<1>1. ASSUME NEW d \in Customers, SetLimit(d) PROVE limit'[c] = limit[c]
  BY <1>1 DEF SetLimit, Billed
<1>2. Elsewhere => (\E d \in Customers : SetLimit(d)) \/ UNCHANGED limit
  BY DEF Elsewhere, SetPrice, SetCost, Invoice, Settle, VoidInvoice, Masterdata
<1>3. Finished \/ UNCHANGED vars => UNCHANGED limit
  BY DEF Finished, vars, Masterdata
<1> QED
  BY <1>1, <1>2, <1>3, RequestsBillNothing DEF Next

\* What the hook has found of a confirmation that is yet to commit still holds.
LEMMA FoundStep ==
    ASSUME SalesInv, Billed, WithinLimit, [Next]_vars,
           NEW t \in Txns, At(t, "commit", "confirm")',
           NEW c \in Customers, mine'[t].customer = c
    PROVE  limit'[c] = 0 \/ Exposure(c)' + mine'[t].total <= limit'[c] + Grace
<1>1. ASSUME At(t, "commit", "confirm"), mine'[t] = mine[t], ~Commit(t)
      PROVE  limit'[c] = 0 \/ Exposure(c)' + mine'[t].total <= limit'[c] + Grace
  <2>1. mine[t] \in Row /\ mine[t].customer = c /\ mine[t].total \in Nat
    BY <1>1, CommittedRow DEF At, Row
  <2>2. t \in CustomerHolders(c)
    BY <1>1, <2>1 DEF CustomerHolders, At
  <2>3. \A v \in CustomerHolders(c) : ~Commit(v)
    BY <1>1, <2>2 DEF WithinLimit
  <2>4. limit'[c] = limit[c] /\ limit[c] \in Nat
    BY <2>2, LimitStep DEF Billed
  <2>5. Exposure(c)' <= Exposure(c) /\ Exposure(c)' \in Int /\ Exposure(c) \in Int
    BY <2>3, ExposureStep
  <2>6. limit[c] = 0 \/ Exposure(c) + mine[t].total <= limit[c] + Grace
    BY <1>1, <2>1 DEF WithinLimit
  <2> QED
    BY <1>1, <2>1, <2>4, <2>5, <2>6, SalesAssumption
<1>2. ASSUME LockCustomer(t) PROVE limit'[c] = 0
  <2>1. mine[t] \in Row /\ pc'[t] = "commit"
    BY <1>2, ConfirmsNext DEF LockCustomer, Ready, At
  <2>2. limit[mine[t].customer] = 0 /\ limit' = limit /\ mine'[t] = Confirmed(mine[t])
    BY <1>2, <2>1 DEF LockCustomer, Continue, Goto, SalesInv, TypeOK, Masterdata
  <2> QED
    BY <2>1, <2>2 DEF Confirmed, Row
<1>3. ASSUME CheckLimit(t)
      PROVE  Exposure(c)' + mine'[t].total <= limit'[c] + Grace
  <2>1. mine[t] \in Row /\ pc[t] = "limit" /\ pc'[t] = "commit"
    BY <1>3, ConfirmsNext DEF CheckLimit, Ready, At, Row
  <2>2. ~Refuse(t)
    BY <2>1 DEF Refuse, Goto, SalesInv, TypeOK
  <2>3. /\ ~(Exposure(mine[t].customer) + mine[t].total > limit[mine[t].customer] + Grace)
        /\ Continue(t, Confirmed(mine[t]), "commit")
    BY <1>3, <2>2, Zenon DEF CheckLimit
  <2>4. UNCHANGED <<order, invoiced, settled, limit>> /\ mine'[t] = Confirmed(mine[t])
    BY <2>3 DEF Continue, Stored, Masterdata, Billing, SalesInv, TypeOK
  <2>5. mine[t].customer = c /\ mine'[t].total = mine[t].total /\ mine[t].total \in Nat
    BY <2>1, <2>4 DEF Confirmed, Row
  <2>6. ~(Exposure(c) + mine[t].total > limit[c] + Grace)
    BY <2>3, <2>5
  <2>7. \A o \in OrdersOf(c) : Owed(o) \in Nat
    BY OwedType DEF OrdersOf
  <2>8. ASSUME NEW o \in OrdersOf(c)'
        PROVE  o \in OrdersOf(c) /\ Owed(o)' \in Nat /\ Owed(o)' <= Owed(o)
    <3>1. o \in OrdersOf(c) /\ Owed(o)' = Owed(o)
      BY <2>4 DEF OrdersOf, Owed, Committed
    <3> QED
      BY <2>7, <3>1
  <2>9. Exposure(c)' <= Exposure(c) /\ Exposure(c)' \in Int /\ Exposure(c) \in Int
    BY <2>7, <2>8, ExposureFalls
  <2>10. limit'[c] = limit[c] /\ limit[c] \in Nat
    BY <2>4 DEF Billed
  <2> QED
    BY <2>5, <2>6, <2>9, <2>10, SalesAssumption
<1> QED
  BY <1>1, <1>2, <1>3, OthersLeave

\* CreditInv is an invariant: while the hook of a confirmation holds its customer's
\* row, what the customer owes does not grow and the limit does not change.
THEOREM CreditInductive == Spec => []CreditInv
<1>1. Init => CreditInv
  <2> SUFFICES ASSUME Init PROVE CreditInv
    OBVIOUS
  <2>1. limit \in [Customers -> Nat]
    BY SalesAssumption DEF Init
  <2>2. Billed
    BY <2>1 DEF Init, Billed
  <2>3. WithinLimit
    BY DEF Init, WithinLimit, CustomerHolders, At
  <2> QED
    BY <2>2, <2>3, InitInv DEF CreditInv
<1>2. CreditInv /\ [Next]_vars => CreditInv'
  <2> SUFFICES ASSUME CreditInv, [Next]_vars PROVE CreditInv'
    OBVIOUS
  <2>1. SalesInv' /\ Billed'
    BY NextInv, BilledStep DEF CreditInv
  <2>2. \A c \in Customers : \A t, u \in CustomerHolders(c)' : t = u
    BY HoldersStep DEF CreditInv
  <2>3. \A c \in Customers : \A t \in Txns :
           At(t, "commit", "confirm")' /\ mine'[t].customer = c =>
              limit'[c] = 0 \/ Exposure(c)' + mine'[t].total <= limit'[c] + Grace
    BY FoundStep DEF CreditInv
  <2> QED
    BY <2>1, <2>2, <2>3 DEF CreditInv, WithinLimit
<1> QED
  BY <1>1, <1>2, PTL DEF Spec

\* A confirmation that commits leaves its customer within the limit in force.
THEOREM CreditKept == Spec => CreditRespected
<1> DEFINE Kept == \A o \in Orders, c \in Customers :
          Confirms(o) /\ order'[o].customer = c /\ limit[c] # 0
             => (Exposure(c) <= limit[c] + Grace)'
<1>1. CreditInv /\ [Next]_vars => Kept
  <2> SUFFICES ASSUME CreditInv, [Next]_vars, NEW o \in Orders, NEW c \in Customers,
                      Confirms(o), order'[o].customer = c, limit[c] # 0
               PROVE  (Exposure(c) <= limit[c] + Grace)'
    OBVIOUS
  <2> USE DEF CreditInv
  <2>1. PICK t \in Txns : Commit(t)
    BY OneCommits DEF Confirms
  <2>2. /\ pc[t] = "commit" /\ o = req[t].order /\ order'[o] = mine[t]
        /\ mine[t].status = "CONFIRMED" /\ mine[t].customer = c
        /\ UNCHANGED <<limit, invoiced, settled>>
    BY <2>1, CommitChanges DEF Confirms, Commit, Masterdata, Billing
  <2>3. Ready(req[t].kind, order[o], mine[t], "commit")
    BY <2>2, CommittedRow
  <2>4. req[t].kind = "confirm"
    <3>1. mine[t].status # "SHIPPED" /\ mine[t].status # "CANCELLED" /\ mine[t].status # "DRAFT"
      BY <2>2
    <3> QED
      BY <2>3, <3>1 DEF Ready, Edits, Row, Statuses
  <2>5. ~Committed(o) /\ mine[t].total \in Nat
    BY <2>3, <2>4 DEF Ready, Admits, Committed, Row
  <2>6. Exposure(c) + mine[t].total <= limit[c] + Grace
    BY <2>2, <2>4 DEF WithinLimit, At
  <2>7. \A x \in OrdersOf(c) : Owed(x) \in Nat
    BY OwedType DEF OrdersOf
  <2>8. Owed(o)' = mine[t].total
    BY <2>2, UnbilledYet DEF Owed
  <2>9. o \in OrdersOf(c)'
    BY <2>1, <2>2, CommitChanges DEF OrdersOf, Committed
  <2>10. ASSUME NEW x \in OrdersOf(c)' \ {o}
         PROVE  x \in OrdersOf(c) /\ Owed(x)' \in Nat /\ Owed(x)' <= Owed(x)
    <3>1. order'[x] = order[x] /\ x \in OrdersOf(c) /\ Committed(x)
      BY <2>1, <2>2, CommitChanges DEF OrdersOf, Committed
    <3>2. Owed(x)' = Owed(x) /\ Owed(x) \in Nat
      BY <2>2, <2>7, <3>1 DEF Owed
    <3> QED
      BY <3>1, <3>2
  <2>11. Exposure(c)' <= Exposure(c) + mine[t].total /\ Exposure(c)' \in Int /\ Exposure(c) \in Int
    <3>1. Owed(o)' \in Nat
      BY <2>5, <2>8
    <3> QED
      BY <2>7, <2>8, <2>9, <2>10, <3>1, ExposureGrows
  <2>12. limit[c] \in Nat /\ limit'[c] = limit[c]
    BY <2>2 DEF Billed
  <2> QED
    BY <2>5, <2>6, <2>11, <2>12, SalesAssumption
<1>2. Spec => [][Kept]_vars
  BY <1>1, CreditInductive, PTL DEF Spec
<1> QED
  BY <1>2, PTL DEF CreditRespected
================================================================================
