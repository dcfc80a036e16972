--------------------------- MODULE ReceivablesProofs ---------------------------
(***************************************************************************)
(* Theorems of the specification Receivables, for every set of             *)
(* transactions, rows, orders and allocations.                             *)
(***************************************************************************)
EXTENDS Receivables, Sums

(***************************************************************************)
(* ReceivablesInv is inductive.                                            *)
(***************************************************************************)

LEMMA InitReceivablesInv == Init => ReceivablesInv
<1> SUFFICES ASSUME Init PROVE ReceivablesInv
  OBVIOUS
<1> USE SubledgerAssumption, ReceivablesAssumption
<1>1. \A t \in Txns : HeldInvoices(t) = {} /\ HeldPayments(t) = {} /\ news[t] = Nothing
  BY DEF Init, HeldInvoices, HeldPayments, NoInvoices, NoPayments
<1>2. Running = {}
  BY DEF Init, Running
<1>3. TypeOK
  <2>1. commands \subseteq Command /\ IsFiniteSet(commands)
    BY DEF Init
  <2>2. posted \subseteq EntryType
    BY DEF Init, EntryType, Issued, Received, Entry, Invoice, Payment
  <2>3. /\ req \in [Txns -> RequestType \cup {NoRow}]
        /\ todo \in [Txns -> SUBSET (InvoiceIds \cup PaymentIds)]
        /\ inv \in [Txns -> [InvoiceIds -> Invoice \cup {NoRow}]]
        /\ pay \in [Txns -> [PaymentIds -> Payment \cup {NoRow}]]
        /\ news \in [Txns -> [commands : SUBSET Command, entries : SUBSET EntryType]]
    BY DEF Init, NoInvoices, NoPayments, Nothing
  <2> QED
    BY <2>1, <2>2, <2>3 DEF Init, TypeOK
<1>4. Excluded
  BY <1>1, <1>2 DEF Excluded, DocNoHolders
<1>5. OneLiveInvoice
  BY DEF Init, OneLiveInvoice
<1>6. ASSUME NEW t \in Txns
      PROVE  Served(t) /\ Queued(t) /\ Holds(t) /\ Based(t) /\ KeyFree(t)
  <2>1. pc[t] = "idle" /\ todo[t] = {}
    BY DEF Init
  <2>2. Served(t) /\ KeyFree(t)
    BY <1>2, <2>1 DEF Served, KeyFree
  <2>3. Queued(t) /\ Based(t)
    BY <1>1, <2>1 DEF Queued, Based
  <2>4. Holds(t)
    BY <1>1, <2>1 DEF Holds, Serves, Nothing
  <2> QED
    BY <2>2, <2>3, <2>4
<1> QED
  BY <1>3, <1>4, <1>5, <1>6 DEF ReceivablesInv

\* u is as it was.
Same(u) ==
    /\ pc'[u] = pc[u] /\ req'[u] = req[u] /\ todo'[u] = todo[u]
    /\ inv'[u] = inv[u] /\ pay'[u] = pay[u] /\ news'[u] = news[u]

Local(t) == Served(t) /\ Queued(t) /\ Holds(t) /\ Based(t) /\ KeyFree(t)

\* While the tables stay, a transaction that does nothing stays as it should be.
LEMMA OthersStay ==
    ASSUME UNCHANGED Stored, NEW u \in Txns, Same(u), Local(u)
    PROVE  Local(u)'
<1> USE DEF Same, Stored, Local
<1>1. /\ HeldInvoices(u)' = HeldInvoices(u) /\ HeldPayments(u)' = HeldPayments(u)
      /\ (u \in Running)' = (u \in Running) /\ Inline(u)' = Inline(u)
      /\ \A kind, places : Serves(u, kind, places)' = Serves(u, kind, places)
  BY DEF HeldInvoices, HeldPayments, Running, Inline, Serves
<1>2. Served(u)'
  BY <1>1 DEF Served
<1>3. Queued(u)'
  BY <1>1 DEF Queued
<1>4. Holds(u)'
  BY <1>1 DEF Holds
<1>5. Based(u)'
  BY <1>1 DEF Based, OfInvoice, OfPayment
<1>6. KeyFree(u)'
  BY DEF KeyFree, OrderTaken, RefTaken
<1> QED
  BY <1>2, <1>3, <1>4, <1>5, <1>6

\* What a step of t that leaves the tables alone has to show.
Keeps(t) ==
    /\ UNCHANGED Stored
    /\ \A u \in Txns \ {t} : Same(u)
    /\ \A u \in Txns \ {t} : /\ HeldInvoices(t)' \cap HeldInvoices(u) = {}
                             /\ HeldPayments(t)' \cap HeldPayments(u) = {}
    /\ \A kind \in {"invoice", "payment"} :
          (t \in DocNoHolders(kind))' => t \in DocNoHolders(kind) \/ DocNoHolders(kind) \subseteq {t}

LEMMA KeepsInv ==
    ASSUME ReceivablesInv, NEW t \in Txns, Keeps(t), TypeOK', Local(t)'
    PROVE  ReceivablesInv'
<1> USE DEF ReceivablesInv, Keeps
<1>1. \A u \in Txns : Local(u)'
  BY OthersStay DEF Local
<1>2. OneLiveInvoice'
  BY DEF OneLiveInvoice, OneLive, Stored
<1>3. \A u \in Txns \ {t} :
        /\ HeldInvoices(u)' = HeldInvoices(u) /\ HeldPayments(u)' = HeldPayments(u)
        /\ \A kind : (u \in DocNoHolders(kind))' = (u \in DocNoHolders(kind))
  BY DEF Same, HeldInvoices, HeldPayments, DocNoHolders, Running
<1>4. ASSUME NEW u \in Txns \ {t}
      PROVE  /\ HeldInvoices(t)' \cap HeldInvoices(u)' = {}
             /\ HeldPayments(t)' \cap HeldPayments(u)' = {}
             /\ \A kind \in {"invoice", "payment"} :
                   ~((t \in DocNoHolders(kind))' /\ (u \in DocNoHolders(kind))')
  BY <1>3 DEF Excluded
<1>5. Excluded'
  <2> SUFFICES ASSUME NEW x \in Txns, NEW y \in Txns, x # y
               PROVE  /\ HeldInvoices(x)' \cap HeldInvoices(y)' = {}
                      /\ HeldPayments(x)' \cap HeldPayments(y)' = {}
                      /\ \A kind \in {"invoice", "payment"} :
                            ~((x \in DocNoHolders(kind))' /\ (y \in DocNoHolders(kind))')
    BY DEF Excluded
  <2>1. CASE x = t
    BY <1>4, <2>1
  <2>2. CASE y = t
    BY <1>4, <2>2
  <2>3. CASE x # t /\ y # t
    BY <1>3, <2>3 DEF Excluded
  <2> QED
    BY <2>1, <2>2, <2>3
<1> QED
  BY <1>1, <1>2, <1>5 DEF Local

\* t gives up: what it holds is let go.
LEMMA RefuseKeeps ==
    ASSUME ReceivablesInv, NEW t \in Txns, Refuse(t)
    PROVE  ReceivablesInv'
<1> USE DEF Refuse, End, Goto, ReceivablesInv
<1>1. /\ pc'[t] = "refused" /\ todo'[t] = {} /\ news'[t] = Nothing
      /\ inv'[t] = NoInvoices /\ pay'[t] = NoPayments
  BY DEF TypeOK
<1>2. HeldInvoices(t)' = {} /\ HeldPayments(t)' = {} /\ ~(t \in Running)'
  BY <1>1 DEF HeldInvoices, HeldPayments, NoInvoices, NoPayments, Running
<1>3. TypeOK'
  <2>1. /\ pc' \in [Txns -> {"idle", "doc", "insert", "payments", "invoices", "post", "sum",
                             "commit", "committed", "refused"}]
        /\ todo' \in [Txns -> SUBSET (InvoiceIds \cup PaymentIds)]
    BY DEF TypeOK
  <2>2. /\ inv' \in [Txns -> [InvoiceIds -> Invoice \cup {NoRow}]]
        /\ pay' \in [Txns -> [PaymentIds -> Payment \cup {NoRow}]]
        /\ news' \in [Txns -> [commands : SUBSET Command, entries : SUBSET EntryType]]
    BY DEF TypeOK, NoInvoices, NoPayments, Nothing
  <2> QED
    BY <2>1, <2>2 DEF TypeOK, Stored
<1>4. Local(t)'
  <2>1. Served(t)' /\ KeyFree(t)'
    BY <1>1, <1>2 DEF Served, KeyFree
  <2>2. Queued(t)' /\ Based(t)'
    BY <1>1, <1>2 DEF Queued, Based
  <2>3. Holds(t)'
    BY <1>1, <1>2 DEF Holds, Serves, Nothing
  <2> QED
    BY <2>1, <2>2, <2>3 DEF Local
<1>5. Keeps(t)
  <2>1. \A u \in Txns \ {t} : Same(u)
    BY DEF Same, TypeOK
  <2> QED
    BY <1>2, <2>1 DEF Keeps, DocNoHolders
<1> QED
  BY <1>3, <1>4, <1>5, KeepsInv

\* t starts.
LEMMA StartKeeps ==
    ASSUME ReceivablesInv, NEW t \in Txns, pc[t] = "idle",
           NEW r \in RequestType, NEW where \in {"doc", "payments", "invoices"},
           NEW rows \in SUBSET (InvoiceIds \cup PaymentIds),
           Start(t, r, where, rows),
           \/ where = "doc" /\ rows = {}
              /\ \/ r.kind = "invoice" /\ r.order \in Orders
                 \/ r.kind = "payment" /\ r.receipt \in Receipt
           \/ /\ where = "payments" /\ rows \subseteq PaymentIds
              /\ \/ r.kind = "voidPayment" /\ IsOne(rows)
                 \/ r.kind = "allocate" /\ IsOne(rows) /\ r.batch \in Batches /\ r.ref \in RequestRefs
                 \/ r.kind = "rebuild"
           \/ /\ where = "invoices" /\ rows \subseteq InvoiceIds
              /\ r.kind = "voidInvoice" /\ IsOne(rows)
    PROVE  ReceivablesInv'
<1> USE DEF Start, Goto, ReceivablesInv
<1>1. pc'[t] = where /\ req'[t] = r /\ todo'[t] = rows /\ inv'[t] = inv[t] /\ pay'[t] = pay[t] /\ news'[t] = news[t]
  BY DEF TypeOK
<1>2. HeldInvoices(t) = {} /\ HeldPayments(t) = {} /\ news[t] = Nothing
  BY DEF Holds
<1>3. HeldInvoices(t)' = {} /\ HeldPayments(t)' = {} /\ news'[t] = Nothing
  BY <1>1, <1>2 DEF HeldInvoices, HeldPayments
<1>4. TypeOK'
  BY DEF TypeOK, Stored
<1>5. Local(t)'
  <2>1. Served(t)'
    BY <1>1 DEF Served, Serves
  <2>2. Queued(t)' /\ Based(t)'
    BY <1>1, <1>3 DEF Queued, Based
  <2>3. Holds(t)'
    BY <1>1, <1>3 DEF Holds, Serves, Nothing
  <2>4. KeyFree(t)'
    BY <1>1 DEF KeyFree
  <2> QED
    BY <2>1, <2>2, <2>3, <2>4 DEF Local
<1>6. Keeps(t)
  <2>1. \A u \in Txns \ {t} : Same(u)
    BY DEF Same, TypeOK
  <2>2. \A kind \in {"invoice", "payment"} : ~(t \in DocNoHolders(kind))'
    BY <1>1 DEF DocNoHolders
  <2> QED
    BY <1>3, <2>1, <2>2 DEF Keeps
<1> QED
  BY <1>4, <1>5, <1>6, KeepsInv

LEMMA BeginKeeps ==
    ASSUME ReceivablesInv, NEW t \in Txns, BeginRequest(t)
    PROVE  ReceivablesInv'
<1> USE SubledgerAssumption, ReceivablesAssumption DEF Idle
<1>1. ASSUME NEW o \in Orders, BeginInvoice(t, o)
      PROVE  ReceivablesInv'
  <2> DEFINE r == [Request("invoice") EXCEPT !.order = o]
  <2>1. r \in RequestType /\ r.kind = "invoice" /\ r.order = o
    BY DEF Request, RequestType
  <2>3. pc[t] = "idle" /\ Start(t, r, "doc", {})
    BY <1>1 DEF BeginInvoice
  <2> HIDE DEF r
  <2> QED
    BY <2>1, <2>3, StartKeeps
<1>2. ASSUME NEW i \in InvoiceIds, BeginVoidInvoice(t, i)
      PROVE  ReceivablesInv'
  <2>1. Request("voidInvoice") \in RequestType /\ Request("voidInvoice").kind = "voidInvoice"
    BY DEF Request, RequestType
  <2>2. IsOne({i})
    BY DEF IsOne
  <2> QED
    BY <1>2, <2>1, <2>2, StartKeeps DEF BeginVoidInvoice
<1>3. ASSUME NEW c \in Receipt, NEW b \in InlineBatches \cup {NoBatch}, BeginPayment(t, c, b)
      PROVE  ReceivablesInv'
  <2> DEFINE r == [Request("payment") EXCEPT !.receipt = c, !.batch = b]
  <2>1. r \in RequestType /\ r.kind = "payment" /\ r.receipt = c
    BY DEF Request, RequestType
  <2>3. pc[t] = "idle" /\ Start(t, r, "doc", {})
    BY <1>3 DEF BeginPayment
  <2> HIDE DEF r
  <2> QED
    BY <2>1, <2>3, StartKeeps
<1>4. ASSUME NEW p \in PaymentIds, BeginVoidPayment(t, p)
      PROVE  ReceivablesInv'
  <2>1. Request("voidPayment") \in RequestType /\ Request("voidPayment").kind = "voidPayment"
    BY DEF Request, RequestType
  <2>2. IsOne({p})
    BY DEF IsOne
  <2> QED
    BY <1>4, <2>1, <2>2, StartKeeps DEF BeginVoidPayment
<1>5. ASSUME NEW p \in PaymentIds, NEW x \in RequestRefs, NEW b \in Batches,
             BeginAllocate(t, p, x, b)
      PROVE  ReceivablesInv'
  <2> DEFINE r == [Request("allocate") EXCEPT !.ref = x, !.batch = b]
  <2>1. r \in RequestType /\ r.kind = "allocate" /\ r.batch = b /\ r.ref = x
    BY DEF Request, RequestType
  <2>2. IsOne({p})
    BY DEF IsOne
  <2>3. pc[t] = "idle" /\ Start(t, r, "payments", {p})
    BY <1>5 DEF BeginAllocate
  <2> HIDE DEF r
  <2> QED
    BY <2>1, <2>2, <2>3, StartKeeps
<1>6. ASSUME BeginRebuild(t) PROVE ReceivablesInv'
  <2>1. Request("rebuild") \in RequestType /\ Request("rebuild").kind = "rebuild"
    BY DEF Request, RequestType
  <2> QED
    BY <1>6, <2>1, StartKeeps DEF BeginRebuild
<1> QED
  BY <1>1, <1>2, <1>3, <1>4, <1>5, <1>6 DEF BeginRequest

\* The next row a statement locks is the lowest of those it has still to lock.
LEMMA TurnIsLowest ==
    ASSUME ReceivablesInv, NEW t \in Txns, pc[t] \in {"payments", "invoices"}, todo[t] # {}
    PROVE  Turn(t) \in todo[t] /\ \A x \in todo[t] : Turn(t) <= x
<1>1. todo[t] \subseteq InvoiceIds \/ todo[t] \subseteq PaymentIds
  BY DEF ReceivablesInv, Queued
<1>2. IsFiniteSet(todo[t]) /\ todo[t] \subseteq Int
  BY <1>1, SubledgerAssumption, FS_Subset
<1>3. HasLowest(todo[t])
  BY <1>2, Extremes
<1> QED
  BY <1>3 DEF HasLowest, Turn, Lowest

LEMMA LockDocNoKeeps ==
    ASSUME ReceivablesInv, NEW t \in Txns, LockDocNo(t)
    PROVE  ReceivablesInv'
<1> USE DEF LockDocNo, MayRun, Goto, ReceivablesInv
<1>1. /\ pc[t] = "doc" /\ pc'[t] = "insert" /\ req'[t] = req[t] /\ todo'[t] = todo[t]
      /\ inv'[t] = inv[t] /\ pay'[t] = pay[t] /\ news'[t] = news[t]
  BY DEF TypeOK
<1>2. HeldInvoices(t)' = {} /\ HeldPayments(t)' = {} /\ news'[t] = Nothing
  BY <1>1 DEF HeldInvoices, HeldPayments, Holds
<1>3. TypeOK'
  BY DEF TypeOK, Stored
<1>4. Local(t)'
  <2>1. Served(t)'
    BY <1>1 DEF Served, Serves, Running, Inline
  <2>2. Queued(t)' /\ Based(t)'
    BY <1>1, <1>2 DEF Queued, Based
  <2>3. Holds(t)'
    BY <1>1, <1>2 DEF Holds, Serves, Nothing
  <2>4. KeyFree(t)'
    BY <1>1 DEF KeyFree
  <2> QED
    BY <2>1, <2>2, <2>3, <2>4 DEF Local
<1>5. Keeps(t)
  <2>1. \A u \in Txns \ {t} : Same(u)
    BY DEF Same, TypeOK
  <2>2. DocNoHolders(req[t].kind) \subseteq {t}
    BY <1>1 DEF WaitsFor
  <2>3. \A kind \in {"invoice", "payment"} :
          (t \in DocNoHolders(kind))' => DocNoHolders(kind) \subseteq {t}
    BY <1>1, <2>2 DEF DocNoHolders
  <2> QED
    BY <1>2, <2>1, <2>3 DEF Keeps
<1> QED
  BY <1>3, <1>4, <1>5, KeepsInv

LEMMA InsertInvoiceKeeps ==
    ASSUME ReceivablesInv, NEW t \in Txns, NEW i \in InvoiceIds, InsertInvoice(t, i)
    PROVE  ReceivablesInv'
<1> USE DEF InsertInvoice, MayRun, Goto, ReceivablesInv
<1> DEFINE row == [order |-> req[t].order, total |-> OrderTotal[req[t].order],
                   settled |-> 0, status |-> "OPEN"]
<1>1. /\ pc[t] = "insert" /\ pc'[t] = "post" /\ req'[t] = req[t] /\ todo'[t] = todo[t]
      /\ pay'[t] = pay[t] /\ news'[t] = news[t] /\ inv'[t] = [inv[t] EXCEPT ![i] = row]
  BY DEF TypeOK
<1>2. /\ req[t] \in RequestType /\ req[t].kind = "invoice" /\ req[t].order \in Orders
      /\ t \in DocNoHolders("invoice")
  <2>1. t \in Running
    BY <1>1 DEF Running
  <2>2. Served(t) /\ req[t].kind = "invoice"
    OBVIOUS
  <2>3. req[t] \in RequestType /\ req[t].order \in Orders
    BY <2>1, <2>2 DEF Served, Serves
  <2> QED
    BY <1>1, <2>1, <2>2, <2>3 DEF DocNoHolders
<1>3. row \in Invoice /\ row # NoRow
  BY <1>2, SubledgerAssumption, ReceivablesAssumption DEF Invoice
<1>4. HeldInvoices(t)' = {i} /\ HeldPayments(t)' = {} /\ news'[t] = Nothing /\ inv'[t][i] = row
      /\ todo[t] = {}
  <2>1. HeldInvoices(t) = {} /\ HeldPayments(t) = {} /\ news[t] = Nothing
    BY <1>1 DEF Holds
  <2>2. todo[t] = {}
    BY <1>1 DEF Queued
  <2>3. inv[t] \in [InvoiceIds -> Invoice \cup {NoRow}]
    BY DEF TypeOK
  <2>4. HeldInvoices(t)' = {i} /\ inv'[t][i] = row
    BY <1>1, <1>3, <2>1, <2>3 DEF HeldInvoices
  <2>5. HeldPayments(t)' = {}
    BY <1>1, <2>1 DEF HeldPayments
  <2> QED
    BY <1>1, <2>1, <2>2, <2>4, <2>5
<1>5. TypeOK'
  <2>1. inv' \in [Txns -> [InvoiceIds -> Invoice \cup {NoRow}]]
    BY <1>3 DEF TypeOK
  <2> HIDE DEF row
  <2> QED
    BY <2>1 DEF TypeOK, Stored
<1>6. Local(t)'
  <2>1. Served(t)'
    BY <1>1, <1>2 DEF Served, Serves
  <2>2. Queued(t)'
    BY <1>1, <1>4 DEF Queued
  <2>3. Holds(t)'
    BY <1>1, <1>2, <1>4 DEF Holds, Serves, Nothing, IsOne
  <2>4. Based(t)'
    BY <1>1, <1>2, <1>4 DEF Based, OfInvoice, Stored
  <2>5. KeyFree(t)'
    BY <1>1, <1>2 DEF KeyFree, OrderTaken, Stored
  <2> QED
    BY <2>1, <2>2, <2>3, <2>4, <2>5 DEF Local
<1>7. Keeps(t)
  <2>1. \A u \in Txns \ {t} : Same(u)
    BY DEF Same, TypeOK
  <2>2. \A u \in Txns \ {t} : i \notin HeldInvoices(u)
    BY DEF InvoiceHolders, HeldInvoices
  <2>3. \A kind \in {"invoice", "payment"} :
          (t \in DocNoHolders(kind))' => t \in DocNoHolders(kind)
    BY <1>1, <1>2 DEF DocNoHolders
  <2> QED
    BY <1>4, <2>1, <2>2, <2>3 DEF Keeps
<1> QED
  BY <1>5, <1>6, <1>7, KeepsInv

LEMMA InsertPaymentKeeps ==
    ASSUME ReceivablesInv, NEW t \in Txns, NEW p \in PaymentIds, InsertPayment(t, p)
    PROVE  ReceivablesInv'
<1> USE DEF InsertPayment, MayRun, Goto, ReceivablesInv
<1> DEFINE r == req[t].receipt
           row == [ref |-> r.ref, customer |-> r.customer, amount |-> r.amount,
                   allocated |-> 0, status |-> "RECEIVED"]
<1>1. /\ pc[t] = "insert" /\ pc'[t] = "post" /\ req'[t] = req[t] /\ todo'[t] = todo[t]
      /\ inv'[t] = inv[t] /\ news'[t] = news[t] /\ pay'[t] = [pay[t] EXCEPT ![p] = row]
  BY DEF TypeOK
<1>2. /\ req[t] \in RequestType /\ req[t].kind = "payment" /\ r \in Receipt
      /\ t \in DocNoHolders("payment")
  <2>1. t \in Running
    BY <1>1 DEF Running
  <2>2. Served(t) /\ req[t].kind = "payment"
    OBVIOUS
  <2>3. req[t] \in RequestType /\ r \in Receipt
    BY <2>1, <2>2 DEF Served, Serves
  <2> QED
    BY <1>1, <2>1, <2>2, <2>3 DEF DocNoHolders
<1>3. row \in Payment /\ row # NoRow
  BY <1>2, SubledgerAssumption, ReceivablesAssumption DEF Payment, Receipt
<1>4. HeldPayments(t)' = {p} /\ HeldInvoices(t)' = {} /\ news'[t] = Nothing /\ pay'[t][p] = row
      /\ todo[t] = {}
  <2>1. HeldPayments(t) = {} /\ HeldInvoices(t) = {} /\ news[t] = Nothing
    BY <1>1 DEF Holds
  <2>2. todo[t] = {}
    BY <1>1 DEF Queued
  <2>3. pay[t] \in [PaymentIds -> Payment \cup {NoRow}]
    BY DEF TypeOK
  <2>4. HeldPayments(t)' = {p} /\ pay'[t][p] = row
    BY <1>1, <1>3, <2>1, <2>3 DEF HeldPayments
  <2>5. HeldInvoices(t)' = {}
    BY <1>1, <2>1 DEF HeldInvoices
  <2> QED
    BY <1>1, <2>1, <2>2, <2>4, <2>5
<1>5. TypeOK'
  <2>1. pay' \in [Txns -> [PaymentIds -> Payment \cup {NoRow}]]
    BY <1>3 DEF TypeOK
  <2> HIDE DEF row
  <2> QED
    BY <2>1 DEF TypeOK, Stored
<1>6. Local(t)'
  <2>1. Served(t)'
    BY <1>1, <1>2 DEF Served, Serves
  <2>2. Queued(t)'
    BY <1>1, <1>4 DEF Queued
  <2>3. Holds(t)'
    BY <1>1, <1>2, <1>4 DEF Holds, Serves, Nothing, IsOne
  <2>4. Based(t)'
    BY <1>1, <1>2, <1>4 DEF Based, OfPayment, Stored
  <2>5. KeyFree(t)'
    BY <1>1, <1>2 DEF KeyFree, RefTaken, Stored
  <2> QED
    BY <2>1, <2>2, <2>3, <2>4, <2>5 DEF Local
<1>7. Keeps(t)
  <2>1. \A u \in Txns \ {t} : Same(u)
    BY DEF Same, TypeOK
  <2>2. \A u \in Txns \ {t} : p \notin HeldPayments(u)
    BY DEF PaymentHolders, HeldPayments
  <2>3. \A kind \in {"invoice", "payment"} :
          (t \in DocNoHolders(kind))' => t \in DocNoHolders(kind)
    BY <1>1, <1>2 DEF DocNoHolders
  <2> QED
    BY <1>4, <2>1, <2>2, <2>3 DEF Keeps
<1> QED
  BY <1>5, <1>6, <1>7, KeepsInv

\* The event of t is of the one row it has, and an entry.
LEMMA PostKeeps ==
    ASSUME ReceivablesInv, NEW t \in Txns, Post(t)
    PROVE  ReceivablesInv'
<1> USE DEF Post, MayRun, Goto, ReceivablesInv
<1>1. /\ pc[t] = "post" /\ req'[t] = req[t] /\ inv'[t] = inv[t] /\ pay'[t] = pay[t]
      /\ news'[t] = [news[t] EXCEPT !.entries = EventOf(t)]
      /\ \/ Inline(t) /\ pc'[t] = "invoices" /\ todo'[t] = DOMAIN req[t].batch
         \/ ~Inline(t) /\ pc'[t] = "commit" /\ todo'[t] = todo[t]
  BY DEF TypeOK
<1>2. /\ HeldInvoices(t)' = HeldInvoices(t) /\ HeldPayments(t)' = HeldPayments(t)
      /\ todo[t] = {} /\ news'[t].commands = {} /\ Inline(t)' = Inline(t)
  <2>1. news[t] = Nothing
    BY <1>1 DEF Holds
  <2>2. news'[t].commands = {}
    BY <1>1, <2>1 DEF Nothing
  <2>3. todo[t] = {}
    BY <1>1 DEF Queued
  <2> QED
    BY <1>1, <2>2, <2>3 DEF HeldInvoices, HeldPayments, Inline
<1>3. Inline(t) => /\ req[t].kind = "payment" /\ HeldInvoices(t) = {}
                   /\ DOMAIN req[t].batch \subseteq InvoiceIds
  <2> SUFFICES ASSUME Inline(t) PROVE /\ req[t].kind = "payment" /\ HeldInvoices(t) = {}
                                      /\ DOMAIN req[t].batch \subseteq InvoiceIds
    OBVIOUS
  <2>1. req[t].kind = "payment" /\ req[t].batch # NoBatch /\ HeldInvoices(t) = {}
    BY <1>1 DEF Inline, Holds, Serves
  <2>2. req[t] \in RequestType
    BY <1>1 DEF Served, Running
  <2>3. req[t].batch \in Batches
    BY <2>1, <2>2 DEF RequestType
  <2> QED
    BY <2>1, <2>3, SubledgerAssumption
<1>4. TypeOK'
  <2>1. EventOf(t) \subseteq EntryType
    <3>1. inv \in [Txns -> [InvoiceIds -> Invoice \cup {NoRow}]]
          /\ pay \in [Txns -> [PaymentIds -> Payment \cup {NoRow}]]
      BY DEF TypeOK
    <3>2. ASSUME NEW i \in InvoiceIds, inv[t][i] # NoRow
          PROVE  InvoiceVoided(i, inv[t][i]) \in EntryType /\ Issued(i, inv[t][i]) \in EntryType
      BY <3>1, <3>2 DEF EntryType, Issued, InvoiceVoided, Entry, Invoice
    <3>3. ASSUME NEW p \in PaymentIds, pay[t][p] # NoRow
          PROVE  PaymentVoided(p, pay[t][p]) \in EntryType /\ Received(p, pay[t][p]) \in EntryType
      BY <3>1, <3>3 DEF EntryType, Received, PaymentVoided, Entry, Payment
    <3> QED
      BY <3>2, <3>3 DEF EventOf
  <2>2. news' \in [Txns -> [commands : SUBSET Command, entries : SUBSET EntryType]]
    <3>1. news \in [Txns -> [commands : SUBSET Command, entries : SUBSET EntryType]]
      BY DEF TypeOK
    <3>2. [news[t] EXCEPT !.entries = EventOf(t)]
            \in [commands : SUBSET Command, entries : SUBSET EntryType]
      BY <2>1, <3>1
    <3>3. news' = [news EXCEPT ![t] = [news[t] EXCEPT !.entries = EventOf(t)]]
      BY DEF Post
    <3> QED
      BY <3>1, <3>2, <3>3
  <2>3. todo' \in [Txns -> SUBSET (InvoiceIds \cup PaymentIds)]
    BY <1>3 DEF TypeOK
  <2> QED
    BY <2>2, <2>3 DEF TypeOK, Stored
<1>5. Local(t)'
  <2>1. Served(t)'
    BY <1>1, <1>2 DEF Served, Serves, Running, Inline
  <2>2. Queued(t)'
    BY <1>1, <1>2, <1>3 DEF Queued
  <2>3. Holds(t)'
    <3>1. CASE Inline(t)
      BY <1>1, <1>2, <1>3, <3>1 DEF Holds, Serves
    <3>2. CASE ~Inline(t)
      BY <1>1, <1>2, <3>2 DEF Holds, Serves
    <3> QED
      BY <3>1, <3>2
  <2>4. Based(t)'
    <3>1. Based(t) /\ req'[t] = req[t]
      BY <1>1
    <3>2. \A kind \in {"voidInvoice", "voidPayment"} :
            Serves(t, kind, {"post", "commit"})' = Serves(t, kind, {"post", "commit"})
      BY <1>1, <1>3 DEF Serves
    <3>3. \A i \in HeldInvoices(t) : OfInvoice(t, inv[t][i], invoice[i])'
      BY <1>1, <3>1, <3>2 DEF Based, OfInvoice, Stored
    <3>4. \A p \in HeldPayments(t) : OfPayment(t, pay[t][p], payment[p])'
      BY <1>1, <3>1, <3>2 DEF Based, OfPayment, Stored
    <3> QED
      BY <1>2, <3>3, <3>4 DEF Based
  <2>5. KeyFree(t)'
    BY <1>1 DEF KeyFree, OrderTaken, RefTaken, Stored
  <2> QED
    BY <2>1, <2>2, <2>3, <2>4, <2>5 DEF Local
<1>6. Keeps(t)
  <2>1. \A u \in Txns \ {t} : Same(u)
    BY DEF Same, TypeOK
  <2>2. \A kind \in {"invoice", "payment"} :
          (t \in DocNoHolders(kind))' => t \in DocNoHolders(kind)
    BY <1>1 DEF DocNoHolders, Running
  <2> QED
    BY <1>2, <2>1, <2>2 DEF Keeps, Excluded
<1> QED
  BY <1>4, <1>5, <1>6, KeepsInv

\* Which kinds of request are at which statement.
LEMMA KindsThere ==
    ASSUME ReceivablesInv, NEW t \in Txns
    PROVE  /\ t \in Running => req[t] \in RequestType
           /\ pc[t] = "payments" => req[t].kind \in {"voidPayment", "allocate", "rebuild"}
           /\ pc[t] = "invoices" =>
                 req[t].kind \in {"voidInvoice", "payment", "allocate", "rebuild"}
           /\ pc[t] = "invoices" /\ req[t].kind = "payment" => Inline(t)
           /\ pc[t] = "post" =>
                 req[t].kind \in {"invoice", "voidInvoice", "payment", "voidPayment"}
           /\ pc[t] = "sum" => req[t].kind = "rebuild"
<1>1. Served(t)
  BY DEF ReceivablesInv
<1>2. pc[t] \in {"payments", "invoices", "post", "sum", "commit"} => t \in Running
  BY DEF Running
<1> QED
  BY <1>1, <1>2 DEF Served, Serves

LEMMA LockPaymentKeeps ==
    ASSUME ReceivablesInv, NEW t \in Txns, LockPayment(t)
    PROVE  ReceivablesInv'
<1>0. ReceivablesInv /\ pc[t] = "payments" /\ todo[t] # {}
  BY DEF LockPayment, MayRun
<1>1. todo[t] \subseteq PaymentIds /\ \A q \in HeldPayments(t), x \in todo[t] : q < x
  BY <1>0 DEF ReceivablesInv, Queued
<1>2. PICK p \in todo[t] : p = Turn(t) /\ \A x \in todo[t] : p <= x
  BY <1>0, TurnIsLowest
<1>3. /\ pc'[t] = pc[t] /\ req'[t] = req[t] /\ todo'[t] = todo[t] \ {p}
      /\ inv'[t] = inv[t] /\ news'[t] = news[t] /\ pay'[t] = [pay[t] EXCEPT ![p] = payment[p]]
  BY <1>2 DEF LockPayment, ReceivablesInv, TypeOK
<1>4. payment[p] \in Payment /\ payment[p] # NoRow
  BY <1>0, <1>2, <1>1 DEF LockPayment, ReceivablesInv, TypeOK
<1>5. req[t] \in RequestType /\ req[t].kind \in {"voidPayment", "allocate", "rebuild"}
  BY <1>0, KindsThere DEF Running
<1>6. \A u \in Txns \ {t} : p \notin HeldPayments(u)
  BY <1>0, <1>2 DEF LockPayment, MayRun, WaitsFor, RowHolders, PaymentHolders, HeldPayments
<1>7. /\ HeldPayments(t)' = HeldPayments(t) \cup {p} /\ HeldInvoices(t)' = HeldInvoices(t)
      /\ pay'[t][p] = payment[p] /\ \A q \in HeldPayments(t) : pay'[t][q] = pay[t][q]
  <2>1. pay[t] \in [PaymentIds -> Payment \cup {NoRow}]
    BY <1>0 DEF ReceivablesInv, TypeOK
  <2>2. p \notin HeldPayments(t)
    BY <1>2, <1>1, SubledgerAssumption
  <2> QED
    BY <1>0, <1>3, <1>2, <1>1, <1>4, <2>1, <2>2 DEF HeldPayments, HeldInvoices
<1> USE DEF ReceivablesInv
<1>8. TypeOK'
  <2>1. pay' \in [Txns -> [PaymentIds -> Payment \cup {NoRow}]]
    BY <1>2, <1>4 DEF LockPayment, TypeOK
  <2>2. todo' \in [Txns -> SUBSET (InvoiceIds \cup PaymentIds)]
    BY DEF LockPayment, TypeOK
  <2> QED
    BY <2>1, <2>2 DEF LockPayment, TypeOK, Stored
<1>9. Local(t)'
  <2>1. Served(t)'
    BY <1>0, <1>3 DEF Served, Serves, Running, Inline
  <2>2. Queued(t)'
    <3>1. \A x \in todo[t] \ {p} : p < x
      BY <1>2, <1>1, SubledgerAssumption
    <3> QED
      BY <1>0, <1>3, <1>2, <1>1, <1>7, <3>1 DEF Queued
  <2>3. Holds(t)'
    <3>1. HeldPayments(t)' \cup todo'[t] = HeldPayments(t) \cup todo[t]
      BY <1>3, <1>2, <1>7
    <3> QED
      BY <1>0, <1>3, <1>7, <3>1 DEF Holds, Serves
  <2>4. Based(t)'
    <3>1. OfPayment(t, payment[p], payment[p])'
      BY <1>0, <1>3, <1>4, <1>5 DEF OfPayment, Serves, LockPayment, Stored
    <3>2. \A q \in HeldPayments(t) : OfPayment(t, pay[t][q], payment[q])'
      BY <1>0, <1>3, <1>5, <1>7 DEF Based, OfPayment, Serves, LockPayment, Stored
    <3>3. HeldInvoices(t)' = {}
      BY <1>0, <1>7 DEF Holds
    <3>4. \A q \in HeldPayments(t)' : OfPayment(t, pay[t][q], payment[q])'
      BY <1>7, <3>1, <3>2 DEF LockPayment, Stored
    <3> QED
      BY <3>3, <3>4 DEF Based
  <2>5. KeyFree(t)'
    BY <1>0, <1>3 DEF KeyFree
  <2> QED
    BY <2>1, <2>2, <2>3, <2>4, <2>5 DEF Local
<1>10. Keeps(t)
  <2>1. \A u \in Txns \ {t} : Same(u)
    BY DEF LockPayment, Same, TypeOK
  <2>2. \A kind \in {"invoice", "payment"} :
          (t \in DocNoHolders(kind))' => t \in DocNoHolders(kind)
    BY <1>3 DEF DocNoHolders, Running
  <2> QED
    BY <1>6, <1>7, <2>1, <2>2 DEF Keeps, Excluded, LockPayment
<1> QED
  BY <1>8, <1>9, <1>10, KeepsInv

LEMMA LockInvoiceKeeps ==
    ASSUME ReceivablesInv, NEW t \in Txns, LockInvoice(t)
    PROVE  ReceivablesInv'
<1>0. ReceivablesInv /\ pc[t] = "invoices" /\ todo[t] # {}
  BY DEF LockInvoice, MayRun
<1>1. todo[t] \subseteq InvoiceIds /\ \A j \in HeldInvoices(t), x \in todo[t] : j < x
  BY <1>0 DEF ReceivablesInv, Queued
<1>2. PICK i \in todo[t] : i = Turn(t) /\ \A x \in todo[t] : i <= x
  BY <1>0, TurnIsLowest
<1>3. /\ pc'[t] = pc[t] /\ req'[t] = req[t] /\ todo'[t] = todo[t] \ {i}
      /\ pay'[t] = pay[t] /\ news'[t] = news[t] /\ inv'[t] = [inv[t] EXCEPT ![i] = invoice[i]]
  BY <1>2 DEF LockInvoice, ReceivablesInv, TypeOK
<1>4. invoice[i] \in Invoice /\ invoice[i] # NoRow
  <2>1. invoice[i] # NoRow
    BY <1>2 DEF LockInvoice
  <2> QED
    BY <2>1, <1>2, <1>1 DEF ReceivablesInv, TypeOK
<1>5. /\ req[t] \in RequestType
      /\ req[t].kind \in {"voidInvoice", "payment", "allocate", "rebuild"}
  BY <1>0, KindsThere DEF Running
<1>6. \A u \in Txns \ {t} : i \notin HeldInvoices(u)
  BY <1>0, <1>2 DEF LockInvoice, MayRun, WaitsFor, RowHolders, InvoiceHolders, HeldInvoices
<1>7. /\ HeldInvoices(t)' = HeldInvoices(t) \cup {i} /\ HeldPayments(t)' = HeldPayments(t)
      /\ inv'[t][i] = invoice[i] /\ \A j \in HeldInvoices(t) : inv'[t][j] = inv[t][j]
  <2>1. inv[t] \in [InvoiceIds -> Invoice \cup {NoRow}]
    BY <1>0 DEF ReceivablesInv, TypeOK
  <2>2. i \notin HeldInvoices(t)
    BY <1>2, <1>1, SubledgerAssumption
  <2> QED
    BY <1>0, <1>3, <1>2, <1>1, <1>4, <2>1, <2>2 DEF HeldPayments, HeldInvoices
<1> USE DEF ReceivablesInv
<1>8. TypeOK'
  <2>1. inv' \in [Txns -> [InvoiceIds -> Invoice \cup {NoRow}]]
    BY <1>2, <1>4 DEF LockInvoice, TypeOK
  <2>2. todo' \in [Txns -> SUBSET (InvoiceIds \cup PaymentIds)]
    BY DEF LockInvoice, TypeOK
  <2> QED
    BY <2>1, <2>2 DEF LockInvoice, TypeOK, Stored
<1>9. Local(t)'
  <2>1. Served(t)'
    BY <1>0, <1>3 DEF Served, Serves, Running, Inline
  <2>2. Queued(t)'
    <3>1. \A x \in todo[t] \ {i} : i < x
      BY <1>2, <1>1, SubledgerAssumption
    <3> QED
      BY <1>0, <1>3, <1>2, <1>1, <1>7, <3>1 DEF Queued
  <2>3. Holds(t)'
    <3>1. HeldInvoices(t)' \cup todo'[t] = HeldInvoices(t) \cup todo[t]
      BY <1>3, <1>2, <1>7
    <3>2. req[t].kind # "invoice" /\ req[t].kind # "voidPayment"
      BY <1>5
    <3> QED
      BY <1>0, <1>3, <1>7, <3>1, <3>2 DEF Holds, Serves
  <2>4. Based(t)'
    <3>1. OfInvoice(t, invoice[i], invoice[i])'
      BY <1>0, <1>3, <1>4, <1>5 DEF OfInvoice, Serves, LockInvoice, Stored
    <3>2. \A j \in HeldInvoices(t) : OfInvoice(t, inv[t][j], invoice[j])'
      BY <1>0, <1>3, <1>5, <1>7 DEF Based, OfInvoice, Serves, LockInvoice, Stored
    <3>3. \A j \in HeldInvoices(t)' : OfInvoice(t, inv[t][j], invoice[j])'
      BY <1>7, <3>1, <3>2 DEF LockInvoice, Stored
    <3>4. \A p \in HeldPayments(t)' : OfPayment(t, pay[t][p], payment[p])'
      BY <1>0, <1>3, <1>7 DEF Based, OfPayment, Serves, LockInvoice, Stored
    <3> QED
      BY <3>3, <3>4 DEF Based
  <2>5. KeyFree(t)'
    BY <1>0, <1>3 DEF KeyFree, LockInvoice, Stored, OrderTaken, RefTaken
  <2> QED
    BY <2>1, <2>2, <2>3, <2>4, <2>5 DEF Local
<1>10. Keeps(t)
  <2>1. \A u \in Txns \ {t} : Same(u)
    BY DEF LockInvoice, Same, TypeOK
  <2>2. \A kind \in {"invoice", "payment"} :
          (t \in DocNoHolders(kind))' => t \in DocNoHolders(kind)
    BY <1>3 DEF DocNoHolders, Running
  <2> QED
    BY <1>6, <1>7, <2>1, <2>2 DEF Keeps, Excluded, LockInvoice
<1> QED
  BY <1>8, <1>9, <1>10, KeepsInv

\* A request that voids has the one row it was about.
LEMMA VoidInvoiceKeeps ==
    ASSUME ReceivablesInv, NEW t \in Txns, NEW i \in InvoiceIds, VoidInvoice(t, i)
    PROVE  ReceivablesInv'
<1>0. /\ ReceivablesInv /\ pc[t] = "invoices" /\ req[t].kind = "voidInvoice"
      /\ todo[t] = {} /\ inv[t][i] # NoRow
  BY DEF VoidInvoice, HasRows
<1>1. CASE Refuse(t)
  BY <1>1, RefuseKeeps
<1>2. CASE ~Refuse(t)
  <2> USE DEF ReceivablesInv
  <2>1. /\ MayVoidInvoice(inv[t][i])
        /\ inv' = [inv EXCEPT ![t][i].status = "VOIDED"] /\ Goto(t, "post")
        /\ UNCHANGED <<Stored, req, todo, pay, news>>
    BY <1>2 DEF VoidInvoice
  <2>2. HeldInvoices(t) = {i} /\ HeldPayments(t) = {} /\ news[t].commands = {}
    <3>1. IsOne(HeldInvoices(t) \cup todo[t]) /\ HeldPayments(t) = {} /\ news[t].commands = {}
      BY <1>0 DEF Holds
    <3> QED
      BY <1>0, <3>1 DEF IsOne, HeldInvoices
  <2>3. inv[t][i] \in Invoice /\ inv[t] \in [InvoiceIds -> Invoice \cup {NoRow}]
    BY <1>0 DEF TypeOK
  <2> DEFINE row == [inv[t][i] EXCEPT !.status = "VOIDED"]
  <2>4. /\ row \in Invoice /\ row.order = inv[t][i].order /\ row.total = inv[t][i].total
        /\ row.status = "VOIDED" /\ row.settled = inv[t][i].settled
    BY <2>3 DEF Invoice
  <2>5. /\ pc'[t] = "post" /\ req'[t] = req[t] /\ todo'[t] = todo[t]
        /\ pay'[t] = pay[t] /\ news'[t] = news[t] /\ inv'[t] = [inv[t] EXCEPT ![i] = row]
    BY <2>1 DEF TypeOK, Goto
  <2>6. row # NoRow
    BY <2>4, ReceivablesAssumption
  <2>7. inv'[t][i] = row /\ inv' \in [Txns -> [InvoiceIds -> Invoice \cup {NoRow}]]
    BY <2>1, <2>3, <2>4 DEF TypeOK
  <2> HIDE DEF row
  <2>8. HeldInvoices(t)' = {i} /\ HeldPayments(t)' = {}
    BY <2>2, <2>3, <2>5, <2>6 DEF HeldInvoices, HeldPayments
  <2>9. req[t] \in RequestType
    BY <1>0, KindsThere DEF Running
  <2>10. TypeOK'
    BY <2>1, <2>7 DEF TypeOK, Stored, Goto
  <2>11. Local(t)'
    <3>1. Served(t)'
      BY <1>0, <2>5, <2>9 DEF Served, Serves
    <3>2. Queued(t)'
      BY <1>0, <2>5 DEF Queued
    <3>3. Holds(t)'
      <4>1. news[t] = Nothing
        BY <1>0 DEF Holds, Serves
      <4> QED
        BY <1>0, <2>5, <2>8, <4>1 DEF Holds, Serves, Nothing, IsOne
    <3>4. Based(t)'
      <4>1. OfInvoice(t, inv[t][i], invoice[i])
        BY <2>2 DEF Based
      <4>2. OfInvoice(t, inv[t][i], invoice[i])'
        BY <1>0, <2>1, <2>4, <2>5, <2>7, <4>1 DEF OfInvoice, Serves, MayVoidInvoice, Stored
      <4> QED
        BY <2>7, <2>8, <4>2 DEF Based
    <3>5. KeyFree(t)'
      BY <1>0, <2>5 DEF KeyFree
    <3> QED
      BY <3>1, <3>2, <3>3, <3>4, <3>5 DEF Local
  <2>12. Keeps(t)
    <3>1. \A u \in Txns \ {t} : Same(u)
      BY <2>1 DEF Same, TypeOK, Goto
    <3>2. \A kind \in {"invoice", "payment"} :
            (t \in DocNoHolders(kind))' => t \in DocNoHolders(kind)
      BY <1>0, <2>5 DEF DocNoHolders
    <3> QED
      BY <2>1, <2>2, <2>8, <3>1, <3>2 DEF Keeps, Excluded
  <2> QED
    BY <2>10, <2>11, <2>12, KeepsInv
<1> QED
  BY <1>1, <1>2

LEMMA VoidPaymentKeeps ==
    ASSUME ReceivablesInv, NEW t \in Txns, NEW p \in PaymentIds, VoidPayment(t, p)
    PROVE  ReceivablesInv'
<1>0. /\ ReceivablesInv /\ pc[t] = "payments" /\ req[t].kind = "voidPayment"
      /\ todo[t] = {} /\ pay[t][p] # NoRow
  BY DEF VoidPayment, HasRows
<1>1. CASE Refuse(t)
  BY <1>1, RefuseKeeps
<1>2. CASE ~Refuse(t)
  <2> USE DEF ReceivablesInv
  <2>1. /\ MayVoidPayment(pay[t][p])
        /\ pay' = [pay EXCEPT ![t][p].status = "VOIDED"] /\ Goto(t, "post")
        /\ UNCHANGED <<Stored, req, todo, inv, news>>
    BY <1>2 DEF VoidPayment
  <2>2. HeldPayments(t) = {p} /\ HeldInvoices(t) = {} /\ news[t] = Nothing
    <3>1. IsOne(HeldPayments(t) \cup todo[t]) /\ HeldInvoices(t) = {} /\ news[t] = Nothing
      BY <1>0 DEF Holds
    <3> QED
      BY <1>0, <3>1 DEF IsOne, HeldPayments
  <2>3. pay[t][p] \in Payment /\ pay[t] \in [PaymentIds -> Payment \cup {NoRow}]
    BY <1>0 DEF TypeOK
  <2> DEFINE row == [pay[t][p] EXCEPT !.status = "VOIDED"]
  <2>4. /\ row \in Payment /\ row.ref = pay[t][p].ref /\ row.customer = pay[t][p].customer
        /\ row.amount = pay[t][p].amount /\ row.status = "VOIDED"
    BY <2>3 DEF Payment
  <2>5. /\ pc'[t] = "post" /\ req'[t] = req[t] /\ todo'[t] = todo[t]
        /\ inv'[t] = inv[t] /\ news'[t] = news[t] /\ pay'[t] = [pay[t] EXCEPT ![p] = row]
    BY <2>1 DEF TypeOK, Goto
  <2>6. row # NoRow
    BY <2>4, ReceivablesAssumption
  <2>7. pay'[t][p] = row /\ pay' \in [Txns -> [PaymentIds -> Payment \cup {NoRow}]]
    BY <2>1, <2>3, <2>4 DEF TypeOK
  <2> HIDE DEF row
  <2>8. HeldPayments(t)' = {p} /\ HeldInvoices(t)' = {}
    BY <2>2, <2>3, <2>5, <2>6 DEF HeldInvoices, HeldPayments
  <2>9. req[t] \in RequestType
    BY <1>0, KindsThere DEF Running
  <2>10. TypeOK'
    BY <2>1, <2>7 DEF TypeOK, Stored, Goto
  <2>11. Local(t)'
    <3>1. Served(t)'
      BY <1>0, <2>5, <2>9 DEF Served, Serves
    <3>2. Queued(t)'
      BY <1>0, <2>5 DEF Queued
    <3>3. Holds(t)'
      BY <1>0, <2>2, <2>5, <2>8 DEF Holds, Serves, Nothing, IsOne
    <3>4. Based(t)'
      <4>1. OfPayment(t, pay[t][p], payment[p])
        BY <2>2 DEF Based
      <4>2. OfPayment(t, pay[t][p], payment[p])'
        BY <1>0, <2>1, <2>4, <2>5, <2>7, <4>1 DEF OfPayment, Serves, MayVoidPayment, Stored, Payment
      <4> QED
        BY <2>7, <2>8, <4>2 DEF Based
    <3>5. KeyFree(t)'
      BY <1>0, <2>5 DEF KeyFree
    <3> QED
      BY <3>1, <3>2, <3>3, <3>4, <3>5 DEF Local
  <2>12. Keeps(t)
    <3>1. \A u \in Txns \ {t} : Same(u)
      BY <2>1 DEF Same, TypeOK, Goto
    <3>2. \A kind \in {"invoice", "payment"} :
            (t \in DocNoHolders(kind))' => t \in DocNoHolders(kind)
      BY <1>0, <2>5 DEF DocNoHolders
    <3> QED
      BY <2>1, <2>2, <2>8, <3>1, <3>2 DEF Keeps, Excluded
  <2> QED
    BY <2>10, <2>11, <2>12, KeepsInv
<1> QED
  BY <1>1, <1>2

\* With its payments locked, t goes on to the invoices, or to its end.
LEMMA GoOnKeeps ==
    ASSUME ReceivablesInv, NEW t \in Txns, pc[t] = "payments", todo[t] = {},
           NEW rows \in SUBSET InvoiceIds, NEW where \in {"invoices", "commit"},
           Goto(t, where), todo' = [todo EXCEPT ![t] = rows],
           UNCHANGED <<Stored, req, inv, pay, news>>,
           \/ req[t].kind = "allocate" /\ where = "commit" /\ rows = {}
           \/ req[t].kind = "allocate" /\ where = "invoices" /\ rows = DOMAIN req[t].batch
           \/ req[t].kind = "rebuild" /\ where = "invoices"
    PROVE  ReceivablesInv'
<1> USE DEF ReceivablesInv
<1>1. /\ pc'[t] = where /\ req'[t] = req[t] /\ todo'[t] = rows
      /\ inv'[t] = inv[t] /\ pay'[t] = pay[t] /\ news'[t] = news[t]
  BY DEF TypeOK, Goto
<1>2. /\ HeldInvoices(t)' = HeldInvoices(t) /\ HeldPayments(t)' = HeldPayments(t)
      /\ HeldInvoices(t) = {} /\ news[t] = Nothing
  BY <1>1 DEF HeldInvoices, HeldPayments, Holds
<1>3. TypeOK'
  BY DEF TypeOK, Stored, Goto
<1>4. Local(t)'
  <2>1. Served(t)'
    BY <1>1 DEF Served, Serves, Running, Inline
  <2>2. Queued(t)'
    BY <1>1, <1>2 DEF Queued
  <2>3. Holds(t)'
    <3>1. req[t].kind = "allocate" => IsOne(HeldPayments(t))
      BY DEF Holds
    <3> QED
      BY <1>1, <1>2, <3>1 DEF Holds, Serves, Nothing
  <2>4. Based(t)'
    BY <1>1, <1>2 DEF Based, OfPayment, Serves, Stored
  <2>5. KeyFree(t)'
    BY <1>1 DEF KeyFree
  <2> QED
    BY <2>1, <2>2, <2>3, <2>4, <2>5 DEF Local
<1>5. Keeps(t)
  <2>1. \A u \in Txns \ {t} : Same(u)
    BY DEF Same, TypeOK, Goto
  <2>2. \A kind \in {"invoice", "payment"} :
          (t \in DocNoHolders(kind))' => t \in DocNoHolders(kind)
    BY <1>1 DEF DocNoHolders, Running
  <2> QED
    BY <1>2, <2>1, <2>2 DEF Keeps, Excluded
<1> QED
  BY <1>3, <1>4, <1>5, KeepsInv

LEMMA CheckPaymentKeeps ==
    ASSUME ReceivablesInv, NEW t \in Txns, CheckPayment(t)
    PROVE  ReceivablesInv'
<1>1. pc[t] = "payments" /\ todo[t] = {} /\ req[t].kind = "allocate"
  BY DEF CheckPayment, HasRows
<1>2. DOMAIN req[t].batch \subseteq InvoiceIds
  <2>1. Served(t) /\ t \in Running
    BY <1>1 DEF ReceivablesInv, Running
  <2>2. req[t].batch \in Batches
    BY <1>1, <2>1 DEF Served, Serves
  <2> QED
    BY <2>2, SubledgerAssumption
<1>3. CASE Refuse(t)
  BY <1>3, RefuseKeeps
<1>4. CASE Goto(t, "commit") /\ UNCHANGED <<Stored, req, todo, inv, pay, news>>
  <2>1. todo' = [todo EXCEPT ![t] = {}]
    BY <1>1, <1>4 DEF ReceivablesInv, TypeOK
  <2> QED
    BY <1>1, <1>4, <2>1, GoOnKeeps
<1>5. CASE /\ Goto(t, "invoices") /\ todo' = [todo EXCEPT ![t] = DOMAIN req[t].batch]
           /\ UNCHANGED <<Stored, req, inv, pay, news>>
  BY <1>1, <1>2, <1>5, GoOnKeeps
<1> QED
  BY <1>3, <1>4, <1>5 DEF CheckPayment

LEMMA SelectInvoicesKeeps ==
    ASSUME ReceivablesInv, NEW t \in Txns, SelectInvoices(t)
    PROVE  ReceivablesInv'
<1> DEFINE rows == {i \in InvoiceIds : invoice[i] # NoRow}
<1>1. /\ pc[t] = "payments" /\ todo[t] = {} /\ req[t].kind = "rebuild"
      /\ Goto(t, "invoices") /\ todo' = [todo EXCEPT ![t] = rows]
      /\ UNCHANGED <<Stored, req, inv, pay, news>>
  BY DEF SelectInvoices, HasRows
<1>2. rows \in SUBSET InvoiceIds
  OBVIOUS
<1> HIDE DEF rows
<1> QED
  BY <1>1, <1>2, GoOnKeeps

\* The same rows, but for the maintained columns.
InvoicesLike(x, y) ==
    \A i \in InvoiceIds :
       IF y[i] = NoRow THEN x[i] = NoRow
       ELSE /\ x[i] # NoRow /\ x[i].order = y[i].order /\ x[i].total = y[i].total
            /\ x[i].status = "VOIDED" <=> y[i].status = "VOIDED"

PaymentsLike(x, y) ==
    \A p \in PaymentIds :
       IF y[p] = NoRow THEN x[p] = NoRow
       ELSE /\ x[p] # NoRow /\ x[p].ref = y[p].ref /\ x[p].customer = y[p].customer
            /\ x[p].amount = y[p].amount /\ x[p].status = y[p].status

\* What t leaves in rows it holds, when it changes maintained columns alone.
LEMMA ColumnsKeep ==
    ASSUME ReceivablesInv, NEW t \in Txns,
           pc[t] \in {"invoices", "sum"}, todo[t] = {},
           NEW where \in {"sum", "commit"}, Goto(t, where),
           UNCHANGED <<Stored, req, todo>>,
           where = "sum" => req[t].kind = "rebuild",
           req[t].kind \in {"payment", "allocate", "rebuild"},
           NEW x \in [InvoiceIds -> Invoice \cup {NoRow}], inv' = [inv EXCEPT ![t] = x],
           InvoicesLike(x, inv[t]),
           NEW y \in [PaymentIds -> Payment \cup {NoRow}], pay' = [pay EXCEPT ![t] = y],
           PaymentsLike(y, pay[t]),
           NEW n \in [commands : SUBSET Command, entries : SUBSET EntryType],
           n.commands # {} => IsOne(n.commands) /\ where = "commit",
           news' = [news EXCEPT ![t] = n], where = "sum" => n = Nothing
    PROVE  ReceivablesInv'
<1> USE DEF ReceivablesInv
<1>1. /\ pc'[t] = where /\ req'[t] = req[t] /\ todo'[t] = {} /\ inv'[t] = x /\ pay'[t] = y
      /\ news'[t] = n /\ t \in Running /\ pc[t] # "doc"
  BY DEF TypeOK, Goto, Running
<1>2. HeldInvoices(t)' = HeldInvoices(t) /\ HeldPayments(t)' = HeldPayments(t)
  BY <1>1 DEF HeldInvoices, HeldPayments, InvoicesLike, PaymentsLike
<1>3. TypeOK'
  BY DEF TypeOK, Stored, Goto
<1>4. Local(t)'
  <2>1. Served(t)'
    BY <1>1 DEF Served, Serves, Running, Inline
  <2>2. Queued(t)'
    BY <1>1 DEF Queued
  <2>3. Holds(t)'
    <3>1. CASE where = "sum"
      <4>1. pc'[t] = "sum" /\ news'[t] = Nothing /\ news'[t].commands = {}
        <5>1. n = Nothing /\ Nothing.commands = {}
          BY <3>1 DEF Nothing
        <5> QED
          BY <1>1, <3>1, <5>1
      <4> QED
        BY <4>1 DEF Holds, Serves
    <3>2. CASE where = "commit"
      <4>1. pc[t] = "sum" => req[t].kind = "rebuild"
        BY KindsThere
      <4>2. req[t].kind \in {"payment", "allocate"} => IsOne(HeldPayments(t))
        BY <4>1 DEF Holds
      <4> QED
        BY <1>1, <1>2, <3>2, <4>2 DEF Holds, Serves
    <3> QED
      BY <3>1, <3>2
  <2>4. Based(t)'
    <3>1. \A i \in HeldInvoices(t) : OfInvoice(t, inv[t][i], invoice[i])'
      <4> TAKE i \in HeldInvoices(t)
      <4>1. OfInvoice(t, inv[t][i], invoice[i]) /\ i \in InvoiceIds /\ inv[t][i] # NoRow
        BY DEF Based, HeldInvoices
      <4> QED
        BY <1>1, <4>1 DEF OfInvoice, Serves, Stored, InvoicesLike
    <3>2. \A p \in HeldPayments(t) : OfPayment(t, pay[t][p], payment[p])'
      <4> TAKE p \in HeldPayments(t)
      <4>1. OfPayment(t, pay[t][p], payment[p]) /\ p \in PaymentIds /\ pay[t][p] # NoRow
        BY DEF Based, HeldPayments
      <4> QED
        BY <1>1, <4>1 DEF OfPayment, Serves, Stored, PaymentsLike
    <3> QED
      BY <1>2, <3>1, <3>2 DEF Based
  <2>5. KeyFree(t)'
    <3>1. pc[t] = "sum" => req[t].kind = "rebuild"
      BY KindsThere
    <3> QED
      BY <1>1, <3>1 DEF KeyFree, Stored, OrderTaken, RefTaken
  <2> QED
    BY <2>1, <2>2, <2>3, <2>4, <2>5 DEF Local
<1>5. Keeps(t)
  <2>1. \A u \in Txns \ {t} : Same(u)
    BY DEF Same, TypeOK, Goto
  <2>2. \A kind \in {"invoice", "payment"} :
          (t \in DocNoHolders(kind))' => t \in DocNoHolders(kind)
    BY <1>1 DEF DocNoHolders
  <2> QED
    BY <1>2, <2>1, <2>2 DEF Keeps, Excluded
<1> QED
  BY <1>3, <1>4, <1>5, KeepsInv

\* What a batch asks for is a finite sum of integers.
LEMMA BatchSum ==
    ASSUME NEW b \in Batches
    PROVE  /\ DOMAIN b \subseteq InvoiceIds /\ IsFiniteSet(DOMAIN b)
           /\ b \in [DOMAIN b -> Int] /\ SumFunction(b) \in Int
<1>1. DOMAIN b \subseteq InvoiceIds /\ b \in [DOMAIN b -> Nat \ {0}]
  BY SubledgerAssumption
<1>2. IsFiniteSet(DOMAIN b)
  BY <1>1, SubledgerAssumption, FS_Subset
<1>3. b \in [DOMAIN b -> Int]
  BY <1>1
<1> QED
  BY <1>1, <1>2, <1>3, SumInt

LEMMA LineInt ==
    ASSUME NEW c \in Command, NEW i
    PROVE  LineFor(c, i) \in Int
<1>1. c.batch \in Batches
  BY DEF Command
<1>2. c.batch \in [DOMAIN c.batch -> Int]
  BY <1>1, BatchSum
<1> QED
  BY <1>2 DEF LineFor

LEMMA SettledInt ==
    ASSUME NEW cs \in SUBSET Command, IsFiniteSet(cs), NEW i
    PROVE  SettledBy(cs, i) \in Int
<1> DEFINE f == [c \in cs |-> LineFor(c, i)]
<1>1. f \in [cs -> Int]
  BY LineInt
<1> HIDE DEF f
<1>2. SumFunction(f) \in Int
  BY <1>1, SumInt
<1> QED
  BY <1>2 DEF SettledBy, f

LEMMA AllocatedInt ==
    ASSUME NEW cs \in SUBSET Command, IsFiniteSet(cs), NEW p
    PROVE  AllocatedBy(cs, p) \in Int
<1> DEFINE D == {d \in cs : d.payment = p}
           f == [c \in D |-> SumFunction(c.batch)]
<1>1. IsFiniteSet(D)
  BY FS_Subset
<1>2. ASSUME NEW c \in cs PROVE SumFunction(c.batch) \in Int
  <2>1. c.batch \in Batches
    BY DEF Command
  <2> QED
    BY <2>1, BatchSum
<1>3. f \in [D -> Int]
  BY <1>2
<1> HIDE DEF f, D
<1>4. SumFunction(f) \in Int
  BY <1>1, <1>3, SumInt
<1> QED
  BY <1>4 DEF AllocatedBy, f, D

\* The command of an allocation under way, with its payment locked.
LEMMA CommandThere ==
    ASSUME ReceivablesInv, NEW t \in Txns,
           \/ req[t].kind = "allocate" /\ pc[t] \in {"invoices", "commit"}
           \/ req[t].kind = "allocate" /\ pc[t] = "payments" /\ todo[t] = {}
           \/ Inline(t) /\ pc[t] \in {"invoices", "commit"}
    PROVE  /\ req[t].batch \in Batches /\ CommandOf(t).batch = req[t].batch
           /\ HeldPayments(t) = {CommandOf(t).payment} /\ CommandOf(t).payment \in PaymentIds
           /\ CommandOf(t) \in Command
<1> USE DEF ReceivablesInv
<1>1. t \in Running /\ req[t].kind \in {"allocate", "payment"}
  BY DEF Running, Inline
<1>2. /\ req[t] \in RequestType
      /\ req[t].kind = "allocate" => req[t].batch \in Batches /\ req[t].ref \in RequestRefs
      /\ req[t].kind = "payment" => req[t].receipt \in Receipt
  BY <1>1 DEF Served, Serves
<1>3. req[t].batch \in Batches
  BY <1>2 DEF Inline, RequestType
<1>4. IsOne(HeldPayments(t))
  <2>1. CASE pc[t] = "payments"
    <3>1. IsOne(HeldPayments(t) \cup todo[t]) /\ todo[t] = {}
      BY <2>1 DEF Holds, Inline
    <3> QED
      BY <3>1 DEF IsOne
  <2>2. CASE pc[t] # "payments"
    BY <1>1, <2>2 DEF Holds
  <2> QED
    BY <2>1, <2>2
<1>5. PICK p \in PaymentIds : HeldPayments(t) = {p}
  BY <1>4 DEF IsOne, HeldPayments
<1>6. (CHOOSE q \in PaymentIds : pay[t][q] # NoRow) = p
  BY <1>5 DEF HeldPayments
<1>7. /\ CommandOf(t) = [payment |-> p, batch |-> req[t].batch,
                         ref |-> IF Inline(t) THEN req[t].receipt.ref ELSE req[t].ref]
  BY <1>6 DEF CommandOf
<1>8. (IF Inline(t) THEN req[t].receipt.ref ELSE req[t].ref) \in RequestRefs \cup ExternalRefs
  BY <1>1, <1>2 DEF Inline, Receipt
<1> QED
  BY <1>3, <1>5, <1>7, <1>8 DEF Command

LEMMA StatusIsOne ==
    ASSUME NEW row PROVE StatusFor(row) \in {"OPEN", "PARTIAL", "PAID"}
BY DEF StatusFor

LEMMA SettleKeepsRow ==
    ASSUME NEW row \in Invoice, NEW n \in Int
    PROVE  /\ Settle(row, n) \in Invoice /\ Settle(row, n).order = row.order
           /\ Settle(row, n).total = row.total /\ Settle(row, n).status # "VOIDED"
           /\ Settle(row, n).settled = row.settled + n
<1> DEFINE paid == [row EXCEPT !.settled = @ + n]
<1>1. paid \in Invoice /\ paid.order = row.order /\ paid.total = row.total
      /\ paid.settled = row.settled + n
  BY DEF Invoice
<1>2. Settle(row, n) = [paid EXCEPT !.status = StatusFor(paid)]
  BY DEF Settle
<1> HIDE DEF paid
<1>3. StatusFor(paid) \in {"OPEN", "PARTIAL", "PAID"}
  BY StatusIsOne
<1> QED
  BY <1>1, <1>2, <1>3 DEF Invoice

LEMMA ResetKeepsRow ==
    ASSUME NEW row \in Invoice, NEW n \in Int
    PROVE  /\ ResetTo(row, n) \in Invoice /\ ResetTo(row, n).order = row.order
           /\ ResetTo(row, n).total = row.total
           /\ ResetTo(row, n).status = "VOIDED" <=> row.status = "VOIDED"
           /\ ResetTo(row, n).settled = n
<1> DEFINE right == [row EXCEPT !.settled = n]
<1>1. right \in Invoice /\ right.order = row.order /\ right.total = row.total
      /\ right.settled = n /\ right.status = row.status
  BY DEF Invoice
<1>2. ResetTo(row, n) =
        IF row.status = "VOIDED" THEN right ELSE [right EXCEPT !.status = StatusFor(right)]
  BY DEF ResetTo
<1> HIDE DEF right
<1>3. StatusFor(right) \in {"OPEN", "PARTIAL", "PAID"}
  BY StatusIsOne
<1> QED
  BY <1>1, <1>2, <1>3 DEF Invoice

LEMMA AllocateKeeps ==
    ASSUME ReceivablesInv, NEW t \in Txns, Allocate(t)
    PROVE  ReceivablesInv'
<1>0. CASE Refuse(t)
  BY <1>0, RefuseKeeps
<1>1. CASE ~Refuse(t)
  <2> DEFINE c == CommandOf(t)
             x == [i \in InvoiceIds |->
                     IF i \in DOMAIN c.batch THEN Settle(inv[t][i], c.batch[i]) ELSE inv[t][i]]
             y == [pay[t] EXCEPT ![c.payment].allocated = @ + SumFunction(c.batch)]
             n == [news[t] EXCEPT !.commands = {c}]
  <2>1. /\ pc[t] = "invoices" /\ todo[t] = {} /\ FitsLocked(t, c)
        /\ req[t].kind = "allocate" \/ Inline(t)
        /\ Goto(t, "commit") /\ UNCHANGED <<Stored, req, todo>>
        /\ inv' = [inv EXCEPT ![t] = x] /\ pay' = [pay EXCEPT ![t] = y]
        /\ news' = [news EXCEPT ![t] = n]
    BY <1>1 DEF Allocate, MayAllocate, CarryOut, HasRows, ReceivablesInv, TypeOK
  <2>2. /\ req[t].batch \in Batches /\ c.batch = req[t].batch
        /\ HeldPayments(t) = {c.payment} /\ c.payment \in PaymentIds /\ c \in Command
    BY <2>1, CommandThere
  <2>3. HeldInvoices(t) = DOMAIN c.batch
    BY <2>1, <2>2 DEF ReceivablesInv, Holds, Serves, Inline
  <2>4. /\ c.batch \in [DOMAIN c.batch -> Int] /\ SumFunction(c.batch) \in Int
        /\ DOMAIN c.batch \subseteq InvoiceIds
    BY <2>2, BatchSum
  <2>5. /\ inv[t] \in [InvoiceIds -> Invoice \cup {NoRow}]
        /\ pay[t] \in [PaymentIds -> Payment \cup {NoRow}]
        /\ news[t] \in [commands : SUBSET Command, entries : SUBSET EntryType]
    BY DEF ReceivablesInv, TypeOK
  <2>6. n \in [commands : SUBSET Command, entries : SUBSET EntryType] /\ IsOne(n.commands)
    BY <2>2, <2>5 DEF IsOne
  <2>7. ASSUME NEW i \in DOMAIN c.batch
        PROVE  inv[t][i] \in Invoice /\ inv[t][i].status # "VOIDED" /\ i \in InvoiceIds
    BY <2>1, <2>3, <2>4, <2>5 DEF HeldInvoices, FitsLocked
  <2>8. x \in [InvoiceIds -> Invoice \cup {NoRow}] /\ InvoicesLike(x, inv[t])
    <3>1. ASSUME NEW i \in DOMAIN c.batch
          PROVE  /\ x[i] \in Invoice /\ x[i].order = inv[t][i].order
                 /\ x[i].total = inv[t][i].total /\ x[i].status # "VOIDED"
      BY <2>4, <2>7, SettleKeepsRow
    <3>2. \A i \in InvoiceIds \ DOMAIN c.batch : x[i] = inv[t][i]
      OBVIOUS
    <3>3. DOMAIN x = InvoiceIds /\ x = [i \in InvoiceIds |-> x[i]]
      OBVIOUS
    <3> HIDE DEF x
    <3>4. x \in [InvoiceIds -> Invoice \cup {NoRow}]
      BY <2>5, <3>1, <3>2, <3>3
    <3> QED
      BY <2>7, <3>1, <3>2, <3>4, ReceivablesAssumption DEF InvoicesLike
  <2>9. y \in [PaymentIds -> Payment \cup {NoRow}] /\ PaymentsLike(y, pay[t])
    <3>1. pay[t][c.payment] \in Payment
      BY <2>2, <2>5 DEF HeldPayments
    <3> DEFINE row == [pay[t][c.payment] EXCEPT !.allocated = @ + SumFunction(c.batch)]
    <3>2. /\ row \in Payment /\ row.ref = pay[t][c.payment].ref
          /\ row.customer = pay[t][c.payment].customer
          /\ row.amount = pay[t][c.payment].amount /\ row.status = pay[t][c.payment].status
      BY <2>4, <3>1 DEF Payment
    <3>3. y = [pay[t] EXCEPT ![c.payment] = row]
      OBVIOUS
    <3> HIDE DEF row, y, c
    <3> QED
      BY <2>2, <2>5, <3>1, <3>2, <3>3, ReceivablesAssumption DEF PaymentsLike
  <2> HIDE DEF x, y, n
  <2>10. req[t].kind \in {"payment", "allocate", "rebuild"}
    BY <2>1 DEF Inline
  <2> QED
    BY <2>1, <2>6, <2>8, <2>9, <2>10, ColumnsKeep
<1> QED
  BY <1>0, <1>1

LEMMA SumInvoicesKeeps ==
    ASSUME ReceivablesInv, NEW t \in Txns, SumInvoices(t)
    PROVE  ReceivablesInv'
<1> DEFINE x == [i \in InvoiceIds |->
                   IF inv[t][i] = NoRow THEN NoRow
                   ELSE ResetTo(inv[t][i], SettledBy(commands, i))]
           y == pay[t]
           n == news[t]
<1>1. /\ pc[t] = "invoices" /\ todo[t] = {} /\ req[t].kind = "rebuild"
      /\ Goto(t, "sum") /\ UNCHANGED <<Stored, req, todo>>
      /\ inv' = [inv EXCEPT ![t] = x] /\ pay' = [pay EXCEPT ![t] = y]
      /\ news' = [news EXCEPT ![t] = n]
  BY DEF SumInvoices, HasRows, ReceivablesInv, TypeOK
<1>2. /\ inv[t] \in [InvoiceIds -> Invoice \cup {NoRow}]
      /\ y \in [PaymentIds -> Payment \cup {NoRow}]
      /\ n \in [commands : SUBSET Command, entries : SUBSET EntryType]
  BY DEF ReceivablesInv, TypeOK
<1>3. \A i \in InvoiceIds : SettledBy(commands, i) \in Int
  BY SettledInt DEF ReceivablesInv, TypeOK
<1>4. ASSUME NEW i \in InvoiceIds, inv[t][i] # NoRow
      PROVE  /\ x[i] \in Invoice /\ x[i].order = inv[t][i].order
             /\ x[i].total = inv[t][i].total
             /\ x[i].status = "VOIDED" <=> inv[t][i].status = "VOIDED"
  <2>1. x[i] = ResetTo(inv[t][i], SettledBy(commands, i)) /\ inv[t][i] \in Invoice
    BY <1>2, <1>4
  <2> QED
    BY <2>1, <1>3, ResetKeepsRow
<1>5. \A i \in InvoiceIds : inv[t][i] = NoRow => x[i] = NoRow
  OBVIOUS
<1>6. x = [i \in InvoiceIds |-> x[i]]
  OBVIOUS
<1>7. y = pay[t]
  OBVIOUS
<1> HIDE DEF x, y, n
<1>8. x \in [InvoiceIds -> Invoice \cup {NoRow}] /\ InvoicesLike(x, inv[t])
  BY <1>2, <1>4, <1>5, <1>6, ReceivablesAssumption DEF InvoicesLike
<1>9. PaymentsLike(y, pay[t])
  BY <1>7 DEF PaymentsLike
<1>10. n = Nothing /\ n.commands = {}
  BY <1>1 DEF n, ReceivablesInv, Holds, Serves, Nothing
<1> QED
  BY <1>1, <1>2, <1>8, <1>9, <1>10, ColumnsKeep

LEMMA SumPaymentsKeeps ==
    ASSUME ReceivablesInv, NEW t \in Txns, SumPayments(t)
    PROVE  ReceivablesInv'
<1> DEFINE x == inv[t]
           y == [p \in PaymentIds |->
                   IF pay[t][p] = NoRow THEN NoRow
                   ELSE [pay[t][p] EXCEPT !.allocated = AllocatedBy(commands, p)]]
           n == news[t]
<1>1. /\ pc[t] = "sum" /\ req[t].kind = "rebuild" /\ todo[t] = {}
      /\ Goto(t, "commit") /\ UNCHANGED <<Stored, req, todo>>
      /\ inv' = [inv EXCEPT ![t] = x] /\ pay' = [pay EXCEPT ![t] = y]
      /\ news' = [news EXCEPT ![t] = n]
  <2>1. pc[t] = "sum" /\ req[t].kind = "rebuild" /\ todo[t] = {}
    BY KindsThere DEF SumPayments, ReceivablesInv, Queued
  <2> QED
    BY <2>1 DEF SumPayments, ReceivablesInv, TypeOK
<1>2. /\ x \in [InvoiceIds -> Invoice \cup {NoRow}]
      /\ pay[t] \in [PaymentIds -> Payment \cup {NoRow}]
      /\ n \in [commands : SUBSET Command, entries : SUBSET EntryType]
  BY DEF ReceivablesInv, TypeOK
<1>3. \A p \in PaymentIds : AllocatedBy(commands, p) \in Int
  BY AllocatedInt DEF ReceivablesInv, TypeOK
<1>4. ASSUME NEW p \in PaymentIds, pay[t][p] # NoRow
      PROVE  /\ y[p] \in Payment /\ y[p].ref = pay[t][p].ref
             /\ y[p].customer = pay[t][p].customer
             /\ y[p].amount = pay[t][p].amount /\ y[p].status = pay[t][p].status
  <2>1. y[p] = [pay[t][p] EXCEPT !.allocated = AllocatedBy(commands, p)] /\ pay[t][p] \in Payment
    BY <1>2, <1>4
  <2> HIDE DEF y
  <2> QED
    BY <2>1, <1>3 DEF Payment
<1>5. \A p \in PaymentIds : pay[t][p] = NoRow => y[p] = NoRow
  OBVIOUS
<1>6. y = [p \in PaymentIds |-> y[p]]
  OBVIOUS
<1>7. x = inv[t]
  OBVIOUS
<1>8. n.commands = {}
  BY <1>1 DEF ReceivablesInv, Holds
<1> HIDE DEF x, y, n
<1>9. y \in [PaymentIds -> Payment \cup {NoRow}] /\ PaymentsLike(y, pay[t])
  BY <1>2, <1>4, <1>5, <1>6, ReceivablesAssumption DEF PaymentsLike
<1>10. InvoicesLike(x, inv[t])
  BY <1>7 DEF InvoicesLike
<1> QED
  BY <1>1, <1>2, <1>8, <1>9, <1>10, ColumnsKeep

\* What a commit does to the tables.
LEMMA CommitTables ==
    ASSUME ReceivablesInv, NEW t \in Txns, Commit(t)
    PROVE  /\ \A i \in InvoiceIds :
                invoice'[i] = IF i \in HeldInvoices(t) THEN inv[t][i] ELSE invoice[i]
           /\ \A p \in PaymentIds :
                payment'[p] = IF p \in HeldPayments(t) THEN pay[t][p] ELSE payment[p]
           /\ pc[t] = "commit" /\ todo[t] = {} /\ t \in Running
           /\ \A u \in Txns \ {t} : Same(u)
           /\ \A u \in Txns \ {t} : \A i \in HeldInvoices(u) :
                i \notin HeldInvoices(t) /\ invoice'[i] = invoice[i]
           /\ \A u \in Txns \ {t} : \A p \in HeldPayments(u) :
                p \notin HeldPayments(t) /\ payment'[p] = payment[p]
<1>1. /\ \A i \in InvoiceIds :
            invoice'[i] = IF i \in HeldInvoices(t) THEN inv[t][i] ELSE invoice[i]
      /\ \A p \in PaymentIds :
            payment'[p] = IF p \in HeldPayments(t) THEN pay[t][p] ELSE payment[p]
  BY DEF Commit, HeldInvoices, HeldPayments
<1>2. pc[t] = "commit" /\ todo[t] = {} /\ t \in Running
  BY DEF Commit, ReceivablesInv, Queued, Running
<1>3. \A u \in Txns \ {t} : Same(u)
  BY DEF Commit, End, Goto, Same, ReceivablesInv, TypeOK
<1>4. \A u \in Txns \ {t} : \A i \in HeldInvoices(u) : i \notin HeldInvoices(t) /\ i \in InvoiceIds
  BY DEF ReceivablesInv, Excluded, HeldInvoices
<1>5. \A u \in Txns \ {t} : \A p \in HeldPayments(u) : p \notin HeldPayments(t) /\ p \in PaymentIds
  BY DEF ReceivablesInv, Excluded, HeldPayments
<1> QED
  BY <1>1, <1>2, <1>3, <1>4, <1>5

\* A request of another kind than to issue puts no key into the tables.
LEMMA CommitKeys ==
    ASSUME ReceivablesInv, NEW t \in Txns, Commit(t)
    PROVE  /\ req[t].kind # "invoice" =>
                \A i \in InvoiceIds, o \in Orders : LiveOn(invoice'[i], o) => LiveOn(invoice[i], o)
           /\ req[t].kind # "payment" =>
                \A x : RefTaken(x)' => RefTaken(x)
<1>1. ASSUME req[t].kind # "invoice", NEW i \in InvoiceIds, NEW o \in Orders, LiveOn(invoice'[i], o)
      PROVE  LiveOn(invoice[i], o)
  <2>1. CASE i \in HeldInvoices(t)
    <3>1. OfInvoice(t, inv[t][i], invoice[i]) /\ invoice'[i] = inv[t][i]
      BY <2>1, CommitTables DEF ReceivablesInv, Based
    <3> QED
      BY <1>1, <3>1 DEF OfInvoice, LiveOn
  <2>2. CASE i \notin HeldInvoices(t)
    BY <1>1, <2>2, CommitTables
  <2> QED
    BY <2>1, <2>2
<1>2. ASSUME req[t].kind # "payment", NEW x, RefTaken(x)'
      PROVE  RefTaken(x)
  <2>1. PICK p \in PaymentIds : payment'[p] # NoRow /\ payment'[p].ref = x
    BY <1>2 DEF RefTaken
  <2>2. CASE p \in HeldPayments(t)
    <3>1. OfPayment(t, pay[t][p], payment[p]) /\ payment'[p] = pay[t][p]
      BY <2>2, CommitTables DEF ReceivablesInv, Based
    <3> QED
      BY <1>2, <2>1, <3>1 DEF OfPayment, RefTaken
  <2>3. CASE p \notin HeldPayments(t)
    BY <2>1, <2>3, CommitTables DEF RefTaken
  <2> QED
    BY <2>2, <2>3
<1> QED
  BY <1>1, <1>2

LEMMA CommitKeeps ==
    ASSUME ReceivablesInv, NEW t \in Txns, Commit(t)
    PROVE  ReceivablesInv'
<1> USE DEF ReceivablesInv
<1>1. /\ pc'[t] = "committed" /\ todo'[t] = {} /\ news'[t] = Nothing
      /\ inv'[t] = NoInvoices /\ pay'[t] = NoPayments
  BY DEF TypeOK, Commit, End, Goto
<1>2. HeldInvoices(t)' = {} /\ HeldPayments(t)' = {} /\ ~(t \in Running)'
  BY <1>1 DEF HeldInvoices, HeldPayments, NoInvoices, NoPayments, Running
<1>3. TypeOK'
  <2>1. /\ pc' \in [Txns -> {"idle", "doc", "insert", "payments", "invoices", "post", "sum",
                             "commit", "committed", "refused"}]
        /\ todo' \in [Txns -> SUBSET (InvoiceIds \cup PaymentIds)]
    BY DEF TypeOK, Commit, End, Goto
  <2>2. /\ inv' \in [Txns -> [InvoiceIds -> Invoice \cup {NoRow}]]
        /\ pay' \in [Txns -> [PaymentIds -> Payment \cup {NoRow}]]
        /\ news' \in [Txns -> [commands : SUBSET Command, entries : SUBSET EntryType]]
    BY DEF TypeOK, NoInvoices, NoPayments, Nothing, Commit, End
  <2>3. /\ invoice' \in [InvoiceIds -> Invoice \cup {NoRow}]
        /\ payment' \in [PaymentIds -> Payment \cup {NoRow}]
    BY DEF TypeOK, Commit
  <2>4. commands' \subseteq Command /\ IsFiniteSet(commands')
    <3>1. IsFiniteSet(news[t].commands)
      <4>1. news[t].commands = {} \/ IsOne(news[t].commands)
        BY DEF Holds
      <4>2. CASE news[t].commands # {}
        <5>1. PICK c : news[t].commands = {c}
          BY <4>1, <4>2 DEF IsOne
        <5> QED
          BY <5>1, FS_Singleton
      <4> QED
        BY <4>2, FS_EmptySet
    <3> QED
      BY <3>1, FS_Union DEF Commit, TypeOK
  <2>5. posted' \subseteq EntryType
    BY DEF Commit, TypeOK
  <2> QED
    BY <2>1, <2>2, <2>3, <2>4, <2>5 DEF TypeOK, Commit, End
<1>4. Local(t)'
  <2>1. Served(t)' /\ KeyFree(t)'
    BY <1>1, <1>2 DEF Served, KeyFree
  <2>2. Queued(t)' /\ Based(t)'
    BY <1>1, <1>2 DEF Queued, Based
  <2>3. Holds(t)'
    BY <1>1, <1>2 DEF Holds, Serves, Nothing
  <2> QED
    BY <2>1, <2>2, <2>3 DEF Local
<1>5. ASSUME NEW u \in Txns \ {t}
      PROVE  Local(u)'
  <2>1. Same(u) /\ Local(u)
    BY CommitTables DEF Local
  <2>2. /\ HeldInvoices(u)' = HeldInvoices(u) /\ HeldPayments(u)' = HeldPayments(u)
        /\ (u \in Running)' = (u \in Running) /\ Inline(u)' = Inline(u)
        /\ \A kind, places : Serves(u, kind, places)' = Serves(u, kind, places)
    BY <2>1 DEF HeldInvoices, HeldPayments, Running, Inline, Serves, Same
  <2>3. Served(u)' /\ Queued(u)' /\ Holds(u)'
    BY <2>1, <2>2 DEF Served, Queued, Holds, Same, Local
  <2>4. Based(u)'
    <3>1. \A i \in HeldInvoices(u) : OfInvoice(u, inv[u][i], invoice[i])'
      BY <2>1, <2>2, CommitTables DEF Local, Based, OfInvoice, Same
    <3>2. \A p \in HeldPayments(u) : OfPayment(u, pay[u][p], payment[p])'
      BY <2>1, <2>2, CommitTables DEF Local, Based, OfPayment, Same
    <3> QED
      BY <2>2, <3>1, <3>2 DEF Based
  <2>5. KeyFree(u)'
    <3>1. ASSUME pc[u] \in {"post", "invoices", "commit"}, req[u].kind = "invoice"
          PROVE  ~OrderTaken(req[u].order)'
      <4>1. u \in DocNoHolders("invoice") /\ req[u].order \in Orders /\ ~OrderTaken(req[u].order)
        BY <2>1, <3>1 DEF DocNoHolders, Running, Local, Served, Serves, KeyFree
      <4>2. req[t].kind # "invoice"
        BY <4>1, CommitTables DEF Excluded, DocNoHolders
      <4> QED
        BY <2>1, <4>1, <4>2, CommitKeys DEF OrderTaken, Same
    <3>2. ASSUME pc[u] \in {"post", "invoices", "commit"}, req[u].kind = "payment"
          PROVE  ~RefTaken(req[u].receipt.ref)'
      <4>1. u \in DocNoHolders("payment") /\ ~RefTaken(req[u].receipt.ref)
        BY <2>1, <3>2 DEF DocNoHolders, Running, Local, KeyFree
      <4>2. req[t].kind # "payment"
        BY <4>1, CommitTables DEF Excluded, DocNoHolders
      <4>3. req'[u] = req[u]
        BY <2>1 DEF Same
      <4> QED
        BY <4>1, <4>2, <4>3, CommitKeys DEF RefTaken
    <3> QED
      BY <2>1, <3>1, <3>2 DEF KeyFree, Same
  <2> QED
    BY <2>3, <2>4, <2>5 DEF Local
<1>6. Excluded'
  <2>1. \A u \in Txns \ {t} :
          /\ HeldInvoices(u)' = HeldInvoices(u) /\ HeldPayments(u)' = HeldPayments(u)
          /\ \A kind : (u \in DocNoHolders(kind))' = (u \in DocNoHolders(kind))
    BY CommitTables DEF Same, HeldInvoices, HeldPayments, DocNoHolders, Running
  <2>2. \A kind : ~(t \in DocNoHolders(kind))'
    BY <1>2 DEF DocNoHolders
  <2> QED
    BY <1>2, <2>1, <2>2 DEF Excluded
<1>7. OneLiveInvoice'
  <2> SUFFICES ASSUME NEW i \in InvoiceIds, NEW j \in InvoiceIds, NEW o \in Orders,
                      LiveOn(invoice'[i], o), LiveOn(invoice'[j], o)
               PROVE  i = j
    BY DEF OneLiveInvoice, OneLive
  <2>1. CASE req[t].kind # "invoice"
    BY <2>1, CommitKeys DEF OneLiveInvoice, OneLive
  <2>2. CASE req[t].kind = "invoice"
    <3>1. /\ ~OrderTaken(req[t].order) /\ IsOne(HeldInvoices(t))
          /\ \A k \in HeldInvoices(t) : OfInvoice(t, inv[t][k], invoice[k])
      <4>1. KeyFree(t) /\ Holds(t) /\ Based(t) /\ pc[t] = "commit" /\ todo[t] = {}
        BY CommitTables
      <4>2. HeldInvoices(t) \cup todo[t] = HeldInvoices(t)
        BY <4>1
      <4>3. IsOne(HeldInvoices(t))
        BY <2>2, <4>1, <4>2 DEF Holds
      <4> QED
        BY <2>2, <4>1, <4>3 DEF KeyFree, Based
    <3>2. PICK k \in InvoiceIds : HeldInvoices(t) = {k}
      BY <3>1 DEF IsOne, HeldInvoices
    <3>3. invoice'[k].order = req[t].order /\ \A x \in InvoiceIds \ {k} : invoice'[x] = invoice[x]
      BY <2>2, <3>1, <3>2, CommitTables DEF OfInvoice
    <3>4. \A x \in InvoiceIds : ~LiveOn(invoice[x], req[t].order)
      BY <3>1 DEF OrderTaken
    <3>5. CASE o = req[t].order
      BY <3>3, <3>4, <3>5
    <3>6. CASE o # req[t].order
      <4>1. i # k /\ j # k
        BY <3>3, <3>6 DEF LiveOn
      <4> QED
        BY <3>3, <4>1 DEF OneLiveInvoice, OneLive
    <3> QED
      BY <3>5, <3>6
  <2> QED
    BY <2>1, <2>2
<1> QED
  BY <1>3, <1>4, <1>5, <1>6, <1>7 DEF Local

\* No step of the specification breaks the invariant.
LEMMA NextKeeps ==
    ASSUME ReceivablesInv, [Next]_vars
    PROVE  ReceivablesInv'
<1>1. ASSUME NEW t \in Txns, BeginRequest(t) PROVE ReceivablesInv'
  BY <1>1, BeginKeeps
<1>2. ASSUME NEW t \in Txns, Advance(t) PROVE ReceivablesInv'
  <2>1. CASE RefuseInsert(t) \/ RefuseMissing(t) \/ BreaksCheck(t)
    BY <2>1, RefuseKeeps DEF RefuseInsert, RefuseMissing, BreaksCheck
  <2> QED
    BY <1>2, <2>1, LockDocNoKeeps, InsertInvoiceKeeps, VoidInvoiceKeeps, InsertPaymentKeeps,
       VoidPaymentKeeps, PostKeeps, LockPaymentKeeps, LockInvoiceKeeps, CheckPaymentKeeps,
       AllocateKeeps, SelectInvoicesKeeps, SumInvoicesKeeps, SumPaymentsKeeps, CommitKeeps
       DEF Advance
<1>3. ASSUME NEW t \in Txns, Rollback(t) PROVE ReceivablesInv'
  BY <1>3, RefuseKeeps DEF Rollback
<1>4. CASE UNCHANGED vars
  <2>1. TypeOK' /\ OneLiveInvoice'
    BY <1>4 DEF vars, ReceivablesInv, TypeOK, OneLiveInvoice, OneLive
  <2>2. \A t \in Txns : Local(t)'
    <3> TAKE t \in Txns
    <3>1. UNCHANGED Stored /\ Same(t) /\ Local(t)
      BY <1>4 DEF vars, Stored, Same, ReceivablesInv, Local
    <3> QED
      BY <3>1, OthersStay
  <2>3. Excluded'
    BY <1>4 DEF vars, ReceivablesInv, Excluded, HeldInvoices, HeldPayments, DocNoHolders, Running
  <2> QED
    BY <2>1, <2>2, <2>3 DEF ReceivablesInv, Local
<1> QED
  BY <1>1, <1>2, <1>3, <1>4 DEF Next, Finished

\* ReceivablesInv holds in every reachable state.
THEOREM HoldsAlways == Spec => []ReceivablesInv
<1>1. ReceivablesInv /\ [Next]_vars => ReceivablesInv'
  BY NextKeeps
<1> QED
  BY InitReceivablesInv, <1>1, PTL DEF Spec

\* OneLiveInvoice: whatever is issued and voided at once, an order has at most
\* one invoice that is not voided.
THEOREM OneInvoicePerOrder == Spec => []OneLiveInvoice
<1>1. ReceivablesInv => OneLiveInvoice
  BY DEF ReceivablesInv
<1> QED
  BY HoldsAlways, <1>1, PTL

(***************************************************************************)
(* Deadlock. In a set of transactions without inline allocations that all  *)
(* wait for one another, nobody can be at a statement after another: who   *)
(* has the last lock is at the last statement, and waits for none.         *)
(***************************************************************************)

\* A transaction that waits holds what its statement may hold.
LEMMA WaitingHolds ==
    ASSUME ReceivablesInv, NEW u \in Txns, u \in Running, ~Inline(u), WaitsFor(u) # {}
    PROVE  /\ pc[u] \in {"doc", "insert", "post", "payments", "invoices"}
           /\ news[u].entries = {}
           /\ pc[u] \in {"payments", "invoices"} => todo[u] # {}
           /\ pc[u] \in {"doc", "insert"} => HeldPayments(u) = {}
           /\ pc[u] \in {"doc", "insert", "payments"} => HeldInvoices(u) = {}
<1> USE DEF ReceivablesInv
<1>1. pc[u] \in {"doc", "insert", "post", "payments", "invoices"}
  BY DEF WaitsFor
<1>2. pc[u] \in {"payments", "invoices"} => todo[u] # {}
  BY DEF WaitsFor
<1>3. pc[u] = "invoices" => req[u].kind # "payment"
  BY KindsThere
<1>4. Holds(u)
  OBVIOUS
<1>5. news[u] = Nothing
  BY <1>1, <1>3, <1>4 DEF Holds
<1>6. news[u].entries = {}
  BY <1>5 DEF Nothing
<1>7. /\ pc[u] \in {"doc", "insert"} => HeldPayments(u) = {}
      /\ pc[u] \in {"doc", "insert", "payments"} => HeldInvoices(u) = {}
  BY <1>4 DEF Holds
<1> QED
  BY <1>1, <1>2, <1>6, <1>7

\* Of transactions that lock rows of one table, one is furthest.
LEMMA Furthest ==
    ASSUME ReceivablesInv, NEW A, A # {}, A \subseteq Txns,
           \A t \in A : pc[t] \in {"payments", "invoices"} /\ todo[t] # {}
    PROVE  \E t \in A : \A u \in A : Turn(u) <= Turn(t)
<1> DEFINE Turns == {Turn(t) : t \in A}
<1>1. \A t \in A : Turn(t) \in InvoiceIds \cup PaymentIds
  BY TurnIsLowest DEF ReceivablesInv, TypeOK
<1>2. IsFiniteSet(InvoiceIds \cup PaymentIds) /\ InvoiceIds \cup PaymentIds \subseteq Int
  BY SubledgerAssumption, FS_Union
<1>3. Turns \subseteq InvoiceIds \cup PaymentIds /\ Turns # {}
  BY <1>1
<1>4. IsFiniteSet(Turns) /\ Turns \subseteq Int
  BY <1>2, <1>3, FS_Subset
<1> HIDE DEF Turns
<1>5. HasHighest(Turns)
  BY <1>3, <1>4, Extremes
<1>6. PICK h \in Turns : \A y \in Turns : h >= y
  BY <1>5 DEF HasHighest
<1>7. PICK t \in A : h = Turn(t)
  BY DEF Turns
<1> QED
  BY <1>2, <1>3, <1>6, <1>7 DEF Turns

\* DeadlockNeedsInline: payments before invoices, rows by id, the entry number
\* last. Requests that keep this order never wait for each other in a circle.
THEOREM OnlyInlineDeadlocks == Spec => []DeadlockNeedsInline
<1>1. ASSUME ReceivablesInv PROVE DeadlockNeedsInline
  <2> SUFFICES ASSUME NEW S \in SUBSET Running, \A t \in S : ~Inline(t), S # {},
                      \A t \in S : WaitsFor(t) \cap S # {}
               PROVE  FALSE
    BY DEF DeadlockNeedsInline, SomeMayGo
  <2>0. S \subseteq Txns
    BY DEF Running
  <2>1. ASSUME NEW u \in S
        PROVE  /\ pc[u] \in {"doc", "insert", "post", "payments", "invoices"}
               /\ news[u].entries = {}
               /\ pc[u] \in {"payments", "invoices"} => todo[u] # {}
               /\ pc[u] \in {"doc", "insert"} => HeldPayments(u) = {}
               /\ pc[u] \in {"doc", "insert", "payments"} => HeldInvoices(u) = {}
    <3>1. WaitsFor(u) # {}
      OBVIOUS
    <3> QED
      BY <1>1, <2>0, <3>1, WaitingHolds
  \* Nobody has posted, so nobody waits to.
  <2>2. \A t \in S : pc[t] # "post"
    BY <2>1 DEF WaitsFor, EntryNoHolders
  \* Who waits for an invoice waits for one that is further.
  <2>3. \A t \in S : pc[t] # "invoices"
    <3> DEFINE A == {t \in S : pc[t] = "invoices"}
    <3> SUFFICES ASSUME A # {} PROVE FALSE
      OBVIOUS
    <3>1. PICK t \in A : \A u \in A : Turn(u) <= Turn(t)
      BY <1>1, <2>0, <2>1, Furthest
    <3>2. PICK u \in S : u \in InvoiceHolders(Turn(t))
      BY <2>1, <3>1 DEF WaitsFor, RowHolders
    <3>3. Turn(t) \in HeldInvoices(u)
      <4>1. Turn(t) \in InvoiceIds
        BY <1>1, <2>0, <2>1, <3>1, TurnIsLowest DEF ReceivablesInv, Queued
      <4> QED
        BY <3>2, <4>1 DEF InvoiceHolders, HeldInvoices
    <3>4. u \in A
      BY <2>1, <2>2, <3>3
    <3>5. Turn(u) \in todo[u] /\ Turn(u) \in Int /\ Turn(t) \in Int
      BY <1>1, <2>0, <2>1, <3>1, <3>4, TurnIsLowest, SubledgerAssumption DEF ReceivablesInv, Queued
    <3>6. Turn(t) < Turn(u)
      BY <1>1, <2>0, <3>3, <3>4, <3>5 DEF ReceivablesInv, Queued
    <3> QED
      BY <3>1, <3>4, <3>5, <3>6
  <2>4. \A t \in S : pc[t] # "payments"
    <3> DEFINE A == {t \in S : pc[t] = "payments"}
    <3> SUFFICES ASSUME A # {} PROVE FALSE
      OBVIOUS
    <3>1. PICK t \in A : \A u \in A : Turn(u) <= Turn(t)
      BY <1>1, <2>0, <2>1, Furthest
    <3>2. PICK u \in S : u \in PaymentHolders(Turn(t))
      BY <2>1, <3>1 DEF WaitsFor, RowHolders
    <3>3. Turn(t) \in HeldPayments(u)
      <4>1. Turn(t) \in PaymentIds
        BY <1>1, <2>0, <2>1, <3>1, TurnIsLowest DEF ReceivablesInv, Queued
      <4> QED
        BY <3>2, <4>1 DEF PaymentHolders, HeldPayments
    <3>4. u \in A
      BY <2>1, <2>2, <2>3, <3>3
    <3>5. Turn(u) \in todo[u] /\ Turn(u) \in Int /\ Turn(t) \in Int
      BY <1>1, <2>0, <2>1, <3>1, <3>4, TurnIsLowest, SubledgerAssumption DEF ReceivablesInv, Queued
    <3>6. Turn(t) < Turn(u)
      BY <1>1, <2>0, <3>3, <3>4, <3>5 DEF ReceivablesInv, Queued
    <3> QED
      BY <3>1, <3>4, <3>5, <3>6
  \* The others hold no row, and who waits for a number waits for somebody past it.
  <2>5. \A u \in S : HeldInvoices(u) = {} /\ HeldPayments(u) = {}
    BY <2>1, <2>2, <2>3, <2>4
  <2>6. \A t \in S : pc[t] # "insert"
    BY <2>5 DEF WaitsFor, KeyWriters, HeldInvoices, HeldPayments
  <2>7. \A t \in S : pc[t] = "doc"
    BY <2>1, <2>2, <2>3, <2>4, <2>6
  <2> QED
    BY <2>7 DEF WaitsFor, DocNoHolders
<1> QED
  BY HoldsAlways, <1>1, PTL

-------------------------------------------------------------------------------
(***************************************************************************)
(* BooksInv is inductive, and the entries add up.                          *)
(***************************************************************************)

\* A step of t other than Commit leaves the tables and the other transactions.
Quiet(t) == UNCHANGED Stored /\ \A u \in Txns \ {t} : Same(u)

LEMMA OnlyCommitStores ==
    ASSUME TypeOK, NEW t \in Txns, BeginRequest(t) \/ Advance(t) \/ Rollback(t)
    PROVE  Commit(t) \/ Quiet(t)
<1> USE DEF TypeOK, Quiet, Same
<1>1. ASSUME Refuse(t) PROVE Quiet(t)
  BY <1>1 DEF Refuse, End, Goto
<1>2. ASSUME BeginRequest(t) PROVE Quiet(t)
  <2>1. ASSUME NEW r, NEW where, NEW rows, Start(t, r, where, rows) PROVE Quiet(t)
    BY <2>1 DEF Start, Goto
  <2> QED
    BY <1>2, <2>1 DEF BeginRequest, BeginInvoice, BeginVoidInvoice, BeginPayment,
       BeginVoidPayment, BeginAllocate, BeginRebuild
<1>3. CASE LockDocNo(t) \/ Post(t)
  BY <1>3 DEF LockDocNo, Post, Goto
<1>4. CASE \E i \in InvoiceIds : InsertInvoice(t, i) \/ VoidInvoice(t, i)
  <2>1. PICK i \in InvoiceIds : InsertInvoice(t, i) \/ VoidInvoice(t, i)
    BY <1>4
  <2>2. CASE InsertInvoice(t, i)
    BY <2>2 DEF InsertInvoice, Goto
  <2>3. CASE VoidInvoice(t, i)
    BY <1>1, <2>3 DEF VoidInvoice, Goto
  <2> QED
    BY <2>1, <2>2, <2>3
<1>5. CASE \E p \in PaymentIds : InsertPayment(t, p) \/ VoidPayment(t, p)
  <2>1. PICK p \in PaymentIds : InsertPayment(t, p) \/ VoidPayment(t, p)
    BY <1>5
  <2>2. CASE InsertPayment(t, p)
    BY <2>2 DEF InsertPayment, Goto
  <2>3. CASE VoidPayment(t, p)
    BY <1>1, <2>3 DEF VoidPayment, Goto
  <2> QED
    BY <2>1, <2>2, <2>3
<1>6. CASE LockPayment(t) \/ LockInvoice(t)
  BY <1>6 DEF LockPayment, LockInvoice
<1>7. CASE CheckPayment(t)
  BY <1>1, <1>7 DEF CheckPayment, Goto
<1>8. CASE Allocate(t)
  BY <1>1, <1>8 DEF Allocate, CarryOut, Goto
<1>9. CASE SelectInvoices(t) \/ SumInvoices(t) \/ SumPayments(t)
  BY <1>9 DEF SelectInvoices, SumInvoices, SumPayments, Goto
<1>10. CASE RefuseInsert(t) \/ RefuseMissing(t) \/ BreaksCheck(t) \/ Rollback(t)
  BY <1>1, <1>10 DEF RefuseInsert, RefuseMissing, BreaksCheck, Rollback
<1> QED
  BY <1>2, <1>3, <1>4, <1>5, <1>6, <1>7, <1>8, <1>9, <1>10 DEF Advance

(***************************************************************************)
(* BooksInv is inductive: a commit adds the entries of the rows it changes.*)
(***************************************************************************)

\* The entries t has inserted are those of its request.
Posted(t) ==
    pc[t] = "commit" \/ Serves(t, "payment", {"invoices"}) => news[t].entries = EntriesOf(t)

LEMMA BooksNames == BooksInv <=> posted = Books /\ \A t \in Txns : Posted(t)
BY DEF BooksInv, Posted

LEMMA InitBooksInv == Init => BooksInv
<1> SUFFICES ASSUME Init PROVE BooksInv
  OBVIOUS
<1>1. \A t \in Txns : pc[t] = "idle"
  BY DEF Init
<1>2. /\ {j \in InvoiceIds : invoice[j] # NoRow /\ invoice[j].status = "VOIDED"} = {}
      /\ {q \in PaymentIds : payment[q] # NoRow /\ payment[q].status = "VOIDED"} = {}
  BY ReceivablesAssumption DEF Init, Standing
<1>3. posted = Books
  BY <1>2 DEF Init, Books
<1> QED
  BY <1>1, <1>3 DEF BooksInv, Serves

\* A transaction that stays has posted what it had.
LEMMA PostedStays ==
    ASSUME NEW u \in Txns, Same(u), Posted(u)
    PROVE  Posted(u)'
<1>1. Serves(u, "payment", {"invoices"})' = Serves(u, "payment", {"invoices"})
  BY DEF Same, Serves
<1>2. EntriesOf(u)' = EntriesOf(u)
  BY DEF Same, EntriesOf, HeldInvoices, HeldPayments
<1> QED
  BY <1>1, <1>2 DEF Same, Posted

LEMMA PostIsRight ==
    ASSUME ReceivablesInv, NEW t \in Txns, Post(t)
    PROVE  EventOf(t) = EntriesOf(t)
<1> USE DEF ReceivablesInv
<1>1. pc[t] = "post" /\ Based(t) /\ Holds(t)
  BY DEF Post, MayRun
<1>2. req[t].kind \in {"invoice", "voidInvoice", "payment", "voidPayment"}
  BY <1>1, KindsThere
<1>3. ASSUME req[t].kind = "invoice"
      PROVE  HeldPayments(t) = {} /\ \A i \in HeldInvoices(t) : inv[t][i].status # "VOIDED"
  BY <1>1, <1>3 DEF Holds, Based, OfInvoice
<1>4. ASSUME req[t].kind = "voidInvoice"
      PROVE  HeldPayments(t) = {} /\ \A i \in HeldInvoices(t) : inv[t][i].status = "VOIDED"
  BY <1>1, <1>4 DEF Holds, Based, OfInvoice, Serves
<1>5. ASSUME req[t].kind = "payment"
      PROVE  HeldInvoices(t) = {} /\ \A p \in HeldPayments(t) : pay[t][p].status # "VOIDED"
  BY <1>1, <1>5 DEF Holds, Based, OfPayment, Serves
<1>6. ASSUME req[t].kind = "voidPayment"
      PROVE  HeldInvoices(t) = {} /\ \A p \in HeldPayments(t) : pay[t][p].status = "VOIDED"
  BY <1>1, <1>6 DEF Holds, Based, OfPayment, Serves
<1>7. EventOf(t) =
        {IF inv[t][i].status = "VOIDED" THEN InvoiceVoided(i, inv[t][i])
                                        ELSE Issued(i, inv[t][i]) : i \in HeldInvoices(t)}
        \cup
        {IF pay[t][p].status = "VOIDED" THEN PaymentVoided(p, pay[t][p])
                                        ELSE Received(p, pay[t][p]) : p \in HeldPayments(t)}
  BY DEF EventOf, HeldInvoices, HeldPayments
<1>8. CASE req[t].kind = "invoice"
  BY <1>3, <1>7, <1>8 DEF EntriesOf
<1>9. CASE req[t].kind = "voidInvoice"
  BY <1>4, <1>7, <1>9 DEF EntriesOf
<1>10. CASE req[t].kind = "payment"
  BY <1>5, <1>7, <1>10 DEF EntriesOf
<1>11. CASE req[t].kind = "voidPayment"
  BY <1>6, <1>7, <1>11 DEF EntriesOf
<1> QED
  BY <1>2, <1>8, <1>9, <1>10, <1>11

\* Each of the steps of t but Commit leaves Posted(t) true.
LEMMA PostedKeeps ==
    ASSUME ReceivablesInv, NEW t \in Txns, Posted(t),
           BeginRequest(t) \/ Advance(t) \/ Rollback(t), ~Commit(t)
    PROVE  Posted(t)'
<1> USE DEF ReceivablesInv, Posted
<1>1. ASSUME Refuse(t) PROVE Posted(t)'
  BY <1>1 DEF Refuse, End, Goto, Serves, TypeOK
<1>2. ASSUME NEW where \in {"doc", "insert", "payments", "post", "sum"}, Goto(t, where)
      PROVE  Posted(t)'
  BY <1>2 DEF Goto, Serves, TypeOK
<1>3. ASSUME BeginRequest(t) PROVE Posted(t)'
  <2>1. ASSUME NEW r, NEW where, NEW rows, Start(t, r, where, rows), r.kind # "payment",
               where = "invoices"
        PROVE  Posted(t)'
    BY <2>1 DEF Start, Goto, Serves, TypeOK
  <2>2. \A i \in InvoiceIds : BeginVoidInvoice(t, i) => Posted(t)'
    BY <2>1 DEF BeginVoidInvoice, Request
  <2> QED
    BY <1>2, <1>3, <2>2 DEF BeginRequest, BeginInvoice, BeginPayment,
       BeginVoidPayment, BeginAllocate, BeginRebuild, Start
<1>4. ASSUME req[t].kind \in {"allocate", "rebuild"}, req'[t] = req[t], news'[t].entries = {},
             pc'[t] \in {"invoices", "commit"}
      PROVE  Posted(t)'
  BY <1>4 DEF Serves, EntriesOf
<1>5. CASE Post(t)
  <2>1. /\ pc[t] = "post" /\ req'[t] = req[t] /\ news'[t].entries = EventOf(t)
        /\ inv'[t] = inv[t] /\ pay'[t] = pay[t]
    BY <1>5 DEF Post, MayRun, TypeOK
  <2>2. EntriesOf(t)' = EntriesOf(t)
    BY <2>1 DEF EntriesOf, HeldInvoices, HeldPayments
  <2> QED
    BY <1>5, <2>1, <2>2, PostIsRight
<1>6. CASE LockPayment(t)
  BY <1>6 DEF LockPayment, MayRun, Serves
<1>7. CASE LockInvoice(t)
  <2>1. /\ pc[t] = "invoices" /\ pc'[t] = pc[t] /\ req'[t] = req[t] /\ news'[t] = news[t]
        /\ pay'[t] = pay[t]
    BY <1>7 DEF LockInvoice, MayRun
  <2>2. CASE req[t].kind = "payment"
    <3>1. EntriesOf(t)' = EntriesOf(t)
      BY <2>1, <2>2 DEF EntriesOf, HeldPayments
    <3> QED
      BY <2>1, <2>2, <3>1 DEF Serves
  <2>3. CASE req[t].kind # "payment"
    BY <2>1, <2>3 DEF Serves
  <2> QED
    BY <2>2, <2>3
<1>8. CASE CheckPayment(t)
  <2>1. pc[t] = "payments" /\ req[t].kind = "allocate" /\ news[t] = Nothing
    BY <1>8 DEF CheckPayment, HasRows, Holds
  <2>2. CASE ~Refuse(t)
    <3>1. req'[t] = req[t] /\ news'[t] = news[t] /\ pc'[t] \in {"invoices", "commit"}
      BY <1>8, <2>2 DEF CheckPayment, Goto, TypeOK
    <3> QED
      BY <1>4, <2>1, <3>1 DEF Nothing
  <2> QED
    BY <1>1, <2>2
<1>9. CASE Allocate(t)
  <2>0. CASE Refuse(t)
    BY <1>1, <2>0
  <2> SUFFICES ASSUME ~Refuse(t) PROVE Posted(t)'
    BY <2>0
  <2>1. /\ pc[t] = "invoices" /\ pc'[t] = "commit" /\ req'[t] = req[t]
        /\ news'[t].entries = news[t].entries
        /\ req[t].kind \in {"allocate", "payment"}
        /\ req[t].kind = "payment" => Inline(t)
        /\ pay'[t] = [pay[t] EXCEPT ![CommandOf(t).payment].allocated =
                                       @ + SumFunction(CommandOf(t).batch)]
    <3>0. PICK c : c = CommandOf(t)
      OBVIOUS
    <3>1. /\ pc[t] = "invoices" /\ Goto(t, "commit") /\ req' = req
          /\ req[t].kind = "allocate" \/ (req[t].kind = "payment" /\ Inline(t))
          /\ news' = [news EXCEPT ![t].commands = {c}]
          /\ pay' = [pay EXCEPT ![t][c.payment].allocated = @ + SumFunction(c.batch)]
      BY <1>9, <3>0 DEF Allocate, MayAllocate, CarryOut, HasRows
    <3>2. pc'[t] = "commit" /\ news'[t].entries = news[t].entries
      BY <3>1 DEF Goto, TypeOK
    <3>3. pay'[t] = [pay[t] EXCEPT ![c.payment].allocated = @ + SumFunction(c.batch)]
      BY <3>1 DEF TypeOK
    <3> QED
      BY <3>0, <3>1, <3>2, <3>3
  <2>2. CASE req[t].kind = "allocate"
    <3>1. news[t] = Nothing
      BY <2>1, <2>2 DEF Holds
    <3> QED
      BY <1>4, <2>1, <2>2, <3>1 DEF Nothing
  <2>3. CASE req[t].kind = "payment"
    <3>0. PICK c : c = CommandOf(t)
      OBVIOUS
    <3>1. /\ HeldPayments(t) = {c.payment} /\ c.payment \in PaymentIds
          /\ pay[t] \in [PaymentIds -> Payment \cup {NoRow}] /\ pay[t][c.payment] \in Payment
      <4>1. HeldPayments(t) = {c.payment} /\ c.payment \in PaymentIds
        BY <2>1, <2>3, <3>0, CommandThere
      <4> QED
        BY <4>1 DEF TypeOK, HeldPayments
    <3> DEFINE row == [pay[t][c.payment] EXCEPT !.allocated = @ + SumFunction(c.batch)]
    <3>2. row.amount = pay[t][c.payment].amount /\ DOMAIN row = DOMAIN pay[t][c.payment]
      BY <3>1 DEF Payment
    <3>3. pay'[t] = [pay[t] EXCEPT ![c.payment] = row]
      BY <2>1, <3>0
    <3>4. row # NoRow
      <4>1. SumFunction(c.batch) \in Int
        BY <2>1, <2>3, <3>0, CommandThere, BatchSum
      <4>2. row \in Payment
        BY <3>1, <4>1 DEF Payment
      <4> QED
        BY <4>2, ReceivablesAssumption
    <3> HIDE DEF row
    <3>5. HeldPayments(t)' = {c.payment} /\ pay'[t][c.payment].amount = pay[t][c.payment].amount
      BY <3>1, <3>2, <3>3, <3>4 DEF HeldPayments
    <3>6. EntriesOf(t) = {Received(c.payment, pay[t][c.payment])}
      BY <2>3, <3>1 DEF EntriesOf
    <3>7. EntriesOf(t)' = {Received(c.payment, pay'[t][c.payment])}
      BY <2>1, <2>3, <3>5 DEF EntriesOf
    <3>8. EntriesOf(t)' = EntriesOf(t)
      BY <3>5, <3>6, <3>7 DEF Received
    <3> QED
      BY <2>1, <2>3, <3>8 DEF Serves
  <2> QED
    BY <2>1, <2>2, <2>3
<1>10. CASE SelectInvoices(t)
  <2>1. pc[t] = "payments" /\ req[t].kind = "rebuild" /\ news[t] = Nothing
    BY <1>10 DEF SelectInvoices, HasRows, Holds
  <2>2. req'[t] = req[t] /\ news'[t] = news[t] /\ pc'[t] = "invoices"
    BY <1>10 DEF SelectInvoices, Goto, TypeOK
  <2> QED
    BY <1>4, <2>1, <2>2 DEF Nothing
<1>11. CASE SumPayments(t)
  <2>1. pc[t] = "sum" /\ req[t].kind = "rebuild" /\ news[t] = Nothing
    BY <1>11, KindsThere DEF SumPayments, Holds
  <2>2. req'[t] = req[t] /\ news'[t] = news[t] /\ pc'[t] = "commit"
    BY <1>11 DEF SumPayments, Goto, TypeOK
  <2> QED
    BY <1>4, <2>1, <2>2 DEF Nothing
<1>12. CASE RefuseInsert(t) \/ RefuseMissing(t) \/ BreaksCheck(t) \/ Rollback(t)
  BY <1>1, <1>12 DEF RefuseInsert, RefuseMissing, BreaksCheck, Rollback
<1>13. CASE \E i \in InvoiceIds : InsertInvoice(t, i) \/ VoidInvoice(t, i)
  BY <1>1, <1>2, <1>13 DEF InsertInvoice, VoidInvoice
<1>14. CASE \E p \in PaymentIds : InsertPayment(t, p) \/ VoidPayment(t, p)
  BY <1>1, <1>2, <1>14 DEF InsertPayment, VoidPayment
<1>15. CASE LockDocNo(t) \/ SumInvoices(t)
  BY <1>2, <1>15 DEF LockDocNo, SumInvoices
<1> QED
  BY <1>3, <1>5, <1>6, <1>7, <1>8, <1>9, <1>10, <1>11, <1>12, <1>13, <1>14, <1>15 DEF Advance

\* What a commit does to the four sets of entries.
LEMMA CommitBooks ==
    ASSUME ReceivablesInv, NEW t \in Txns, Commit(t)
    PROVE  Books' = Books \cup EntriesOf(t)
<1> USE DEF ReceivablesInv
<1>0. /\ pc[t] = "commit" /\ t \in Running /\ todo[t] = {} /\ Based(t) /\ Holds(t) /\ Served(t)
      /\ HeldInvoices(t) \subseteq InvoiceIds /\ HeldPayments(t) \subseteq PaymentIds
      /\ \A i \in HeldInvoices(t) : inv[t][i] # NoRow
      /\ \A p \in HeldPayments(t) : pay[t][p] # NoRow
  BY CommitTables DEF HeldInvoices, HeldPayments
<1>1. /\ \A i \in HeldInvoices(t) : /\ invoice'[i] = inv[t][i] /\ i \in InvoiceIds
                                    /\ OfInvoice(t, inv[t][i], invoice[i])
      /\ \A i \in InvoiceIds \ HeldInvoices(t) : invoice'[i] = invoice[i]
  BY <1>0, CommitTables DEF Based
<1>2. /\ \A p \in HeldPayments(t) : /\ payment'[p] = pay[t][p] /\ p \in PaymentIds
                                    /\ OfPayment(t, pay[t][p], payment[p])
      /\ \A p \in PaymentIds \ HeldPayments(t) : payment'[p] = payment[p]
  BY <1>0, CommitTables DEF Based
<1>3. {Issued(i, invoice'[i]) : i \in {j \in InvoiceIds : invoice'[j] # NoRow}} =
        {Issued(i, invoice[i]) : i \in {j \in InvoiceIds : invoice[j] # NoRow}}
        \cup {Issued(i, inv[t][i]) : i \in {j \in HeldInvoices(t) : req[t].kind = "invoice"}}
  <2>1. \A i \in HeldInvoices(t) :
          IF req[t].kind = "invoice" THEN invoice[i] = NoRow
          ELSE invoice[i] # NoRow /\ Issued(i, invoice'[i]) = Issued(i, invoice[i])
    BY <1>1 DEF OfInvoice, Issued
  <2> QED
    BY <1>0, <1>1, <2>1
<1>4. {InvoiceVoided(i, invoice'[i]) :
         i \in {j \in InvoiceIds : invoice'[j] # NoRow /\ invoice'[j].status = "VOIDED"}} =
        {InvoiceVoided(i, invoice[i]) :
           i \in {j \in InvoiceIds : invoice[j] # NoRow /\ invoice[j].status = "VOIDED"}}
        \cup {InvoiceVoided(i, inv[t][i]) :
                i \in {j \in HeldInvoices(t) : req[t].kind = "voidInvoice"}}
  <2>1. ASSUME NEW i \in HeldInvoices(t)
        PROVE  IF req[t].kind = "invoice" THEN invoice[i] = NoRow /\ invoice'[i].status # "VOIDED"
               ELSE IF req[t].kind = "voidInvoice"
                    THEN invoice[i].status # "VOIDED" /\ invoice'[i].status = "VOIDED"
                    ELSE /\ invoice[i] # NoRow
                         /\ invoice'[i].status = "VOIDED" <=> invoice[i].status = "VOIDED"
                         /\ InvoiceVoided(i, invoice'[i]) = InvoiceVoided(i, invoice[i])
    BY <1>0, <1>1 DEF OfInvoice, InvoiceVoided, Serves
  <2> QED
    BY <1>0, <1>1, <2>1
<1>5. {Received(p, payment'[p]) : p \in {q \in PaymentIds : payment'[q] # NoRow}} =
        {Received(p, payment[p]) : p \in {q \in PaymentIds : payment[q] # NoRow}}
        \cup {Received(p, pay[t][p]) : p \in {q \in HeldPayments(t) : req[t].kind = "payment"}}
  <2>1. \A p \in HeldPayments(t) :
          IF req[t].kind = "payment" THEN payment[p] = NoRow
          ELSE payment[p] # NoRow /\ Received(p, payment'[p]) = Received(p, payment[p])
    BY <1>2 DEF OfPayment, Received
  <2> QED
    BY <1>0, <1>2, <2>1
<1>6. {PaymentVoided(p, payment'[p]) :
         p \in {q \in PaymentIds : payment'[q] # NoRow /\ payment'[q].status = "VOIDED"}} =
        {PaymentVoided(p, payment[p]) :
           p \in {q \in PaymentIds : payment[q] # NoRow /\ payment[q].status = "VOIDED"}}
        \cup {PaymentVoided(p, pay[t][p]) :
                p \in {q \in HeldPayments(t) : req[t].kind = "voidPayment"}}
  <2>1. ASSUME NEW p \in HeldPayments(t)
        PROVE  IF req[t].kind = "payment" THEN payment[p] = NoRow /\ payment'[p].status # "VOIDED"
               ELSE IF req[t].kind = "voidPayment"
                    THEN payment[p].status # "VOIDED" /\ payment'[p].status = "VOIDED"
                    ELSE /\ payment[p] # NoRow
                         /\ payment'[p].status = "VOIDED" <=> payment[p].status = "VOIDED"
                         /\ PaymentVoided(p, payment'[p]) = PaymentVoided(p, payment[p])
    BY <1>0, <1>2 DEF OfPayment, PaymentVoided, Serves
  <2> QED
    BY <1>0, <1>2, <2>1
<1>7. EntriesOf(t) =
        {Issued(i, inv[t][i]) : i \in {j \in HeldInvoices(t) : req[t].kind = "invoice"}}
        \cup {InvoiceVoided(i, inv[t][i]) :
                i \in {j \in HeldInvoices(t) : req[t].kind = "voidInvoice"}}
        \cup {Received(p, pay[t][p]) : p \in {q \in HeldPayments(t) : req[t].kind = "payment"}}
        \cup {PaymentVoided(p, pay[t][p]) :
                p \in {q \in HeldPayments(t) : req[t].kind = "voidPayment"}}
  <2>1. req[t].kind \in {"invoice", "voidInvoice", "payment", "voidPayment", "allocate", "rebuild"}
    BY <1>0 DEF Served, Serves
  <2>2. CASE req[t].kind = "invoice"
    BY <2>2 DEF EntriesOf
  <2>3. CASE req[t].kind = "voidInvoice"
    BY <2>3 DEF EntriesOf
  <2>4. CASE req[t].kind = "payment"
    BY <2>4 DEF EntriesOf
  <2>5. CASE req[t].kind = "voidPayment"
    BY <2>5 DEF EntriesOf
  <2>6. CASE req[t].kind \in {"allocate", "rebuild"}
    BY <2>6 DEF EntriesOf
  <2> QED
    BY <2>1, <2>2, <2>3, <2>4, <2>5, <2>6
<1> QED
  BY <1>3, <1>4, <1>5, <1>6, <1>7 DEF Books

LEMMA BooksKeep ==
    ASSUME ReceivablesInv, BooksInv, [Next]_vars
    PROVE  BooksInv'
<1>0. posted = Books /\ (\A u \in Txns : Posted(u)) /\ TypeOK
  BY BooksNames DEF ReceivablesInv
<1>1. ASSUME NEW t \in Txns, BeginRequest(t) \/ Advance(t) \/ Rollback(t)
      PROVE  BooksInv'
  <2>1. CASE Commit(t)
    <3>1. posted' = Books'
      BY <1>0, <2>1, CommitBooks, CommitTables DEF Commit, Posted
    <3>2. pc'[t] = "committed" /\ \A u \in Txns \ {t} : Same(u)
      BY <1>0, <2>1, CommitTables DEF TypeOK, Commit, End, Goto
    <3>3. \A u \in Txns : Posted(u)'
      BY <1>0, <3>2, PostedStays DEF Posted, Serves
    <3> QED
      BY <3>1, <3>3 DEF BooksInv, Posted
  <2>2. CASE ~Commit(t)
    <3>1. Quiet(t)
      BY <1>0, <1>1, <2>2, OnlyCommitStores
    <3>2. posted' = Books'
      BY <1>0, <3>1 DEF Quiet, Stored, Books
    <3>3. \A u \in Txns : Posted(u)'
      BY <1>0, <1>1, <2>2, <3>1, PostedKeeps, PostedStays DEF Quiet
    <3> QED
      BY <3>2, <3>3 DEF BooksInv, Posted
  <2> QED
    BY <2>1, <2>2
<1>2. CASE UNCHANGED vars
  <2>1. \A u \in Txns : Same(u)
    BY <1>2 DEF vars, Same
  <2>2. posted' = Books'
    BY <1>0, <1>2 DEF vars, Stored, Books
  <2>3. \A u \in Txns : Posted(u)'
    BY <1>0, <2>1, PostedStays
  <2> QED
    BY <2>2, <2>3 DEF BooksInv, Posted
<1> QED
  BY <1>1, <1>2 DEF Next, Finished

\* The journal has the entries of what happened to each row, and no others.
THEOREM BooksKept == Spec => []BooksInv
<1>1. ReceivablesInv /\ BooksInv /\ [Next]_vars => BooksInv'
  BY BooksKeep
<1> QED
  BY InitBooksInv, HoldsAlways, <1>1, PTL DEF Spec

(***************************************************************************)
(* TieOut: what is posted, added up.                                       *)
(***************************************************************************)

\* The entries of the rows are different ones, of amount g, and the opposite.
Mirrors(f, Ids, dead, g, made, undone) ==
    /\ \A i, j \in Ids : made[i] = made[j] => i = j
    /\ \A i, j \in dead : undone[i] = undone[j] => i = j
    /\ \A i \in Ids, j \in dead : made[i] # undone[j]
    /\ \A i \in Ids : f[made[i]] = g[i]
    /\ \A i \in dead : f[undone[i]] = -g[i]

\* One side of the tie-out: an entry for each row of Ids, and the opposite one
\* for each of those that are dead.
LEMMA OneSide ==
    ASSUME NEW P, IsFiniteSet(P), NEW f \in [P -> Int],
           NEW Ids, IsFiniteSet(Ids), NEW dead \in SUBSET Ids,
           NEW g \in [Ids -> Int], NEW made \in [Ids -> P], NEW undone \in [dead -> P],
           Mirrors(f, Ids, dead, g, made, undone)
    PROVE  SumOver(f, Range(made) \cup Range(undone)) = SumOver(g, Ids \ dead)
<1> USE DEF Mirrors
<1> DEFINE A == {made[i] : i \in Ids}
           B == {undone[i] : i \in dead}
           h == [i \in dead |-> -g[i]]
           k == [i \in dead |-> g[i]]
<1>0. IsFiniteSet(dead) /\ IsFiniteSet(Ids \ dead)
  BY FS_Subset
<1>1. A \in SUBSET P /\ B \in SUBSET P /\ A \cap B = {}
  OBVIOUS
<1>9. Range(made) = A /\ Range(undone) = B
  BY DEF Range
<1>2. SumOver(f, A \cup B) = SumOver(f, A) + SumOver(f, B)
  <2> HIDE DEF A, B
  <2> QED
    BY <1>1, SumOverUnion
<1>3. SumOver(g, Ids) = SumOver(f, A)
  BY SumOverImage
<1>4. SumOver(h, dead) = SumOver(f, B)
  <2>1. h \in [dead -> Int] /\ \A i \in dead : h[i] = f[undone[i]]
    OBVIOUS
  <2> HIDE DEF h
  <2> QED
    BY <1>0, <2>1, SumOverImage
<1>5. SumOver(h, dead) = -SumOver(k, dead)
  <2>1. h \in [dead -> Int] /\ k \in [dead -> Int] /\ \A i \in dead : h[i] = -k[i]
    OBVIOUS
  <2> HIDE DEF h, k
  <2> QED
    BY <1>0, <2>1, SumOverOpposite
<1>6. SumOver(k, dead) = SumOver(g, dead)
  BY DEF SumOver, Part
<1>7. SumOver(g, Ids) = SumOver(g, Ids \ dead) + SumOver(g, dead)
  <2>1. (Ids \ dead) \cup dead = Ids /\ (Ids \ dead) \cap dead = {}
        /\ (Ids \ dead) \in SUBSET Ids
    OBVIOUS
  <2> QED
    BY <2>1, SumOverUnion
<1>8. SumOver(g, Ids \ dead) \in Int /\ SumOver(g, dead) \in Int
  BY SumOverStep
<1> QED
  BY <1>2, <1>3, <1>4, <1>5, <1>6, <1>7, <1>8, <1>9

\* The entries of the invoices, and those of the payments.
InvoiceBooks ==
    {Issued(i, invoice[i]) : i \in {j \in InvoiceIds : invoice[j] # NoRow}}
    \cup {InvoiceVoided(i, invoice[i]) :
            i \in {j \in InvoiceIds : invoice[j] # NoRow /\ invoice[j].status = "VOIDED"}}

PaymentBooks ==
    {Received(p, payment[p]) : p \in {q \in PaymentIds : payment[q] # NoRow}}
    \cup {PaymentVoided(p, payment[p]) :
            p \in {q \in PaymentIds : payment[q] # NoRow /\ payment[q].status = "VOIDED"}}

LEMMA BooksFinite ==
    ASSUME TypeOK
    PROVE  /\ IsFiniteSet(InvoiceBooks) /\ InvoiceBooks \subseteq EntryType
           /\ IsFiniteSet(PaymentBooks) /\ PaymentBooks \subseteq EntryType
<1>1. ASSUME NEW S \in SUBSET InvoiceIds
      PROVE  /\ IsFiniteSet({Issued(i, invoice[i]) : i \in S})
             /\ IsFiniteSet({InvoiceVoided(i, invoice[i]) : i \in S})
  <2> DEFINE f == [i \in S |-> Issued(i, invoice[i])]
             g == [i \in S |-> InvoiceVoided(i, invoice[i])]
  <2>1. IsFiniteSet(S)
    BY SubledgerAssumption, FS_Subset
  <2>2. f = [i \in S |-> f[i]] /\ g = [i \in S |-> g[i]]
    OBVIOUS
  <2>3. /\ {f[i] : i \in S} = {Issued(i, invoice[i]) : i \in S}
        /\ {g[i] : i \in S} = {InvoiceVoided(i, invoice[i]) : i \in S}
    OBVIOUS
  <2> HIDE DEF f, g
  <2>4. IsFiniteSet({f[i] : i \in S}) /\ IsFiniteSet({g[i] : i \in S})
    BY <2>1, <2>2, ImageFinite
  <2> QED
    BY <2>3, <2>4
<1>2. ASSUME NEW S \in SUBSET PaymentIds
      PROVE  /\ IsFiniteSet({Received(p, payment[p]) : p \in S})
             /\ IsFiniteSet({PaymentVoided(p, payment[p]) : p \in S})
  <2> DEFINE f == [p \in S |-> Received(p, payment[p])]
             g == [p \in S |-> PaymentVoided(p, payment[p])]
  <2>1. IsFiniteSet(S)
    BY SubledgerAssumption, FS_Subset
  <2>2. f = [p \in S |-> f[p]] /\ g = [p \in S |-> g[p]]
    OBVIOUS
  <2>3. /\ {f[p] : p \in S} = {Received(p, payment[p]) : p \in S}
        /\ {g[p] : p \in S} = {PaymentVoided(p, payment[p]) : p \in S}
    OBVIOUS
  <2> HIDE DEF f, g
  <2>4. IsFiniteSet({f[p] : p \in S}) /\ IsFiniteSet({g[p] : p \in S})
    BY <2>1, <2>2, ImageFinite
  <2> QED
    BY <2>3, <2>4
<1>3. /\ {j \in InvoiceIds : invoice[j] # NoRow} \in SUBSET InvoiceIds
      /\ {j \in InvoiceIds : invoice[j] # NoRow /\ invoice[j].status = "VOIDED"}
           \in SUBSET InvoiceIds
      /\ {q \in PaymentIds : payment[q] # NoRow} \in SUBSET PaymentIds
      /\ {q \in PaymentIds : payment[q] # NoRow /\ payment[q].status = "VOIDED"}
           \in SUBSET PaymentIds
  OBVIOUS
<1>4. IsFiniteSet(InvoiceBooks)
  BY <1>1, <1>3, FS_Union DEF InvoiceBooks
<1>5. IsFiniteSet(PaymentBooks)
  BY <1>2, <1>3, FS_Union DEF PaymentBooks
<1>6. InvoiceBooks \subseteq EntryType /\ PaymentBooks \subseteq EntryType
  BY DEF TypeOK, InvoiceBooks, PaymentBooks, EntryType, Issued, InvoiceVoided, Received,
         PaymentVoided, Entry, Invoice, Payment
<1> QED
  BY <1>4, <1>5, <1>6

\* The entries of the rows of S, of a type, with the amounts g.
Entries(made, type, S, g) ==
    \A i \in S : made[i].type = type /\ made[i].id = i /\ made[i].amount = g[i]

LEMMA MirrorsIf ==
    ASSUME NEW P, NEW f, \A e \in P : f[e] = e.amount, NEW Ids, NEW dead \in SUBSET Ids,
           NEW g, NEW h, NEW made \in [Ids -> P], NEW undone \in [dead -> P],
           NEW a, NEW b, a # b, Entries(made, a, Ids, g), Entries(undone, b, dead, h),
           \A i \in dead : h[i] = -g[i]
    PROVE  Mirrors(f, Ids, dead, g, made, undone)
<1>1. ASSUME NEW i \in Ids, NEW j \in Ids, made[i] = made[j] PROVE i = j
  BY <1>1 DEF Entries
<1>2. ASSUME NEW i \in dead, NEW j \in dead, undone[i] = undone[j] PROVE i = j
  BY <1>2 DEF Entries
<1>3. ASSUME NEW i \in Ids, NEW j \in dead PROVE made[i] # undone[j]
  BY DEF Entries
<1>4. ASSUME NEW i \in Ids PROVE f[made[i]] = g[i]
  BY DEF Entries
<1>5. ASSUME NEW i \in dead PROVE f[undone[i]] = -g[i]
  BY DEF Entries
<1> QED
  BY <1>1, <1>2, <1>3, <1>4, <1>5 DEF Mirrors

LEMMA InvoiceSide ==
    ASSUME TypeOK, NEW P, IsFiniteSet(P), InvoiceBooks \subseteq P,
           NEW f \in [P -> Int], \A e \in P : f[e] = e.amount
    PROVE  SumOver(f, InvoiceBooks) =
             SumFunction([i \in {j \in InvoiceIds : Standing(invoice[j])} |-> invoice[i].total])
<1> DEFINE Ids == {j \in InvoiceIds : invoice[j] # NoRow}
           dead == {j \in InvoiceIds : invoice[j] # NoRow /\ invoice[j].status = "VOIDED"}
           g == [i \in Ids |-> invoice[i].total]
           made == [i \in Ids |-> Issued(i, invoice[i])]
           h == [i \in dead |-> -invoice[i].total]
           undone == [i \in dead |-> InvoiceVoided(i, invoice[i])]
<1>1. \A i \in Ids : invoice[i] \in Invoice /\ invoice[i].total \in Int
  BY DEF TypeOK, Invoice
<1>2. IsFiniteSet(Ids) /\ dead \in SUBSET Ids
  BY SubledgerAssumption, FS_Subset
<1>3. InvoiceBooks = Range(made) \cup Range(undone)
  BY DEF InvoiceBooks, Range
<1>4. g \in [Ids -> Int] /\ made \in [Ids -> P] /\ undone \in [dead -> P]
  BY <1>1, <1>3 DEF Range
<1>5. /\ Entries(made, "invoice_issued", Ids, g) /\ Entries(undone, "invoice_voided", dead, h)
      /\ \A i \in dead : h[i] = -g[i]
  BY <1>1, <1>2 DEF Entries, Issued, InvoiceVoided, Entry
<1>6. SumOver(g, Ids \ dead) =
        SumFunction([i \in {j \in InvoiceIds : Standing(invoice[j])} |-> invoice[i].total])
  <2>1. Ids \ dead = {j \in InvoiceIds : Standing(invoice[j])}
    BY DEF Standing
  <2>2. Part(g, Ids \ dead) = [i \in Ids \ dead |-> invoice[i].total]
    BY DEF Part
  <2> QED
    BY <2>1, <2>2 DEF SumOver
<1> HIDE DEF Ids, dead, g, h, made, undone
<1>8. Mirrors(f, Ids, dead, g, made, undone)
  BY <1>2, <1>4, <1>5, MirrorsIf
<1>9. SumOver(f, Range(made) \cup Range(undone)) = SumOver(g, Ids \ dead)
  BY <1>2, <1>4, <1>8, OneSide
<1> QED
  BY <1>3, <1>6, <1>9

LEMMA PaymentSide ==
    ASSUME TypeOK, NEW P, IsFiniteSet(P), PaymentBooks \subseteq P,
           NEW f \in [P -> Int], \A e \in P : f[e] = e.amount
    PROVE  SumOver(f, PaymentBooks) =
             -SumFunction([p \in {q \in PaymentIds : Standing(payment[q])} |-> payment[p].amount])
<1> DEFINE Ids == {q \in PaymentIds : payment[q] # NoRow}
           dead == {q \in PaymentIds : payment[q] # NoRow /\ payment[q].status = "VOIDED"}
           g == [p \in Ids |-> -payment[p].amount]
           k == [p \in Ids \ dead |-> payment[p].amount]
           made == [p \in Ids |-> Received(p, payment[p])]
           h == [p \in dead |-> payment[p].amount]
           undone == [p \in dead |-> PaymentVoided(p, payment[p])]
<1>1. \A p \in Ids : payment[p] \in Payment /\ payment[p].amount \in Int
  BY DEF TypeOK, Payment
<1>2. IsFiniteSet(Ids) /\ dead \in SUBSET Ids /\ IsFiniteSet(Ids \ dead)
  <2>1. Ids \subseteq PaymentIds /\ Ids \ dead \subseteq PaymentIds /\ dead \in SUBSET Ids
    OBVIOUS
  <2> QED
    BY <2>1, SubledgerAssumption, FS_Subset
<1>3. PaymentBooks = Range(made) \cup Range(undone)
  BY DEF PaymentBooks, Range
<1>4. g \in [Ids -> Int] /\ made \in [Ids -> P] /\ undone \in [dead -> P]
  BY <1>1, <1>3 DEF Range
<1>5. /\ Entries(made, "payment_received", Ids, g) /\ Entries(undone, "payment_voided", dead, h)
      /\ \A p \in dead : h[p] = -g[p]
  BY <1>1, <1>2 DEF Entries, Received, PaymentVoided, Entry
<1>6. SumFunction(k) =
        SumFunction([p \in {q \in PaymentIds : Standing(payment[q])} |-> payment[p].amount])
  <2>1. Ids \ dead = {q \in PaymentIds : Standing(payment[q])}
    BY DEF Standing
  <2> QED
    BY <2>1
<1>10. SumOver(g, Ids \ dead) = -SumFunction(k)
  <2> DEFINE off == [p \in Ids \ dead |-> -payment[p].amount]
  <2>1. k \in [Ids \ dead -> Int] /\ off \in [Ids \ dead -> Int] /\ \A p \in Ids \ dead : off[p] = -k[p]
    BY <1>1
  <2>2. Part(g, Ids \ dead) = off /\ Part(off, Ids \ dead) = off
    BY DEF Part
  <2> HIDE DEF k, off, g, Ids, dead
  <2>3. SumOver(off, Ids \ dead) = -SumOver(k, Ids \ dead)
    BY <1>2, <2>1, SumOverOpposite
  <2>4. SumFunction(k) = SumOver(k, Ids \ dead)
    BY <2>1, SumOverAll
  <2> QED
    BY <2>2, <2>3, <2>4 DEF SumOver
<1> HIDE DEF Ids, dead, g, h, k, made, undone
<1>8. Mirrors(f, Ids, dead, g, made, undone)
  BY <1>2, <1>4, <1>5, MirrorsIf
<1>9. SumOver(f, Range(made) \cup Range(undone)) = SumOver(g, Ids \ dead)
  BY <1>2, <1>4, <1>8, OneSide
<1> QED
  BY <1>3, <1>6, <1>9, <1>10

\* TieOut: the entries posted to account 1100 add up to what the invoices that
\* are not voided ask for, less the payments that are not voided.
THEOREM TiesOut == Spec => []TieOut
<1>1. ASSUME ReceivablesInv, BooksInv PROVE TieOut
  <2> DEFINE f == [e \in posted |-> e.amount]
             I == SumFunction([i \in {j \in InvoiceIds : Standing(invoice[j])} |->
                                 invoice[i].total])
             R == SumFunction([p \in {q \in PaymentIds : Standing(payment[q])} |->
                                 payment[p].amount])
  <2>1. posted = InvoiceBooks \cup PaymentBooks
    BY <1>1 DEF BooksInv, Books, InvoiceBooks, PaymentBooks
  <2>2. TypeOK
    BY <1>1 DEF ReceivablesInv
  <2>3. InvoiceBooks \cap PaymentBooks = {}
    BY DEF InvoiceBooks, PaymentBooks, Issued, InvoiceVoided, Received, PaymentVoided, Entry
  <2>4. f \in [posted -> Int] /\ \A e \in posted : f[e] = e.amount
    BY <2>2 DEF TypeOK, EntryType
  <2>5. IsFiniteSet(posted) /\ InvoiceBooks \subseteq posted /\ PaymentBooks \subseteq posted
    BY <2>1, <2>2, BooksFinite, FS_Union
  <2>6. TieOut <=> SumFunction(f) = I - R
    BY DEF TieOut
  <2> HIDE DEF f, I, R
  <2>7. SumFunction(f) = SumOver(f, posted)
    BY <2>4, SumOverAll
  <2>8. SumOver(f, posted) = SumOver(f, InvoiceBooks) + SumOver(f, PaymentBooks)
    BY <2>1, <2>3, <2>4, <2>5, SumOverUnion
  <2>9. SumOver(f, InvoiceBooks) = I
    BY <2>2, <2>4, <2>5, InvoiceSide DEF I
  <2>10. SumOver(f, PaymentBooks) = -R
    BY <2>2, <2>4, <2>5, PaymentSide DEF R
  <2>11. SumOver(f, InvoiceBooks) \in Int /\ SumOver(f, PaymentBooks) \in Int
    BY <2>4, <2>5, SumOverStep
  <2>12. R \in Int
    <3> DEFINE S == {q \in PaymentIds : Standing(payment[q])}
               k == [p \in S |-> payment[p].amount]
    <3>1. IsFiniteSet(S) /\ k \in [S -> Int]
      BY <2>2, SubledgerAssumption, FS_Subset DEF TypeOK, Payment, Standing
    <3>2. R = SumFunction(k)
      BY DEF R
    <3> HIDE DEF S, k
    <3> QED
      BY <3>1, <3>2, SumInt
  <2> QED
    BY <2>6, <2>7, <2>8, <2>9, <2>10, <2>11, <2>12
<1> QED
  BY HoldsAlways, BooksKept, <1>1, PTL

-------------------------------------------------------------------------------
(***************************************************************************)
(* The sums of allocations, and one command more.                          *)
(***************************************************************************)

LEMMA SettledAdd ==
    ASSUME NEW cs \in SUBSET Command, IsFiniteSet(cs), NEW c \in Command, c \notin cs, NEW i
    PROVE  SettledBy(cs \cup {c}, i) = SettledBy(cs, i) + LineFor(c, i)
<1> DEFINE D == cs \cup {c}
           f == [d \in D |-> LineFor(d, i)]
<1>1. f \in [D -> Int]
  BY LineInt
<1>2. IsFiniteSet(D)
  BY FS_AddElement
<1>3. SettledBy(D, i) = SumFunction(f) /\ SettledBy(cs, i) = SumOver(f, cs)
        /\ f[c] = LineFor(c, i)
  BY DEF SettledBy, SumOver, Part
<1>4. cs \in SUBSET D /\ c \in D /\ cs \cup {c} = D
  OBVIOUS
<1> HIDE DEF f, D
<1>5. SumFunction(f) = SumOver(f, D)
  BY <1>1, SumOverAll
<1>6. SumOver(f, D) = f[c] + SumOver(f, cs)
  BY <1>1, <1>2, <1>4, SumOverAdd
<1>7. SettledBy(cs, i) \in Int /\ LineFor(c, i) \in Int
  BY SettledInt, LineInt
<1>8. SettledBy(D, i) = LineFor(c, i) + SettledBy(cs, i)
  BY <1>3, <1>5, <1>6
<1>9. ASSUME NEW a \in Int, NEW b \in Int PROVE a + b = b + a
  OBVIOUS
<1> QED
  BY <1>4, <1>7, <1>8, <1>9, Zenon

LEMMA SettledNone ==
    ASSUME NEW cs \in SUBSET Command, IsFiniteSet(cs), NEW i,
           \A c \in cs : i \notin DOMAIN c.batch
    PROVE  SettledBy(cs, i) = 0
<1> DEFINE f == [c \in cs |-> LineFor(c, i)]
<1>1. f \in [cs -> Int] /\ \A c \in cs : f[c] = 0
  BY DEF LineFor
<1>2. SettledBy(cs, i) = SumFunction(f)
  BY DEF SettledBy
<1> HIDE DEF f
<1>3. SumFunction(f) = SumOver(f, cs) /\ SumOver(f, cs) = 0
  BY <1>1, SumOverAll, SumOverZeros
<1> QED
  BY <1>2, <1>3

LEMMA AllocatedAdd ==
    ASSUME NEW cs \in SUBSET Command, IsFiniteSet(cs), NEW c \in Command, c \notin cs, NEW p
    PROVE  AllocatedBy(cs \cup {c}, p) =
             AllocatedBy(cs, p) + IF c.payment = p THEN SumFunction(c.batch) ELSE 0
<1>0. AllocatedBy(cs, p) \in Int
  BY AllocatedInt
<1>1. CASE c.payment # p
  <2>1. {d \in cs \cup {c} : d.payment = p} = {d \in cs : d.payment = p}
    BY <1>1
  <2>2. AllocatedBy(cs \cup {c}, p) = AllocatedBy(cs, p)
    BY <2>1 DEF AllocatedBy
  <2> QED
    BY <1>0, <1>1, <2>2
<1>2. CASE c.payment = p
  <2> DEFINE S == {d \in cs : d.payment = p}
             D == S \cup {c}
             f == [d \in D |-> SumFunction(d.batch)]
  <2>1. D \subseteq Command /\ {d \in cs \cup {c} : d.payment = p} = D /\ c \notin S
    BY <1>2
  <2>2. ASSUME NEW d \in D PROVE SumFunction(d.batch) \in Int
    <3>1. d.batch \in Batches
      BY <2>1 DEF Command
    <3> QED
      BY <3>1, BatchSum
  <2>3. f \in [D -> Int] /\ f[c] = SumFunction(c.batch) /\ f[c] \in Int
    BY <2>2
  <2>4. IsFiniteSet(S) /\ IsFiniteSet(D)
    BY FS_Subset, FS_AddElement
  <2>5. AllocatedBy(cs \cup {c}, p) = SumFunction(f) /\ AllocatedBy(cs, p) = SumOver(f, S)
    <3>1. SumFunction(f) = AllocatedBy(cs \cup {c}, p)
      BY <2>1 DEF AllocatedBy
    <3>2. Part(f, S) = [d \in S |-> SumFunction(d.batch)]
      BY DEF Part
    <3> QED
      BY <3>1, <3>2 DEF AllocatedBy, SumOver
  <2>6. S \in SUBSET D /\ c \in D /\ S \cup {c} = D
    OBVIOUS
  <2> HIDE DEF f, D, S
  <2>7. SumFunction(f) = SumOver(f, D)
    BY <2>3, SumOverAll
  <2>8. SumOver(f, S \cup {c}) = f[c] + SumOver(f, S)
    BY <2>1, <2>3, <2>4, <2>6, SumOverAdd
  <2>9. AllocatedBy(cs \cup {c}, p) = SumFunction(c.batch) + AllocatedBy(cs, p)
    BY <2>3, <2>5, <2>6, <2>7, <2>8
  <2>10. ASSUME NEW a \in Int, NEW b \in Int PROVE a + b = b + a
    OBVIOUS
  <2> QED
    BY <1>0, <1>2, <2>3, <2>9, <2>10, Zenon
<1> QED
  BY <1>1, <1>2

LEMMA AllocatedNone ==
    ASSUME NEW cs, NEW p, \A c \in cs : c.payment # p
    PROVE  AllocatedBy(cs, p) = 0
<1>1. {d \in cs : d.payment = p} = {}
  OBVIOUS
<1>2. DOMAIN [c \in {d \in cs : d.payment = p} |-> SumFunction(c.batch)] = {}
  BY <1>1
<1> QED
  BY <1>2, SumEmpty DEF AllocatedBy

(***************************************************************************)
(* SumsInv is inductive.                                                   *)
(***************************************************************************)

SumsLocal(t) == AddsCommand(t) /\ Reckoned(t) /\ Covers(t)

LEMMA InitSumsInv == Init => SumsInv
<1> SUFFICES ASSUME Init PROVE SumsInv
  OBVIOUS
<1>1. \A t \in Txns : /\ pc[t] = "idle" /\ news[t] = Nothing /\ ~(t \in Running)
                      /\ HeldInvoices(t) = {} /\ HeldPayments(t) = {}
  BY DEF Init, Running, HeldInvoices, HeldPayments, NoInvoices, NoPayments
<1>2. NamesExist
  BY ReceivablesAssumption DEF Init, NamesExist
<1>3. RebuildRepairs
  BY <1>1 DEF RebuildRepairs
<1>4. \A t \in Txns : AddsCommand(t) /\ Reckoned(t) /\ Covers(t)
  BY <1>1 DEF AddsCommand, Reckoned, Covers, Serves, Nothing
<1> QED
  BY <1>2, <1>3, <1>4 DEF SumsInv

LEMMA BalancedRows ==
    Balanced <=> (\A i \in InvoiceIds : RightInvoice(i)) /\ (\A p \in PaymentIds : RightPayment(p))
BY DEF Balanced, RightInvoice, RightPayment

\* While the tables stay, a transaction that does nothing stays as it should be.
LEMMA SumsStay ==
    ASSUME UNCHANGED Stored, NEW u \in Txns, Same(u), SumsLocal(u)
    PROVE  SumsLocal(u)'
<1> USE DEF Same, Stored, SumsLocal
<1>1. /\ HeldInvoices(u)' = HeldInvoices(u) /\ HeldPayments(u)' = HeldPayments(u)
      /\ (u \in Running)' = (u \in Running) /\ Inline(u)' = Inline(u)
      /\ CommandOf(u)' = CommandOf(u) /\ SameRef(CommandOf(u))' = SameRef(CommandOf(u))
      /\ \A kind, places : Serves(u, kind, places)' = Serves(u, kind, places)
      /\ Summed(u)' = Summed(u)
  BY DEF HeldInvoices, HeldPayments, Running, Inline, Serves, CommandOf, SameRef, Summed
<1>2. AddsCommand(u)'
  BY <1>1 DEF AddsCommand
<1>3. Reckoned(u)'
  BY <1>1 DEF Reckoned
<1>4. Covers(u)'
  BY <1>1 DEF Covers, RightInvoice, RightPayment
<1> QED
  BY <1>2, <1>3, <1>4

\* The command a commit adds, if any, is of the rows it holds.
LEMMA CommitAdds ==
    ASSUME ReceivablesInv, SumsInv, NEW t \in Txns, Commit(t)
    PROVE  \/ commands' = commands /\ news[t].commands = {}
           \/ /\ commands' = commands \cup {CommandOf(t)} /\ news[t].commands # {}
              /\ CommandOf(t) \in Command \ commands /\ CommandOf(t).batch = req[t].batch
              /\ HeldInvoices(t) = DOMAIN CommandOf(t).batch
              /\ HeldPayments(t) = {CommandOf(t).payment}
              /\ req[t].kind \in {"allocate", "payment"}
<1>1. commands' = commands \cup news[t].commands /\ pc[t] = "commit" /\ AddsCommand(t)
  BY DEF Commit, SumsInv
<1>2. CASE news[t].commands = {}
  BY <1>1, <1>2
<1>3. CASE news[t].commands # {}
  <2>1. /\ Serves(t, "allocate", {"commit"}) \/ (Serves(t, "payment", {"commit"}) /\ Inline(t))
        /\ news[t].commands = {CommandOf(t)} /\ HeldInvoices(t) = DOMAIN req[t].batch
        /\ SameRef(CommandOf(t)) = {}
    BY <1>1, <1>3 DEF AddsCommand
  <2>2. /\ CommandOf(t).batch = req[t].batch /\ HeldPayments(t) = {CommandOf(t).payment}
        /\ CommandOf(t) \in Command
    BY <2>1, CommandThere DEF Serves
  <2>3. CommandOf(t) \notin commands
    BY <2>1 DEF SameRef
  <2> QED
    BY <1>1, <1>3, <2>1, <2>2, <2>3 DEF Serves
<1> QED
  BY <1>2, <1>3

\* The sums of the other rows stay.
LEMMA CommitSumsStay ==
    ASSUME ReceivablesInv, SumsInv, NEW t \in Txns, Commit(t)
    PROVE  /\ \A i \in InvoiceIds \ HeldInvoices(t) :
                 SettledBy(commands', i) = SettledBy(commands, i)
           /\ \A p \in PaymentIds \ HeldPayments(t) :
                 AllocatedBy(commands', p) = AllocatedBy(commands, p)
<1>0. commands \in SUBSET Command /\ IsFiniteSet(commands)
  BY DEF ReceivablesInv, TypeOK
<1>1. CASE commands' = commands
  BY <1>1
<1>2. CASE /\ commands' = commands \cup {CommandOf(t)}
           /\ CommandOf(t) \in Command \ commands
           /\ HeldInvoices(t) = DOMAIN CommandOf(t).batch
           /\ HeldPayments(t) = {CommandOf(t).payment}
  <2>1. ASSUME NEW i \in InvoiceIds \ HeldInvoices(t)
        PROVE  SettledBy(commands', i) = SettledBy(commands, i)
    <3>1. LineFor(CommandOf(t), i) = 0
      BY <1>2 DEF LineFor
    <3>2. SettledBy(commands', i) = SettledBy(commands, i) + LineFor(CommandOf(t), i)
      BY <1>0, <1>2, SettledAdd
    <3>3. SettledBy(commands, i) \in Int
      BY <1>0, SettledInt
    <3> QED
      BY <3>1, <3>2, <3>3
  <2>2. ASSUME NEW p \in PaymentIds \ HeldPayments(t)
        PROVE  AllocatedBy(commands', p) = AllocatedBy(commands, p)
    <3>1. CommandOf(t).payment # p
      BY <1>2
    <3>2. AllocatedBy(commands', p) = AllocatedBy(commands, p) + 0
      BY <1>0, <1>2, <3>1, AllocatedAdd
    <3>3. AllocatedBy(commands, p) \in Int
      BY <1>0, AllocatedInt
    <3> QED
      BY <3>2, <3>3
  <2> QED
    BY <2>1, <2>2
<1> QED
  BY <1>1, <1>2, CommitAdds

\* A row that is right stays right, and one a rebuild has added up gets right.
LEMMA CommitInvoice ==
    ASSUME ReceivablesInv, SumsInv, NEW t \in Txns, Commit(t), NEW i \in InvoiceIds,
           RightInvoice(i) \/ (i \in HeldInvoices(t) /\ Summed(t))
    PROVE  RightInvoice(i)'
<1>0. /\ commands \in SUBSET Command /\ IsFiniteSet(commands) /\ NamesExist
      /\ SettledBy(commands, i) \in Int
  BY SettledInt DEF ReceivablesInv, TypeOK, SumsInv
<1>1. CASE i \notin HeldInvoices(t)
  <2>1. invoice'[i] = invoice[i] /\ SettledBy(commands', i) = SettledBy(commands, i)
    BY <1>1, CommitTables, CommitSumsStay
  <2> QED
    BY <1>1, <2>1 DEF RightInvoice
<1>2. CASE i \in HeldInvoices(t)
  <2>0. /\ invoice'[i] = inv[t][i] /\ OfInvoice(t, inv[t][i], invoice[i]) /\ pc[t] = "commit"
        /\ Reckoned(t)
    BY <1>2, CommitTables DEF ReceivablesInv, Based, SumsInv
  <2> SUFFICES invoice'[i].settled = SettledBy(commands', i)
    BY DEF RightInvoice
  <2>1. CASE req[t].kind = "invoice"
    <3>1. invoice[i] = NoRow /\ inv[t][i].settled = 0
      BY <1>2, <2>0, <2>1 DEF OfInvoice, Reckoned
    <3>2. \A c \in commands : i \notin DOMAIN c.batch
      BY <1>0, <3>1 DEF NamesExist
    <3>3. SettledBy(commands, i) = 0
      BY <1>0, <3>2, SettledNone
    <3>4. commands' = commands
      BY <2>1, CommitAdds
    <3> QED
      BY <2>0, <3>1, <3>3, <3>4
  <2>2. CASE Summed(t)
    <3>1. inv[t][i].settled = SettledBy(commands, i) /\ req[t].kind = "rebuild"
      BY <1>2, <2>0, <2>2 DEF Reckoned, Summed, Serves
    <3>2. commands' = commands
      BY <3>1, CommitAdds
    <3> QED
      BY <2>0, <3>1, <3>2
  <2>3. CASE req[t].kind # "invoice" /\ ~Summed(t)
    <3>1. invoice[i] # NoRow /\ RightInvoice(i)
      BY <1>2, <2>0, <2>3 DEF OfInvoice
    <3>2. invoice[i].settled = SettledBy(commands, i)
      BY <3>1 DEF RightInvoice
    <3>3. inv[t][i].settled =
            invoice[i].settled + IF news[t].commands = {} THEN 0 ELSE req[t].batch[i]
      BY <1>2, <2>0, <2>3 DEF Reckoned
    <3>4. CASE commands' = commands /\ news[t].commands = {}
      BY <1>0, <2>0, <3>2, <3>3, <3>4
    <3>5. CASE /\ commands' = commands \cup {CommandOf(t)} /\ news[t].commands # {}
               /\ CommandOf(t) \in Command \ commands /\ CommandOf(t).batch = req[t].batch
               /\ HeldInvoices(t) = DOMAIN CommandOf(t).batch
      <4>1. LineFor(CommandOf(t), i) = req[t].batch[i]
        BY <1>2, <3>5 DEF LineFor
      <4>2. SettledBy(commands', i) = SettledBy(commands, i) + LineFor(CommandOf(t), i)
        BY <1>0, <3>5, SettledAdd
      <4> QED
        BY <2>0, <3>2, <3>3, <3>5, <4>1, <4>2
    <3> QED
      BY <3>4, <3>5, CommitAdds
  <2> QED
    BY <2>1, <2>2, <2>3
<1> QED
  BY <1>1, <1>2

LEMMA CommitPayment ==
    ASSUME ReceivablesInv, SumsInv, NEW t \in Txns, Commit(t), NEW p \in PaymentIds,
           RightPayment(p) \/ (p \in HeldPayments(t) /\ Serves(t, "rebuild", {"commit"}))
    PROVE  RightPayment(p)'
<1>0. /\ commands \in SUBSET Command /\ IsFiniteSet(commands) /\ NamesExist
      /\ AllocatedBy(commands, p) \in Int
  BY AllocatedInt DEF ReceivablesInv, TypeOK, SumsInv
<1>1. CASE p \notin HeldPayments(t)
  <2>1. payment'[p] = payment[p] /\ AllocatedBy(commands', p) = AllocatedBy(commands, p)
    BY <1>1, CommitTables, CommitSumsStay
  <2> QED
    BY <1>1, <2>1 DEF RightPayment
<1>2. CASE p \in HeldPayments(t)
  <2>0. /\ payment'[p] = pay[t][p] /\ OfPayment(t, pay[t][p], payment[p]) /\ pc[t] = "commit"
        /\ Reckoned(t)
    BY <1>2, CommitTables DEF ReceivablesInv, Based, SumsInv
  <2> SUFFICES payment'[p].allocated = AllocatedBy(commands', p)
    BY DEF RightPayment
  <2> DEFINE more == IF news[t].commands = {} THEN 0 ELSE SumFunction(req[t].batch)
  <2>1. AllocatedBy(commands', p) = AllocatedBy(commands, p) + more
    <3>1. CASE commands' = commands /\ news[t].commands = {}
      BY <1>0, <3>1
    <3>2. CASE /\ commands' = commands \cup {CommandOf(t)} /\ news[t].commands # {}
               /\ CommandOf(t) \in Command \ commands /\ CommandOf(t).batch = req[t].batch
               /\ HeldPayments(t) = {CommandOf(t).payment}
      <4>1. CommandOf(t).payment = p
        BY <1>2, <3>2
      <4>2. AllocatedBy(commands', p) =
              AllocatedBy(commands, p) + SumFunction(CommandOf(t).batch)
        BY <1>0, <3>2, <4>1, AllocatedAdd
      <4> QED
        BY <3>2, <4>2
    <3> QED
      BY <3>1, <3>2, CommitAdds
  <2>2. CASE req[t].kind = "payment"
    <3>1. payment[p] = NoRow /\ pay[t][p].allocated = 0 + more
      BY <1>2, <2>0, <2>2 DEF OfPayment, Reckoned, Serves
    <3>2. \A c \in commands : c.payment # p
      BY <1>0, <3>1 DEF NamesExist
    <3>3. AllocatedBy(commands, p) = 0
      BY <3>2, AllocatedNone
    <3> QED
      BY <2>0, <2>1, <3>1, <3>3
  <2>3. CASE Serves(t, "rebuild", {"commit"})
    <3>1. pay[t][p].allocated = AllocatedBy(commands, p) /\ req[t].kind = "rebuild"
      BY <1>2, <2>0, <2>3 DEF Reckoned, Serves
    <3>2. commands' = commands
      BY <3>1, CommitAdds
    <3> QED
      BY <2>0, <3>1, <3>2
  <2>4. CASE req[t].kind # "payment" /\ ~Serves(t, "rebuild", {"commit"})
    <3>1. payment[p] # NoRow /\ RightPayment(p)
      BY <1>2, <2>0, <2>4 DEF OfPayment
    <3>2. payment[p].allocated = AllocatedBy(commands, p)
      BY <3>1 DEF RightPayment
    <3>3. pay[t][p].allocated = payment[p].allocated + more
      BY <1>2, <2>0, <2>4 DEF Reckoned
    <3> QED
      BY <2>0, <2>1, <3>2, <3>3
  <2> QED
    BY <2>2, <2>3, <2>4
<1> QED
  BY <1>1, <1>2

\* A commit.
LEMMA CommitSums ==
    ASSUME ReceivablesInv, SumsInv, NEW t \in Txns, Commit(t)
    PROVE  SumsInv'
<1>0. /\ pc'[t] = "committed" /\ req'[t] = req[t] /\ news'[t] = Nothing /\ ~(t \in Running)'
      /\ HeldInvoices(t)' = {} /\ HeldPayments(t)' = {}
  BY DEF Commit, End, Goto, ReceivablesInv, TypeOK, Running, HeldInvoices, HeldPayments,
         NoInvoices, NoPayments
<1>1. NamesExist'
  <2>1. /\ \A p \in PaymentIds : payment[p] # NoRow => payment'[p] # NoRow
        /\ \A p \in HeldPayments(t) : payment'[p] # NoRow
        /\ \A i \in InvoiceIds : invoice[i] # NoRow => invoice'[i] # NoRow
        /\ \A i \in HeldInvoices(t) : invoice'[i] # NoRow
    BY CommitTables DEF HeldInvoices, HeldPayments
  <2>2. \A c \in commands : c.payment \in PaymentIds /\ DOMAIN c.batch \subseteq InvoiceIds
    BY SubledgerAssumption DEF ReceivablesInv, TypeOK, Command
  <2>3. \A c \in commands : payment'[c.payment] # NoRow /\ \A i \in DOMAIN c.batch : invoice'[i] # NoRow
    BY <2>1, <2>2 DEF SumsInv, NamesExist
  <2> QED
    BY <2>1, <2>3, CommitAdds DEF NamesExist
<1>2. RebuildRepairs'
  <2> SUFFICES ASSUME NEW u \in Txns, pc'[u] = "committed", req'[u].kind = "rebuild"
               PROVE  Balanced'
    BY DEF RebuildRepairs
  <2>1. CASE u = t
    <3>1. Covers(t) /\ Serves(t, "rebuild", {"commit"}) /\ Summed(t) /\ t \in Running
      BY <1>0, <2>1, CommitTables DEF SumsInv, Serves, Summed
    <3>2. /\ \A p \in PaymentIds : RightPayment(p) \/ p \in HeldPayments(t)
          /\ \A i \in InvoiceIds : RightInvoice(i) \/ i \in HeldInvoices(t)
      BY <3>1 DEF Covers, Serves
    <3>3. (\A i \in InvoiceIds : RightInvoice(i)') /\ (\A p \in PaymentIds : RightPayment(p)')
      BY <3>1, <3>2, CommitInvoice, CommitPayment
    <3> QED
      BY <3>3 DEF Balanced, RightInvoice, RightPayment
  <2>2. CASE u # t
    <3>1. pc[u] = "committed" /\ req[u].kind = "rebuild"
      BY <2>2, CommitTables DEF Same
    <3>2. Balanced
      BY <3>1 DEF SumsInv, RebuildRepairs
    <3>3. (\A i \in InvoiceIds : RightInvoice(i)') /\ (\A p \in PaymentIds : RightPayment(p)')
      BY <3>2, BalancedRows, CommitInvoice, CommitPayment
    <3> QED
      BY <3>3 DEF Balanced, RightInvoice, RightPayment
  <2> QED
    BY <2>1, <2>2
<1>3. SumsLocal(t)'
  BY <1>0 DEF SumsLocal, AddsCommand, Reckoned, Covers, Serves, Nothing
<1>4. ASSUME NEW u \in Txns \ {t} PROVE SumsLocal(u)'
  <2>1. Same(u) /\ SumsLocal(u)
    BY CommitTables DEF SumsInv, SumsLocal
  <2>2. /\ HeldInvoices(u)' = HeldInvoices(u) /\ HeldPayments(u)' = HeldPayments(u)
        /\ (u \in Running)' = (u \in Running) /\ Inline(u)' = Inline(u)
        /\ CommandOf(u)' = CommandOf(u)
        /\ \A kind, places : Serves(u, kind, places)' = Serves(u, kind, places)
        /\ Summed(u)' = Summed(u)
    BY <2>1 DEF HeldInvoices, HeldPayments, Running, Inline, Serves, CommandOf, Summed, Same
  <2>3. /\ \A i \in HeldInvoices(u) : /\ invoice'[i] = invoice[i]
                                      /\ SettledBy(commands', i) = SettledBy(commands, i)
        /\ \A p \in HeldPayments(u) : /\ payment'[p] = payment[p]
                                      /\ AllocatedBy(commands', p) = AllocatedBy(commands, p)
    <3>1. HeldInvoices(u) \subseteq InvoiceIds /\ HeldPayments(u) \subseteq PaymentIds
      BY DEF HeldInvoices, HeldPayments
    <3> QED
      BY <3>1, CommitTables, CommitSumsStay
  <2>4. AddsCommand(u)'
    <3>1. ASSUME \/ Serves(u, "allocate", {"invoices"})
                 \/ Serves(u, "allocate", {"commit"})
                 \/ Serves(u, "payment", {"commit"}) /\ Inline(u)
          PROVE  SameRef(CommandOf(u))' = SameRef(CommandOf(u))
      <4>1. HeldPayments(u) = {CommandOf(u).payment}
        BY <3>1, CommandThere DEF Serves
      <4>2. CommandOf(u).payment \notin HeldPayments(t)
        BY <4>1, CommitTables
      <4>3. {d \in commands' : d.payment = CommandOf(u).payment /\ d.ref = CommandOf(u).ref}
              = SameRef(CommandOf(u))
        BY <4>2, CommitAdds DEF SameRef
      <4> QED
        BY <2>2, <4>3 DEF SameRef
    <3> QED
      BY <2>1, <2>2, <3>1 DEF AddsCommand, SumsLocal, Same
  <2>5. Reckoned(u)'
    BY <2>1, <2>2, <2>3 DEF Reckoned, SumsLocal, Same
  <2>6. Covers(u)'
    <3>1. /\ \A i \in InvoiceIds : RightInvoice(i) => RightInvoice(i)'
          /\ \A p \in PaymentIds : RightPayment(p) => RightPayment(p)'
      BY CommitInvoice, CommitPayment
    <3> QED
      BY <2>1, <2>2, <3>1 DEF Covers, SumsLocal, Same
  <2> QED
    BY <2>4, <2>5, <2>6 DEF SumsLocal
<1> QED
  BY <1>1, <1>2, <1>3, <1>4 DEF SumsInv, SumsLocal

\* The rows and commands t has stay, and its kind of statement.
Kept(t) ==
    /\ req'[t] = req[t] /\ inv'[t] = inv[t] /\ pay'[t] = pay[t]
    /\ Summed(t)' = Summed(t) /\ (Serves(t, "rebuild", {"commit"}))' = Serves(t, "rebuild", {"commit"})
    /\ news'[t].commands = {} /\ news[t].commands = {}

LEMMA KeptReckoned ==
    ASSUME UNCHANGED Stored, NEW t \in Txns, Kept(t), Reckoned(t)
    PROVE  /\ Reckoned(t)' /\ HeldInvoices(t)' = HeldInvoices(t)
           /\ HeldPayments(t)' = HeldPayments(t)
<1>1. HeldInvoices(t)' = HeldInvoices(t) /\ HeldPayments(t)' = HeldPayments(t)
  BY DEF Kept, HeldInvoices, HeldPayments
<1> QED
  BY <1>1 DEF Kept, Reckoned, Stored

\* t has no command, and is no rebuild.
NoRebuild(t) == news[t].commands = {} /\ req[t].kind # "rebuild"

LEMMA RefuseSums ==
    ASSUME ReceivablesInv, SumsInv, NEW t \in Txns, Refuse(t)
    PROVE  SumsLocal(t)'
<1>1. /\ pc'[t] = "refused" /\ news'[t] = Nothing /\ ~(t \in Running)'
      /\ HeldInvoices(t)' = {} /\ HeldPayments(t)' = {}
  BY DEF Refuse, End, Goto, ReceivablesInv, TypeOK, Running, HeldInvoices, HeldPayments,
         NoInvoices, NoPayments
<1> QED
  BY <1>1 DEF SumsLocal, AddsCommand, Reckoned, Covers, Serves, Nothing

LEMMA StartSums ==
    ASSUME ReceivablesInv, SumsInv, NEW t \in Txns, pc[t] = "idle",
           NEW r, NEW where \in {"doc", "payments", "invoices"}, NEW rows,
           Start(t, r, where, rows),
           r.kind = "rebuild" => /\ where = "payments"
                                 /\ rows = {p \in PaymentIds : payment[p] # NoRow},
           r.kind = "allocate" => where = "payments"
    PROVE  SumsLocal(t)'
<1>1. /\ pc'[t] = where /\ req'[t] = r /\ todo'[t] = rows /\ news'[t] = Nothing
      /\ HeldInvoices(t)' = {} /\ HeldPayments(t)' = {} /\ UNCHANGED Stored
  <2>1. news[t] = Nothing /\ HeldInvoices(t) = {} /\ HeldPayments(t) = {}
    BY DEF ReceivablesInv, Holds
  <2> QED
    BY <2>1 DEF Start, Goto, ReceivablesInv, TypeOK, HeldInvoices, HeldPayments
<1>2. AddsCommand(t)' /\ Reckoned(t)'
  BY <1>1 DEF AddsCommand, Reckoned, Serves, Nothing
<1>3. Covers(t)'
  <2> SUFFICES ASSUME r.kind = "rebuild"
               PROVE  Covers(t)'
    BY <1>1 DEF Covers
  <2>1. \A p \in PaymentIds : RightPayment(p)' \/ p \in rows
    BY <1>1 DEF RightPayment, Stored
  <2> QED
    BY <1>1, <2>1 DEF Covers
<1> QED
  BY <1>2, <1>3 DEF SumsLocal

LEMMA BeginSums ==
    ASSUME ReceivablesInv, SumsInv, NEW t \in Txns, BeginRequest(t)
    PROVE  SumsLocal(t)'
<1>1. ASSUME NEW o, BeginInvoice(t, o) PROVE SumsLocal(t)'
  <2>1. [Request("invoice") EXCEPT !.order = o].kind = "invoice"
    BY DEF Request
  <2> QED
    BY <1>1, <2>1, StartSums DEF BeginInvoice, Idle
<1>2. ASSUME NEW i, BeginVoidInvoice(t, i) PROVE SumsLocal(t)'
  <2>1. Request("voidInvoice").kind = "voidInvoice"
    BY DEF Request
  <2> QED
    BY <1>2, <2>1, StartSums DEF BeginVoidInvoice, Idle
<1>3. ASSUME NEW c, NEW b, BeginPayment(t, c, b) PROVE SumsLocal(t)'
  <2>1. [Request("payment") EXCEPT !.receipt = c, !.batch = b].kind = "payment"
    BY DEF Request
  <2> QED
    BY <1>3, <2>1, StartSums DEF BeginPayment, Idle
<1>4. ASSUME NEW p, BeginVoidPayment(t, p) PROVE SumsLocal(t)'
  <2>1. Request("voidPayment").kind = "voidPayment"
    BY DEF Request
  <2> QED
    BY <1>4, <2>1, StartSums DEF BeginVoidPayment, Idle
<1>5. ASSUME NEW p, NEW x, NEW b, BeginAllocate(t, p, x, b) PROVE SumsLocal(t)'
  <2>1. [Request("allocate") EXCEPT !.ref = x, !.batch = b].kind = "allocate"
    BY DEF Request
  <2> QED
    BY <1>5, <2>1, StartSums DEF BeginAllocate, Idle
<1>6. ASSUME BeginRebuild(t) PROVE SumsLocal(t)'
  <2>1. Request("rebuild").kind = "rebuild"
    BY DEF Request
  <2> DEFINE rows == {p \in PaymentIds : payment[p] # NoRow}
  <2>2. pc[t] = "idle" /\ Start(t, Request("rebuild"), "payments", rows)
    BY <1>6 DEF BeginRebuild, Idle
  <2>3. rows = {p \in PaymentIds : payment[p] # NoRow}
    OBVIOUS
  <2> QED
    BY <2>1, <2>2, StartSums
<1> QED
  BY <1>1, <1>2, <1>3, <1>4, <1>5, <1>6 DEF BeginRequest

\* Steps of requests that neither rebuild nor allocate.
LEMMA OtherSums ==
    ASSUME UNCHANGED Stored, NEW t \in Txns, req'[t] = req[t], Reckoned(t)',
           req[t].kind # "rebuild", news'[t].commands = {},
           req[t].kind = "allocate" => pc'[t] # "invoices"
    PROVE  SumsLocal(t)'
BY DEF SumsLocal, AddsCommand, Covers, Serves

LEMMA InsertSums ==
    ASSUME ReceivablesInv, SumsInv, NEW t \in Txns,
           LockDocNo(t) \/ (\E i \in InvoiceIds : InsertInvoice(t, i))
                        \/ \E p \in PaymentIds : InsertPayment(t, p)
    PROVE  SumsLocal(t)'
<1> USE DEF ReceivablesInv
<1>1. /\ pc[t] \in {"doc", "insert"} /\ UNCHANGED Stored /\ req'[t] = req[t]
      /\ news[t] = Nothing /\ news'[t] = news[t] /\ pc'[t] # "invoices"
      /\ HeldInvoices(t) = {} /\ HeldPayments(t) = {}
  BY DEF LockDocNo, InsertInvoice, InsertPayment, MayRun, Goto, Holds, TypeOK
<1>2. req[t].kind \in {"invoice", "payment"}
  BY <1>1 DEF Served, Serves, Running
<1>3. Reckoned(t)'
  <2>1. CASE LockDocNo(t)
    <3>1. HeldInvoices(t)' = {} /\ HeldPayments(t)' = {}
      BY <1>1, <2>1 DEF LockDocNo, HeldInvoices, HeldPayments
    <3> QED
      BY <3>1 DEF Reckoned
  <2>2. ASSUME NEW i \in InvoiceIds, InsertInvoice(t, i) PROVE Reckoned(t)'
    <3>1. /\ HeldPayments(t)' = {} /\ req[t].kind = "invoice"
          /\ \A j \in HeldInvoices(t)' : j = i /\ inv'[t][i].settled = 0
      BY <1>1, <2>2 DEF InsertInvoice, HeldInvoices, HeldPayments, TypeOK
    <3> QED
      BY <1>1, <3>1 DEF Reckoned
  <2>3. ASSUME NEW p \in PaymentIds, InsertPayment(t, p) PROVE Reckoned(t)'
    <3>1. /\ HeldInvoices(t)' = {} /\ req[t].kind = "payment"
          /\ \A q \in HeldPayments(t)' : q = p /\ pay'[t][p].allocated = 0
      BY <1>1, <2>3 DEF InsertPayment, HeldInvoices, HeldPayments, TypeOK
    <3> QED
      BY <1>1, <3>1 DEF Reckoned, Serves, Nothing
  <2> QED
    BY <2>1, <2>2, <2>3
<1> QED
  BY <1>1, <1>2, <1>3, OtherSums DEF Nothing

LEMMA PostSums ==
    ASSUME ReceivablesInv, SumsInv, NEW t \in Txns, Post(t)
    PROVE  SumsLocal(t)'
<1>1. /\ pc[t] = "post" /\ UNCHANGED Stored /\ req'[t] = req[t] /\ inv'[t] = inv[t]
      /\ pay'[t] = pay[t] /\ news[t] = Nothing /\ news'[t].commands = news[t].commands
  BY DEF Post, MayRun, ReceivablesInv, TypeOK, Holds
<1>2. req[t].kind \in {"invoice", "voidInvoice", "payment", "voidPayment"}
  BY <1>1, KindsThere
<1>3. Kept(t) /\ Reckoned(t)
  BY <1>1, <1>2 DEF Kept, Summed, Serves, SumsInv, Nothing
<1> QED
  BY <1>1, <1>2, <1>3, KeptReckoned, OtherSums DEF Nothing

LEMMA VoidSums ==
    ASSUME ReceivablesInv, SumsInv, NEW t \in Txns,
           (\E i \in InvoiceIds : VoidInvoice(t, i)) \/ \E p \in PaymentIds : VoidPayment(t, p)
    PROVE  SumsLocal(t)'
<1>0. TypeOK /\ Holds(t) /\ Reckoned(t)
  BY DEF ReceivablesInv, SumsInv
<1>1. ASSUME NEW i \in InvoiceIds, VoidInvoice(t, i), ~Refuse(t) PROVE SumsLocal(t)'
  <2>1. /\ pc[t] = "invoices" /\ req[t].kind = "voidInvoice" /\ UNCHANGED Stored
        /\ req'[t] = req[t] /\ news'[t] = news[t] /\ pay'[t] = pay[t] /\ pc'[t] = "post"
        /\ inv'[t] = [inv[t] EXCEPT ![i].status = "VOIDED"] /\ news[t] = Nothing
        /\ i \in HeldInvoices(t)
    BY <1>0, <1>1 DEF VoidInvoice, HasRows, Goto, TypeOK, Holds, HeldInvoices
  <2>2. /\ HeldPayments(t)' = HeldPayments(t) /\ HeldInvoices(t)' \subseteq HeldInvoices(t)
        /\ \A j \in HeldInvoices(t) : inv'[t][j].settled = inv[t][j].settled
    <3>1. inv[t] \in [InvoiceIds -> Invoice \cup {NoRow}] /\ inv[t][i] \in Invoice
      BY <1>0, <2>1 DEF TypeOK, HeldInvoices
    <3>2. [inv[t][i] EXCEPT !.status = "VOIDED"].settled = inv[t][i].settled
      BY <3>1 DEF Invoice
    <3> QED
      BY <2>1, <3>1, <3>2 DEF HeldPayments, HeldInvoices
  <2>3. Reckoned(t)'
    BY <1>0, <2>1, <2>2 DEF Reckoned, Summed, Serves, Stored
  <2> QED
    BY <2>1, <2>3, OtherSums DEF Nothing
<1>2. ASSUME NEW p \in PaymentIds, VoidPayment(t, p), ~Refuse(t) PROVE SumsLocal(t)'
  <2>1. /\ pc[t] = "payments" /\ req[t].kind = "voidPayment" /\ UNCHANGED Stored
        /\ req'[t] = req[t] /\ news'[t] = news[t] /\ inv'[t] = inv[t] /\ pc'[t] = "post"
        /\ pay'[t] = [pay[t] EXCEPT ![p].status = "VOIDED"] /\ news[t] = Nothing
        /\ p \in HeldPayments(t)
    BY <1>0, <1>2 DEF VoidPayment, HasRows, Goto, TypeOK, Holds, HeldPayments
  <2>2. /\ HeldInvoices(t)' = HeldInvoices(t) /\ HeldPayments(t)' \subseteq HeldPayments(t)
        /\ \A q \in HeldPayments(t) : pay'[t][q].allocated = pay[t][q].allocated
    <3>1. pay[t] \in [PaymentIds -> Payment \cup {NoRow}] /\ pay[t][p] \in Payment
      BY <1>0, <2>1 DEF TypeOK, HeldPayments
    <3>2. [pay[t][p] EXCEPT !.status = "VOIDED"].allocated = pay[t][p].allocated
      BY <3>1 DEF Payment
    <3> QED
      BY <2>1, <3>1, <3>2 DEF HeldPayments, HeldInvoices
  <2>3. Reckoned(t)'
    BY <1>0, <2>1, <2>2 DEF Reckoned, Summed, Serves, Stored
  <2> QED
    BY <2>1, <2>3, OtherSums DEF Nothing
<1> QED
  BY <1>1, <1>2, RefuseSums

LEMMA LockPaymentSums ==
    ASSUME ReceivablesInv, SumsInv, NEW t \in Txns, LockPayment(t)
    PROVE  SumsLocal(t)'
<1> DEFINE p == Turn(t)
<1>1. /\ pc[t] = "payments" /\ pc'[t] = pc[t] /\ UNCHANGED Stored /\ req'[t] = req[t]
      /\ news'[t] = news[t] /\ inv'[t] = inv[t] /\ news[t] = Nothing /\ HeldInvoices(t) = {}
      /\ pay'[t] = [pay[t] EXCEPT ![p] = payment[p]] /\ payment[p] # NoRow
      /\ todo'[t] = todo[t] \ {p}
  BY DEF LockPayment, MayRun, ReceivablesInv, TypeOK, Holds
<1>2. req[t].kind \in {"voidPayment", "allocate", "rebuild"}
  BY <1>1, KindsThere
<1>3. p \in PaymentIds
  BY <1>1, TurnIsLowest DEF LockPayment, MayRun, ReceivablesInv, Queued
<1> HIDE DEF p
<1>4. /\ HeldPayments(t)' = HeldPayments(t) \cup {p} /\ HeldInvoices(t)' = {}
      /\ pay'[t][p] = payment[p]
      /\ \A q \in HeldPayments(t) \ {p} : pay'[t][q] = pay[t][q]
  BY <1>1, <1>3 DEF HeldPayments, HeldInvoices, ReceivablesInv, TypeOK
<1>5. Reckoned(t)'
  <2>1. p \in PaymentIds /\ payment[p].allocated \in Int
    BY <1>1, <1>3 DEF ReceivablesInv, TypeOK, Payment
  <2>2. Reckoned(t)
    BY DEF SumsInv
  <2> QED
    BY <1>1, <1>2, <1>4, <2>1, <2>2 DEF Reckoned, Serves, Nothing, Stored
<1>6. Covers(t)'
  <2>1. Covers(t) /\ t \in Running
    BY <1>1 DEF SumsInv, Running
  <2>2. ASSUME NEW q \in PaymentIds, req[t].kind = "rebuild"
        PROVE  RightPayment(q)' \/ q \in HeldPayments(t)' \/ q \in todo'[t]
    <3>1. RightPayment(q) \/ q \in HeldPayments(t) \/ q \in todo[t]
      BY <2>1, <2>2 DEF Covers
    <3> QED
      BY <1>1, <1>4, <3>1 DEF RightPayment, Stored
  <2> QED
    BY <1>1, <2>2 DEF Covers
<1> QED
  BY <1>1, <1>5, <1>6 DEF SumsLocal, AddsCommand, Serves, Nothing

LEMMA LockInvoiceSums ==
    ASSUME ReceivablesInv, SumsInv, NEW t \in Txns, LockInvoice(t)
    PROVE  SumsLocal(t)'
<1> DEFINE i == Turn(t)
<1>1. /\ pc[t] = "invoices" /\ pc'[t] = pc[t] /\ UNCHANGED Stored /\ req'[t] = req[t]
      /\ news'[t] = news[t] /\ pay'[t] = pay[t] /\ news[t].commands = {}
      /\ inv'[t] = [inv[t] EXCEPT ![i] = invoice[i]]
      /\ todo'[t] = todo[t] \ {i}
  BY DEF LockInvoice, MayRun, ReceivablesInv, TypeOK, Holds
<1>2. req[t].kind \in {"voidInvoice", "payment", "allocate", "rebuild"}
  BY <1>1, KindsThere
<1>3. i \in InvoiceIds /\ invoice[i] # NoRow
  BY <1>1, TurnIsLowest DEF LockInvoice, MayRun, ReceivablesInv, Queued
<1> HIDE DEF i
<1>4. /\ HeldInvoices(t)' = HeldInvoices(t) \cup {i} /\ HeldPayments(t)' = HeldPayments(t)
      /\ inv'[t][i] = invoice[i]
      /\ \A j \in HeldInvoices(t) \ {i} : inv'[t][j] = inv[t][j]
  BY <1>1, <1>3 DEF HeldPayments, HeldInvoices, ReceivablesInv, TypeOK
<1>5. Reckoned(t)'
  <2>1. invoice[i].settled \in Int
    BY <1>3 DEF ReceivablesInv, TypeOK, Invoice
  <2>2. Reckoned(t)
    BY DEF SumsInv
  <2>3. \A j \in HeldInvoices(t)' : inv'[t][j].settled = invoice[j].settled + 0
    BY <1>1, <1>2, <1>4, <2>1, <2>2 DEF Reckoned, Summed, Serves
  <2> QED
    BY <1>1, <1>2, <1>4, <2>2, <2>3 DEF Reckoned, Summed, Serves, Stored
<1>6. Covers(t)'
  <2>1. Covers(t) /\ t \in Running
    BY <1>1 DEF SumsInv, Running
  <2>2. ASSUME NEW j \in InvoiceIds, req[t].kind = "rebuild"
        PROVE  RightInvoice(j)' \/ j \in HeldInvoices(t)' \/ j \in todo'[t]
    <3>1. RightInvoice(j) \/ j \in HeldInvoices(t) \/ j \in todo[t]
      BY <1>1, <2>1, <2>2 DEF Covers
    <3> QED
      BY <1>1, <1>4, <3>1 DEF RightInvoice, Stored
  <2>3. ASSUME NEW p \in PaymentIds, req[t].kind = "rebuild"
        PROVE  RightPayment(p)' \/ p \in HeldPayments(t)'
    <3>1. RightPayment(p) \/ p \in HeldPayments(t)
      BY <1>1, <2>1, <2>3 DEF Covers
    <3> QED
      BY <1>1, <1>4, <3>1 DEF RightPayment, Stored
  <2> QED
    BY <1>1, <2>2, <2>3 DEF Covers
<1>7. AddsCommand(t)'
  <2>1. AddsCommand(t) /\ CommandOf(t)' = CommandOf(t)
    BY <1>1 DEF SumsInv, CommandOf, Inline
  <2> QED
    BY <1>1, <2>1 DEF AddsCommand, SameRef, Serves, Stored
<1> QED
  BY <1>5, <1>6, <1>7 DEF SumsLocal

LEMMA CheckPaymentSums ==
    ASSUME ReceivablesInv, SumsInv, NEW t \in Txns, CheckPayment(t)
    PROVE  SumsLocal(t)'
<1>0. CASE Refuse(t)
  BY <1>0, RefuseSums
<1>1. CASE ~Refuse(t)
  <2>1. /\ pc[t] = "payments" /\ req[t].kind = "allocate" /\ news[t] = Nothing
        /\ UNCHANGED Stored /\ req'[t] = req[t] /\ inv'[t] = inv[t] /\ pay'[t] = pay[t]
        /\ news'[t] = news[t]
        /\ pc'[t] = "commit" \/ (pc'[t] = "invoices" /\ SameRef(CommandOf(t)) = {})
    BY <1>1 DEF CheckPayment, HasRows, Goto, ReceivablesInv, TypeOK, Holds
  <2>2. Kept(t) /\ Reckoned(t)
    BY <2>1 DEF Kept, Summed, Serves, SumsInv, Nothing
  <2>5. CommandOf(t)' = CommandOf(t)
    BY <2>1 DEF CommandOf, Inline
  <2>3. CommandOf(t)' = CommandOf(t) /\ SameRef(CommandOf(t))' = SameRef(CommandOf(t))
    BY <2>1, <2>5 DEF SameRef, Stored
  <2>4. AddsCommand(t)'
    BY <2>1, <2>3 DEF AddsCommand, Serves, Nothing
  <2> QED
    BY <2>1, <2>2, <2>4, KeptReckoned DEF SumsLocal, Covers
<1> QED
  BY <1>0, <1>1

LEMMA SelectInvoicesSums ==
    ASSUME ReceivablesInv, SumsInv, NEW t \in Txns, SelectInvoices(t)
    PROVE  SumsLocal(t)'
<1>1. /\ pc[t] = "payments" /\ todo[t] = {} /\ req[t].kind = "rebuild" /\ news[t] = Nothing
      /\ UNCHANGED Stored /\ req'[t] = req[t] /\ inv'[t] = inv[t] /\ pay'[t] = pay[t]
      /\ news'[t] = news[t] /\ pc'[t] = "invoices"
      /\ todo'[t] = {i \in InvoiceIds : invoice[i] # NoRow}
  BY DEF SelectInvoices, HasRows, Goto, ReceivablesInv, TypeOK, Holds
<1>2. Kept(t) /\ Reckoned(t) /\ Covers(t) /\ t \in Running
  BY <1>1 DEF Kept, Summed, Serves, SumsInv, Nothing, Running
<1>3. HeldInvoices(t)' = HeldInvoices(t) /\ HeldPayments(t)' = HeldPayments(t)
  BY <1>1, <1>2, KeptReckoned
<1>4. Covers(t)'
  <2>1. \A p \in PaymentIds : RightPayment(p)' \/ p \in HeldPayments(t)'
    BY <1>1, <1>2, <1>3 DEF Covers, RightPayment, Stored
  <2>2. \A i \in InvoiceIds : RightInvoice(i)' \/ i \in todo'[t]
    BY <1>1 DEF RightInvoice, Stored
  <2> QED
    BY <1>1, <2>1, <2>2 DEF Covers
<1> QED
  BY <1>1, <1>2, <1>4, KeptReckoned DEF SumsLocal, AddsCommand, Serves, Nothing

LEMMA SumInvoicesSums ==
    ASSUME ReceivablesInv, SumsInv, NEW t \in Txns, SumInvoices(t)
    PROVE  SumsLocal(t)'
<1>1. /\ pc[t] = "invoices" /\ todo[t] = {} /\ req[t].kind = "rebuild" /\ news[t] = Nothing
      /\ UNCHANGED Stored /\ req'[t] = req[t] /\ pay'[t] = pay[t]
      /\ news'[t] = news[t] /\ pc'[t] = "sum"
      /\ inv'[t] = [i \in InvoiceIds |->
                      IF inv[t][i] = NoRow THEN NoRow
                      ELSE ResetTo(inv[t][i], SettledBy(commands, i))]
  BY DEF SumInvoices, HasRows, Goto, ReceivablesInv, TypeOK, Holds
<1>2. Reckoned(t) /\ Covers(t) /\ t \in Running
  BY <1>1 DEF SumsInv, Running
<1>3. ASSUME NEW i \in HeldInvoices(t)
      PROVE  i \in HeldInvoices(t)' /\ inv'[t][i].settled = SettledBy(commands, i)
  <2>1. i \in InvoiceIds /\ inv[t][i] \in Invoice /\ inv[t][i] # NoRow
    BY DEF HeldInvoices, ReceivablesInv, TypeOK
  <2>2. SettledBy(commands, i) \in Int
    BY SettledInt DEF ReceivablesInv, TypeOK
  <2>3. inv'[t][i] = ResetTo(inv[t][i], SettledBy(commands, i))
    BY <1>1, <2>1
  <2>4. inv'[t][i] \in Invoice /\ inv'[t][i].settled = SettledBy(commands, i)
    BY <2>1, <2>2, <2>3, ResetKeepsRow
  <2> QED
    BY <2>1, <2>4, ReceivablesAssumption DEF HeldInvoices
<1>4. HeldInvoices(t)' = HeldInvoices(t) /\ HeldPayments(t)' = HeldPayments(t)
  <2>1. HeldInvoices(t)' \subseteq HeldInvoices(t)
    BY <1>1 DEF HeldInvoices
  <2> QED
    BY <1>1, <1>3, <2>1 DEF HeldPayments
<1>5. Reckoned(t)'
  <2>1. \A p \in HeldPayments(t)' :
          pay'[t][p].allocated = (IF req[t].kind = "payment" THEN 0 ELSE payment[p].allocated)
                                 + IF news[t].commands = {} THEN 0 ELSE SumFunction(req[t].batch)
    BY <1>1, <1>2, <1>4 DEF Reckoned, Serves
  <2>2. Summed(t)' /\ ~(Serves(t, "rebuild", {"commit"}))' /\ req[t].kind # "invoice"
    BY <1>1 DEF Summed, Serves
  <2> QED
    BY <1>1, <1>3, <1>4, <2>1, <2>2 DEF Reckoned, Stored
<1>6. Covers(t)'
  BY <1>1, <1>2, <1>4 DEF Covers, RightInvoice, RightPayment, Stored
<1> QED
  BY <1>1, <1>5, <1>6 DEF SumsLocal, AddsCommand, Serves, Nothing

LEMMA SumPaymentsSums ==
    ASSUME ReceivablesInv, SumsInv, NEW t \in Txns, SumPayments(t)
    PROVE  SumsLocal(t)'
<1>1. /\ pc[t] = "sum" /\ req[t].kind = "rebuild" /\ news[t] = Nothing
      /\ UNCHANGED Stored /\ req'[t] = req[t] /\ inv'[t] = inv[t]
      /\ news'[t] = news[t] /\ pc'[t] = "commit"
      /\ pay'[t] = [p \in PaymentIds |->
                      IF pay[t][p] = NoRow THEN NoRow
                      ELSE [pay[t][p] EXCEPT !.allocated = AllocatedBy(commands, p)]]
  BY KindsThere DEF SumPayments, Goto, ReceivablesInv, TypeOK, Holds
<1>2. Reckoned(t) /\ Covers(t) /\ t \in Running
  BY <1>1 DEF SumsInv, Running
<1>3. ASSUME NEW p \in HeldPayments(t)
      PROVE  p \in HeldPayments(t)' /\ pay'[t][p].allocated = AllocatedBy(commands, p)
  <2>1. p \in PaymentIds /\ pay[t][p] \in Payment /\ pay[t][p] # NoRow
    BY DEF HeldPayments, ReceivablesInv, TypeOK
  <2>2. AllocatedBy(commands, p) \in Int
    BY AllocatedInt DEF ReceivablesInv, TypeOK
  <2>3. pay'[t][p] = [pay[t][p] EXCEPT !.allocated = AllocatedBy(commands, p)]
    BY <1>1, <2>1
  <2>4. pay'[t][p] \in Payment /\ pay'[t][p].allocated = AllocatedBy(commands, p)
    BY <2>1, <2>2, <2>3 DEF Payment
  <2> QED
    BY <2>1, <2>4, ReceivablesAssumption DEF HeldPayments
<1>4. HeldInvoices(t)' = HeldInvoices(t) /\ HeldPayments(t)' = HeldPayments(t)
  <2>1. HeldPayments(t)' \subseteq HeldPayments(t)
    BY <1>1 DEF HeldPayments
  <2> QED
    BY <1>1, <1>3, <2>1 DEF HeldInvoices
<1>5. Reckoned(t)'
  <2>1. Summed(t) /\ Summed(t)' /\ (Serves(t, "rebuild", {"commit"}))' /\ req[t].kind # "invoice"
    BY <1>1 DEF Summed, Serves
  <2> QED
    BY <1>1, <1>2, <1>3, <1>4, <2>1 DEF Reckoned, Stored
<1>6. Covers(t)'
  BY <1>1, <1>2, <1>4 DEF Covers, RightInvoice, RightPayment, Stored
<1> QED
  BY <1>1, <1>5, <1>6 DEF SumsLocal, AddsCommand, Serves, Nothing

LEMMA AllocateSums ==
    ASSUME ReceivablesInv, SumsInv, NEW t \in Txns, Allocate(t)
    PROVE  SumsLocal(t)'
<1>0. CASE Refuse(t)
  BY <1>0, RefuseSums
<1>1. CASE ~Refuse(t)
  <2>0. PICK c : c = CommandOf(t)
    OBVIOUS
  <2>1. /\ pc[t] = "invoices" /\ todo[t] = {} /\ UNCHANGED Stored /\ req' = req
        /\ req[t].kind = "allocate" \/ Inline(t)
        /\ inv' = [inv EXCEPT ![t] = [i \in InvoiceIds |->
                     IF i \in DOMAIN c.batch THEN Settle(@[i], c.batch[i]) ELSE @[i]]]
        /\ pay' = [pay EXCEPT ![t][c.payment].allocated = @ + SumFunction(c.batch)]
        /\ news' = [news EXCEPT ![t].commands = {c}]
        /\ Goto(t, "commit")
    BY <1>1, <2>0 DEF Allocate, MayAllocate, CarryOut, HasRows
  <2>2. /\ pc'[t] = "commit" /\ req'[t] = req[t] /\ news'[t].commands = {c}
        /\ inv'[t] = [i \in InvoiceIds |->
                        IF i \in DOMAIN c.batch THEN Settle(inv[t][i], c.batch[i]) ELSE inv[t][i]]
        /\ pay'[t] = [pay[t] EXCEPT ![c.payment].allocated = @ + SumFunction(c.batch)]
    BY <2>1 DEF Goto, ReceivablesInv, TypeOK
  <2>3. /\ req[t].batch \in Batches /\ c.batch = req[t].batch /\ c \in Command
        /\ HeldPayments(t) = {c.payment} /\ c.payment \in PaymentIds
    BY <2>0, <2>1, CommandThere
  <2>4. /\ req[t].kind \in {"allocate", "payment"} /\ t \in Running
        /\ req[t].kind = "payment" => Inline(t)
        /\ HeldInvoices(t) = DOMAIN c.batch /\ news[t].commands = {}
    BY <2>1, <2>3 DEF Inline, Running, ReceivablesInv, Holds, Serves
  <2>5. /\ DOMAIN c.batch \subseteq InvoiceIds /\ SumFunction(c.batch) \in Int
        /\ \A i \in DOMAIN c.batch : c.batch[i] \in Int
    BY <2>3, BatchSum
  <2>6. ASSUME NEW i \in DOMAIN c.batch
        PROVE  inv'[t][i] \in Invoice /\ inv'[t][i].settled = inv[t][i].settled + c.batch[i]
    <3>1. inv[t][i] \in Invoice /\ i \in InvoiceIds
      BY <2>4, <2>5 DEF HeldInvoices, ReceivablesInv, TypeOK
    <3>2. inv'[t][i] = Settle(inv[t][i], c.batch[i])
      BY <2>2, <3>1
    <3> QED
      BY <2>5, <3>1, <3>2, SettleKeepsRow
  <2>7. HeldInvoices(t)' = DOMAIN c.batch
    <3>1. \A i \in InvoiceIds \ DOMAIN c.batch : inv'[t][i] = NoRow
      BY <2>2, <2>4 DEF HeldInvoices
    <3>2. \A i \in DOMAIN c.batch : inv'[t][i] # NoRow
      BY <2>6, ReceivablesAssumption
    <3> QED
      BY <2>5, <3>1, <3>2 DEF HeldInvoices
  <2>8. /\ HeldPayments(t)' = {c.payment}
        /\ pay'[t][c.payment].allocated = pay[t][c.payment].allocated + SumFunction(c.batch)
    <3>1. pay[t] \in [PaymentIds -> Payment \cup {NoRow}] /\ pay[t][c.payment] \in Payment
      BY <2>3 DEF HeldPayments, ReceivablesInv, TypeOK
    <3> DEFINE row == [pay[t][c.payment] EXCEPT !.allocated = @ + SumFunction(c.batch)]
    <3>2. row \in Payment /\ row.allocated = pay[t][c.payment].allocated + SumFunction(c.batch)
      BY <2>5, <3>1 DEF Payment
    <3>3. pay'[t] = [pay[t] EXCEPT ![c.payment] = row]
      BY <2>2
    <3> HIDE DEF row
    <3> QED
      BY <2>3, <3>1, <3>2, <3>3, ReceivablesAssumption DEF HeldPayments
  <2>9. CommandOf(t)' = c /\ SameRef(c)' = SameRef(c)
    <3>1. (CHOOSE q \in PaymentIds : pay'[t][q] # NoRow) = c.payment
      BY <2>3, <2>8 DEF HeldPayments
    <3>2. (CHOOSE q \in PaymentIds : pay[t][q] # NoRow) = c.payment
      BY <2>3 DEF HeldPayments
    <3> QED
      BY <2>0, <2>1, <2>2, <3>1, <3>2 DEF CommandOf, Inline, SameRef, Stored
  <2>10. SameRef(c) = {}
    <3>1. CASE req[t].kind = "allocate"
      BY <2>0, <2>1, <3>1 DEF SumsInv, AddsCommand, Serves
    <3>2. CASE req[t].kind = "payment"
      <4>1. payment[c.payment] = NoRow
        BY <2>3, <3>2 DEF ReceivablesInv, Based, OfPayment
      <4> QED
        BY <4>1 DEF SumsInv, NamesExist, SameRef
    <3> QED
      BY <2>4, <3>1, <3>2
  <2>11. AddsCommand(t)'
    <3>1. Inline(t)' = Inline(t)
      BY <2>1 DEF Inline
    <3>2. SameRef(CommandOf(t))' = {}
      BY <2>1, <2>9, <2>10 DEF SameRef, Stored
    <3> QED
      BY <2>2, <2>3, <2>4, <2>7, <2>9, <3>1, <3>2 DEF AddsCommand, Serves
  <2>12. Reckoned(t)'
    <3>1. Reckoned(t) /\ ~Summed(t) /\ ~Summed(t)'
      BY <2>2, <2>4 DEF SumsInv, Summed, Serves
    <3>2. ASSUME NEW i \in DOMAIN c.batch
          PROVE  inv'[t][i].settled = invoice[i].settled + c.batch[i]
      <4>1. inv[t][i].settled = invoice[i].settled + 0
        BY <2>4, <3>1 DEF Reckoned
      <4>2. i \in InvoiceIds /\ invoice[i] # NoRow
        BY <2>4, <2>5 DEF ReceivablesInv, Based, OfInvoice
      <4>3. invoice[i].settled \in Int
        BY <4>2 DEF ReceivablesInv, TypeOK, Invoice
      <4> QED
        BY <2>6, <4>1, <4>3
    <3>3. pay[t][c.payment].allocated =
            IF req[t].kind = "payment" THEN 0 ELSE payment[c.payment].allocated
      <4>1. pay[t][c.payment].allocated =
              (IF req[t].kind = "payment" THEN 0 ELSE payment[c.payment].allocated) + 0
        BY <2>3, <2>4, <3>1 DEF Reckoned, Serves
      <4>2. req[t].kind # "payment" => payment[c.payment] # NoRow
        BY <2>3 DEF ReceivablesInv, Based, OfPayment
      <4>3. req[t].kind # "payment" => payment[c.payment].allocated \in Int
        BY <2>3, <4>2 DEF ReceivablesInv, TypeOK, Payment
      <4> QED
        BY <4>1, <4>3
    <3>4. ~(Serves(t, "rebuild", {"commit"}))' /\ news'[t].commands # {}
      BY <2>2, <2>4 DEF Serves
    <3>5. \A i \in HeldInvoices(t)' :
            inv'[t][i].settled = invoice'[i].settled + req'[t].batch[i]
      BY <2>1, <2>2, <2>3, <2>7, <3>2 DEF Stored
    <3>6. \A p \in HeldPayments(t)' :
            pay'[t][p].allocated = (IF req'[t].kind = "payment" THEN 0 ELSE payment'[p].allocated)
                                   + SumFunction(req'[t].batch)
      BY <2>1, <2>2, <2>3, <2>8, <3>3 DEF Stored
    <3> QED
      BY <2>2, <2>4, <3>1, <3>4, <3>5, <3>6 DEF Reckoned
  <2> QED
    BY <2>2, <2>4, <2>11, <2>12 DEF SumsLocal, Covers
<1> QED
  BY <1>0, <1>1

LEMMA StepSums ==
    ASSUME ReceivablesInv, SumsInv, NEW t \in Txns,
           BeginRequest(t) \/ Advance(t) \/ Rollback(t), ~Commit(t)
    PROVE  SumsLocal(t)'
<1>1. CASE RefuseInsert(t) \/ RefuseMissing(t) \/ BreaksCheck(t) \/ Rollback(t)
  BY <1>1, RefuseSums DEF RefuseInsert, RefuseMissing, BreaksCheck, Rollback
<1>2. CASE BeginRequest(t)
  BY <1>2, BeginSums
<1>3. CASE (\E i \in InvoiceIds : VoidInvoice(t, i)) \/ \E p \in PaymentIds : VoidPayment(t, p)
  BY <1>3, VoidSums
<1>4. CASE LockDocNo(t) \/ (\E i \in InvoiceIds : InsertInvoice(t, i))
                        \/ \E p \in PaymentIds : InsertPayment(t, p)
  BY <1>4, InsertSums
<1>5. CASE Post(t) \/ LockPayment(t) \/ LockInvoice(t) \/ CheckPayment(t) \/ Allocate(t)
  BY <1>5, PostSums, LockPaymentSums, LockInvoiceSums, CheckPaymentSums, AllocateSums
<1>6. CASE SelectInvoices(t) \/ SumInvoices(t) \/ SumPayments(t)
  BY <1>6, SelectInvoicesSums, SumInvoicesSums, SumPaymentsSums
<1> QED
  BY <1>1, <1>2, <1>3, <1>4, <1>5, <1>6 DEF Advance

\* A step that commits nothing ends no transaction well.
LEMMA NotCommitted ==
    ASSUME ReceivablesInv, NEW t \in Txns,
           BeginRequest(t) \/ Advance(t) \/ Rollback(t), ~Commit(t)
    PROVE  pc'[t] # "committed"
<1>0. TypeOK
  BY DEF ReceivablesInv
<1>1. ASSUME NEW where, where # "committed", Goto(t, where) PROVE pc'[t] # "committed"
  BY <1>0, <1>1 DEF TypeOK, Goto
<1>2. ASSUME Refuse(t) PROVE pc'[t] # "committed"
  BY <1>1, <1>2 DEF Refuse, End
<1>3. CASE BeginRequest(t)
  BY <1>1, <1>3 DEF BeginRequest, BeginInvoice, BeginVoidInvoice, BeginPayment,
     BeginVoidPayment, BeginAllocate, BeginRebuild, Start
<1>4. CASE RefuseInsert(t) \/ RefuseMissing(t) \/ BreaksCheck(t) \/ Rollback(t)
  BY <1>2, <1>4 DEF RefuseInsert, RefuseMissing, BreaksCheck, Rollback
<1>5. CASE LockPayment(t) \/ LockInvoice(t)
  BY <1>5 DEF LockPayment, LockInvoice, MayRun
<1>6. CASE LockDocNo(t) \/ SelectInvoices(t) \/ SumInvoices(t) \/ SumPayments(t)
  BY <1>1, <1>6 DEF LockDocNo, SelectInvoices, SumInvoices, SumPayments
<1>7. CASE Post(t)
  BY <1>1, <1>7 DEF Post
<1>8. CASE CheckPayment(t)
  BY <1>1, <1>2, <1>8 DEF CheckPayment
<1>9. CASE Allocate(t)
  BY <1>1, <1>2, <1>9 DEF Allocate, CarryOut
<1>10. CASE \E i \in InvoiceIds : InsertInvoice(t, i) \/ VoidInvoice(t, i)
  BY <1>1, <1>2, <1>10 DEF InsertInvoice, VoidInvoice
<1>11. CASE \E p \in PaymentIds : InsertPayment(t, p) \/ VoidPayment(t, p)
  BY <1>1, <1>2, <1>11 DEF InsertPayment, VoidPayment
<1> QED
  BY <1>3, <1>4, <1>5, <1>6, <1>7, <1>8, <1>9, <1>10, <1>11 DEF Advance

LEMMA SumsKeep ==
    ASSUME ReceivablesInv, SumsInv, [Next]_vars
    PROVE  SumsInv' /\ (Balanced => Balanced')
<1>1. ASSUME UNCHANGED Stored, \A u \in Txns : SumsLocal(u)',
             \A u \in Txns : pc'[u] = "committed" => pc[u] = "committed" /\ req'[u] = req[u]
      PROVE  SumsInv' /\ (Balanced => Balanced')
  <2>1. NamesExist' /\ (Balanced => Balanced')
    BY <1>1 DEF SumsInv, NamesExist, Balanced, Stored
  <2>2. RebuildRepairs'
    BY <1>1, <2>1 DEF SumsInv, RebuildRepairs
  <2> QED
    BY <1>1, <2>1, <2>2 DEF SumsInv, SumsLocal
<1>2. ASSUME NEW t \in Txns, BeginRequest(t) \/ Advance(t) \/ Rollback(t)
      PROVE  SumsInv' /\ (Balanced => Balanced')
  <2>1. CASE Commit(t)
    <3>1. ASSUME Balanced PROVE Balanced'
      <4>1. (\A i \in InvoiceIds : RightInvoice(i)') /\ (\A p \in PaymentIds : RightPayment(p)')
        BY <2>1, <3>1, BalancedRows, CommitInvoice, CommitPayment
      <4> QED
        BY <4>1 DEF Balanced, RightInvoice, RightPayment
    <3> QED
      BY <2>1, <3>1, CommitSums
  <2>2. CASE ~Commit(t)
    <3>1. Quiet(t)
      BY <1>2, <2>2, OnlyCommitStores DEF ReceivablesInv
    <3>2. \A u \in Txns \ {t} : Same(u) /\ SumsLocal(u)'
      BY <3>1, SumsStay DEF Quiet, SumsInv, SumsLocal
    <3>3. SumsLocal(t)' /\ pc'[t] # "committed"
      BY <1>2, <2>2, StepSums, NotCommitted
    <3> QED
      BY <1>1, <3>1, <3>2, <3>3 DEF Quiet, Same
  <2> QED
    BY <2>1, <2>2
<1>3. CASE UNCHANGED vars
  <2>1. UNCHANGED Stored /\ \A u \in Txns : Same(u)
    BY <1>3 DEF vars, Stored, Same
  <2>2. \A u \in Txns : SumsLocal(u)'
    BY <2>1, SumsStay DEF SumsInv, SumsLocal
  <2> QED
    BY <1>1, <2>1, <2>2 DEF Same
<1> QED
  BY <1>2, <1>3 DEF Next, Finished

\* What each transaction will leave in the maintained columns is right.
THEOREM SumsKept == Spec => []SumsInv
<1>1. ReceivablesInv /\ SumsInv /\ [Next]_vars => SumsInv'
  BY SumsKeep
<1> QED
  BY InitSumsInv, HoldsAlways, <1>1, PTL DEF Spec

\* RebuildRepairs: once a rebuild has committed, the maintained columns of every
\* invoice and payment are the sums of their allocations, and stay so.
THEOREM RebuildsRepair == Spec => []RebuildRepairs
<1>1. SumsInv => RebuildRepairs
  BY DEF SumsInv
<1> QED
  BY SumsKept, <1>1, PTL

\* BalancesMatch: columns that start right stay right, whatever allocations,
\* voids and rebuilds run at once.
THEOREM ColumnsStayRight == Spec /\ Balanced => []BalancesMatch
<1>1. ReceivablesInv /\ SumsInv /\ Balanced /\ [Next]_vars => Balanced'
  BY SumsKeep
<1>2. Spec /\ Balanced => []Balanced
  BY HoldsAlways, SumsKept, <1>1, PTL DEF Spec
<1> QED
  BY <1>2, PTL DEF BalancesMatch

-------------------------------------------------------------------------------
(***************************************************************************)
(* FitInv is inductive.                                                    *)
(***************************************************************************)

LEMMA InitFitInv == Init => FitInv
<1> SUFFICES ASSUME Init PROVE FitInv
  OBVIOUS
<1>1. \A i \in InvoiceIds : Billed(i)
  BY ReceivablesAssumption DEF Init, Billed
<1>2. \A t \in Txns : Matched(t) /\ Carries(t)
  BY DEF Init, Matched, Carries, Serves, Nothing
<1> QED
  BY <1>1, <1>2 DEF FitInv

LEMMA MatchedStays ==
    ASSUME NEW u \in Txns, Same(u), Matched(u)
    PROVE  Matched(u)'
<1>1. /\ HeldInvoices(u)' = HeldInvoices(u) /\ HeldPayments(u)' = HeldPayments(u)
      /\ \A kind, places : Serves(u, kind, places)' = Serves(u, kind, places)
  BY DEF Same, HeldInvoices, HeldPayments, Serves
<1> QED
  BY <1>1 DEF Same, Matched

LEMMA AllocateMatched ==
    ASSUME ReceivablesInv, NEW t \in Txns, Allocate(t), ~Refuse(t), Matched(t)
    PROVE  Matched(t)'
<1>0. PICK c : c = CommandOf(t)
  OBVIOUS
<1>1. /\ pc[t] = "invoices" /\ todo[t] = {} /\ req' = req
      /\ \/ req[t].kind = "allocate"
         \/ Inline(t) /\ req[t].kind = "payment"
      /\ inv' = [inv EXCEPT ![t] = [i \in InvoiceIds |->
                   IF i \in DOMAIN c.batch THEN Settle(@[i], c.batch[i]) ELSE @[i]]]
      /\ pay' = [pay EXCEPT ![t][c.payment].allocated = @ + SumFunction(c.batch)]
      /\ FitsLocked(t, c)
  BY <1>0 DEF Allocate, MayAllocate, CarryOut, HasRows
<1>2. /\ inv'[t] = [i \in InvoiceIds |->
                      IF i \in DOMAIN c.batch THEN Settle(inv[t][i], c.batch[i]) ELSE inv[t][i]]
      /\ pay'[t] = [pay[t] EXCEPT ![c.payment].allocated = @ + SumFunction(c.batch)]
  <2>1. /\ inv \in [Txns -> [InvoiceIds -> Invoice \cup {NoRow}]]
        /\ pay \in [Txns -> [PaymentIds -> Payment \cup {NoRow}]]
    BY DEF ReceivablesInv, TypeOK
  <2>2. inv' = [inv EXCEPT ![t] = [i \in InvoiceIds |->
                   IF i \in DOMAIN c.batch THEN Settle(@[i], c.batch[i]) ELSE @[i]]]
    BY <1>1
  <2>3. pay' = [pay EXCEPT ![t][c.payment].allocated = @ + SumFunction(c.batch)]
    BY <1>1
  <2>4. inv'[t] = [i \in InvoiceIds |->
                      IF i \in DOMAIN c.batch THEN Settle(inv[t][i], c.batch[i]) ELSE inv[t][i]]
    BY <2>1, <2>2
  <2>5. pay'[t] = [pay[t] EXCEPT ![c.payment].allocated = @ + SumFunction(c.batch)]
    BY <2>1, <2>3
  <2> QED
    BY <2>4, <2>5
<1>3. /\ req[t].batch \in Batches /\ c.batch = req[t].batch /\ c \in Command
      /\ HeldPayments(t) = {c.payment} /\ c.payment \in PaymentIds
  BY <1>0, <1>1, CommandThere
<1>4. HeldInvoices(t) = DOMAIN c.batch
  BY <1>1, <1>3 DEF Inline, ReceivablesInv, Holds, Serves
<1>5. /\ DOMAIN c.batch \subseteq InvoiceIds /\ SumFunction(c.batch) \in Int
      /\ \A i \in DOMAIN c.batch : c.batch[i] \in Int
  BY <1>3, BatchSum
<1>6. \A p \in HeldPayments(t)' :
        pay'[t][p].status = pay[t][p].status /\ pay'[t][p].customer = pay[t][p].customer
        /\ p = c.payment
  <2>1. pay[t] \in [PaymentIds -> Payment \cup {NoRow}] /\ pay[t][c.payment] \in Payment
    BY <1>3 DEF HeldPayments, ReceivablesInv, TypeOK
  <2> DEFINE row == [pay[t][c.payment] EXCEPT !.allocated = @ + SumFunction(c.batch)]
  <2>2. row.status = pay[t][c.payment].status /\ row.customer = pay[t][c.payment].customer
    BY <1>5, <2>1 DEF Payment
  <2>3. pay'[t] = [pay[t] EXCEPT ![c.payment] = row]
    BY <1>2
  <2> HIDE DEF row
  <2> QED
    BY <1>3, <2>1, <2>2, <2>3 DEF HeldPayments
<1>7. ASSUME NEW i \in HeldInvoices(t)'
      PROVE  /\ inv'[t][i].status # "VOIDED"
             /\ CustomerOf[inv'[t][i].order] = pay[t][c.payment].customer
  <2>1. i \in DOMAIN c.batch
    BY <1>2, <1>4, <1>7 DEF HeldInvoices
  <2>2. inv[t][i] \in Invoice /\ inv'[t][i] = Settle(inv[t][i], c.batch[i])
    BY <1>2, <1>4, <1>5, <2>1 DEF HeldInvoices, ReceivablesInv, TypeOK
  <2>3. inv'[t][i].status # "VOIDED" /\ inv'[t][i].order = inv[t][i].order
    BY <1>5, <2>1, <2>2, SettleKeepsRow
  <2>4. CustomerOf[inv[t][i].order] = pay[t][c.payment].customer
    BY <1>1, <2>1 DEF FitsLocked
  <2> QED
    BY <2>3, <2>4
<1>8. Serves(t, "allocate", {"invoices", "commit"})' =>
         \A p \in HeldPayments(t)' : pay'[t][p].status # "VOIDED"
  BY <1>1, <1>3, <1>6 DEF Matched, Serves
<1> QED
  BY <1>6, <1>7, <1>8 DEF Matched

LEMMA MatchedKeeps ==
    ASSUME ReceivablesInv, SumsInv, NEW t \in Txns, Matched(t),
           BeginRequest(t) \/ Advance(t) \/ Rollback(t)
    PROVE  Matched(t)'
<1>0. TypeOK /\ Holds(t) /\ AddsCommand(t)
  BY DEF ReceivablesInv, SumsInv
<1>1. ASSUME news'[t].commands = {},
             req'[t].kind # "allocate" \/ pc'[t] \notin {"invoices", "commit"}
      PROVE  Matched(t)'
  BY <1>1 DEF Matched, Serves
<1>2. ASSUME news'[t].commands = {}, req'[t] = req[t], pay'[t] = pay[t], req[t].kind = "allocate",
             pc[t] \in {"invoices", "commit"} \/ \A p \in HeldPayments(t) : pay[t][p].status # "VOIDED"
      PROVE  Matched(t)'
  <2>1. HeldPayments(t)' = HeldPayments(t)
    BY <1>2 DEF HeldPayments
  <2> QED
    BY <1>2, <2>1 DEF Matched, Serves
<1>3. CASE Refuse(t) \/ Commit(t)
  <2>1. pc'[t] \in {"refused", "committed"} /\ news'[t].commands = {}
    BY <1>0, <1>3 DEF Refuse, Commit, End, Goto, TypeOK, Nothing
  <2> QED
    BY <1>1, <2>1
<1>4. CASE BeginRequest(t)
  <2>0. news[t] = Nothing
    BY <1>0, <1>4 DEF BeginRequest, BeginInvoice, BeginVoidInvoice, BeginPayment,
       BeginVoidPayment, BeginAllocate, BeginRebuild, Idle, Holds
  <2>1. ASSUME NEW r, NEW where, NEW rows, Start(t, r, where, rows),
               r.kind # "allocate" \/ where = "payments"
        PROVE  Matched(t)'
    BY <1>0, <1>1, <2>0, <2>1 DEF Start, Goto, TypeOK, Nothing
  <2>2. ASSUME NEW o, BeginInvoice(t, o) PROVE Matched(t)'
    BY <2>1, <2>2 DEF BeginInvoice, Request
  <2>3. ASSUME NEW i, BeginVoidInvoice(t, i) PROVE Matched(t)'
    BY <2>1, <2>3 DEF BeginVoidInvoice, Request
  <2>4. ASSUME NEW c, NEW b, BeginPayment(t, c, b) PROVE Matched(t)'
    BY <2>1, <2>4 DEF BeginPayment, Request
  <2>5. ASSUME NEW p, BeginVoidPayment(t, p) PROVE Matched(t)'
    BY <2>1, <2>5 DEF BeginVoidPayment
  <2>6. ASSUME NEW p, NEW x, NEW b, BeginAllocate(t, p, x, b) PROVE Matched(t)'
    BY <2>1, <2>6 DEF BeginAllocate
  <2>7. ASSUME BeginRebuild(t) PROVE Matched(t)'
    BY <2>1, <2>7 DEF BeginRebuild
  <2> QED
    BY <1>4, <2>2, <2>3, <2>4, <2>5, <2>6, <2>7 DEF BeginRequest
<1>5. CASE LockDocNo(t) \/ (\E i \in InvoiceIds : InsertInvoice(t, i))
                        \/ (\E p \in PaymentIds : InsertPayment(t, p))
                        \/ LockPayment(t)
  BY <1>0, <1>1, <1>5 DEF LockDocNo, InsertInvoice, InsertPayment, LockPayment, MayRun, Goto,
     Holds, TypeOK, Nothing
<1>6. CASE (\E i \in InvoiceIds : VoidInvoice(t, i)) \/ \E p \in PaymentIds : VoidPayment(t, p)
  <2>1. ASSUME NEW i \in InvoiceIds, VoidInvoice(t, i), ~Refuse(t) PROVE Matched(t)'
    BY <1>0, <1>1, <2>1 DEF VoidInvoice, HasRows, Goto, Holds, TypeOK, Nothing
  <2>2. ASSUME NEW p \in PaymentIds, VoidPayment(t, p), ~Refuse(t) PROVE Matched(t)'
    BY <1>0, <1>1, <2>2 DEF VoidPayment, HasRows, Goto, Holds, TypeOK, Nothing
  <2> QED
    BY <1>3, <1>6, <2>1, <2>2
<1>7. CASE Post(t)
  <2>1. pc[t] = "post" /\ req'[t] = req[t] /\ news'[t].commands = {}
    BY <1>0, <1>7 DEF Post, MayRun, Holds, TypeOK, Nothing
  <2> QED
    BY <1>1, <2>1, KindsThere
<1>8. CASE LockInvoice(t)
  <2>1. /\ pc[t] = "invoices" /\ req'[t] = req[t] /\ pay'[t] = pay[t] /\ news'[t] = news[t]
        /\ news[t].commands = {}
    BY <1>0, <1>8 DEF LockInvoice, MayRun, Holds
  <2> QED
    BY <1>1, <1>2, <2>1
<1>9. CASE CheckPayment(t) /\ ~Refuse(t)
  <2>1. /\ req[t].kind = "allocate" /\ req'[t] = req[t] /\ pay'[t] = pay[t] /\ news'[t] = news[t]
        /\ news[t] = Nothing /\ pay[t][CommandOf(t).payment].status # "VOIDED"
        /\ pc[t] = "payments" /\ todo[t] = {}
    BY <1>0, <1>9 DEF CheckPayment, HasRows, Holds
  <2>2. HeldPayments(t) = {CommandOf(t).payment}
    BY <2>1, CommandThere
  <2> QED
    BY <1>2, <2>1, <2>2 DEF Nothing
<1>10. CASE SelectInvoices(t) \/ SumInvoices(t) \/ SumPayments(t)
  <2>1. req[t].kind = "rebuild" /\ req'[t] = req[t] /\ news'[t] = news[t] /\ news[t] = Nothing
    BY <1>0, <1>10, KindsThere DEF SelectInvoices, SumInvoices, SumPayments, HasRows, Holds
  <2> QED
    BY <1>1, <2>1 DEF Nothing
<1>11. CASE Allocate(t) /\ ~Refuse(t)
  BY <1>11, AllocateMatched
<1>12. CASE RefuseInsert(t) \/ RefuseMissing(t) \/ BreaksCheck(t) \/ Rollback(t)
  BY <1>3, <1>12 DEF RefuseInsert, RefuseMissing, BreaksCheck, Rollback
<1> QED
  BY <1>3, <1>4, <1>5, <1>6, <1>7, <1>8, <1>9, <1>10, <1>11, <1>12 DEF Advance

LEMMA CarriesStays ==
    ASSUME NEW u \in Txns, Same(u), Carries(u)
    PROVE  Carries(u)'
BY DEF Same, Carries, Serves, Inline

\* Of the steps of a payment with allocations, that of Allocate alone leads to
\* its commit.
LEMMA CarriesKeeps ==
    ASSUME ReceivablesInv, NEW t \in Txns, Carries(t),
           BeginRequest(t) \/ Advance(t) \/ Rollback(t)
    PROVE  Carries(t)'
<1>0. TypeOK
  BY DEF ReceivablesInv
<1>1. ASSUME pc'[t] # "commit" \/ (req'[t] = req[t] /\ req[t].kind # "payment")
      PROVE  Carries(t)'
  BY <1>1 DEF Carries, Serves, Inline
<1>2. CASE Refuse(t) \/ Commit(t)
  BY <1>0, <1>1, <1>2 DEF Refuse, Commit, End, Goto, TypeOK
<1>3. CASE BeginRequest(t)
  <2>1. ASSUME NEW r, NEW where, NEW rows, Start(t, r, where, rows), where # "commit"
        PROVE  Carries(t)'
    BY <1>0, <1>1, <2>1 DEF Start, Goto, TypeOK
  <2> QED
    BY <1>3, <2>1 DEF BeginRequest, BeginInvoice, BeginVoidInvoice, BeginPayment,
       BeginVoidPayment, BeginAllocate, BeginRebuild
<1>4. CASE LockDocNo(t) \/ (\E i \in InvoiceIds : InsertInvoice(t, i))
                        \/ (\E p \in PaymentIds : InsertPayment(t, p))
                        \/ LockPayment(t) \/ LockInvoice(t) \/ SelectInvoices(t)
                        \/ SumInvoices(t)
  BY <1>0, <1>1, <1>4 DEF LockDocNo, InsertInvoice, InsertPayment, LockPayment, LockInvoice,
     SelectInvoices, SumInvoices, HasRows, MayRun, Goto, TypeOK
<1>5. CASE (\E i \in InvoiceIds : VoidInvoice(t, i)) \/ \E p \in PaymentIds : VoidPayment(t, p)
  BY <1>0, <1>1, <1>2, <1>5 DEF VoidInvoice, VoidPayment, Goto, TypeOK
<1>6. CASE Post(t)
  <2>1. req'[t] = req[t] /\ (Inline(t) => pc'[t] = "invoices")
    BY <1>0, <1>6 DEF Post, Goto, TypeOK
  <2> QED
    BY <2>1 DEF Carries, Serves, Inline
<1>7. CASE CheckPayment(t) \/ SumPayments(t)
  BY <1>0, <1>1, <1>2, <1>7, KindsThere DEF CheckPayment, SumPayments, HasRows
<1>8. CASE Allocate(t) /\ ~Refuse(t)
  <2>1. PICK c : c = CommandOf(t)
    OBVIOUS
  <2>2. news' = [news EXCEPT ![t].commands = {c}]
    BY <1>8, <2>1 DEF Allocate, CarryOut
  <2>3. news'[t].commands = {c}
    BY <1>0, <2>2 DEF TypeOK
  <2> QED
    BY <2>3 DEF Carries
<1>9. CASE RefuseInsert(t) \/ RefuseMissing(t) \/ BreaksCheck(t) \/ Rollback(t)
  BY <1>2, <1>9 DEF RefuseInsert, RefuseMissing, BreaksCheck, Rollback
<1> QED
  BY <1>2, <1>3, <1>4, <1>5, <1>6, <1>7, <1>8, <1>9 DEF Advance

LEMMA CommitBilled ==
    ASSUME ReceivablesInv, NEW t \in Txns, Commit(t), NEW i \in InvoiceIds, Billed(i)
    PROVE  Billed(i)'
<1>1. CASE i \notin HeldInvoices(t)
  <2>1. invoice'[i] = invoice[i]
    BY <1>1, CommitTables
  <2> QED
    BY <2>1 DEF Billed
<1>2. CASE i \in HeldInvoices(t)
  <2>1. invoice'[i] = inv[t][i] /\ OfInvoice(t, inv[t][i], invoice[i])
    BY <1>2, CommitTables DEF ReceivablesInv, Based
  <2> QED
    BY <2>1 DEF Billed, OfInvoice
<1> QED
  BY <1>1, <1>2

LEMMA FitKeeps ==
    ASSUME ReceivablesInv, SumsInv, FitInv, [Next]_vars
    PROVE  FitInv'
<1>1. ASSUME NEW t \in Txns, BeginRequest(t) \/ Advance(t) \/ Rollback(t) PROVE FitInv'
  <2>1. \A u \in Txns \ {t} : Same(u)
    BY <1>1, OnlyCommitStores, CommitTables DEF ReceivablesInv, Quiet
  <2>2. \A u \in Txns : Matched(u)' /\ Carries(u)'
    BY <1>1, <2>1, MatchedStays, MatchedKeeps, CarriesStays, CarriesKeeps DEF FitInv
  <2>3. \A i \in InvoiceIds : Billed(i)'
    <3>1. CASE Commit(t)
      BY <3>1, CommitBilled DEF FitInv
    <3>2. CASE ~Commit(t)
      <4>1. invoice' = invoice
        BY <1>1, <3>2, OnlyCommitStores DEF ReceivablesInv, Quiet, Stored
      <4> QED
        BY <4>1 DEF FitInv, Billed
    <3> QED
      BY <3>1, <3>2
  <2> QED
    BY <2>2, <2>3 DEF FitInv
<1>2. CASE UNCHANGED vars
  <2>1. \A u \in Txns : Same(u)
    BY <1>2 DEF vars, Same
  <2>2. \A u \in Txns : Matched(u)' /\ Carries(u)'
    BY <2>1, MatchedStays, CarriesStays DEF FitInv
  <2>3. \A i \in InvoiceIds : Billed(i)'
    BY <1>2 DEF FitInv, Billed, vars, Stored
  <2> QED
    BY <2>2, <2>3 DEF FitInv
<1> QED
  BY <1>1, <1>2 DEF Next, Finished

\* What an allocation has seen under its locks is so until it commits.
THEOREM FitKept == Spec => []FitInv
<1>1. ReceivablesInv /\ SumsInv /\ FitInv /\ [Next]_vars => FitInv'
  BY FitKeeps
<1> QED
  BY InitFitInv, HoldsAlways, SumsKept, <1>1, PTL DEF Spec

-------------------------------------------------------------------------------
(***************************************************************************)
(* The transactions implement the abstract subledger: the commit of an     *)
(* invoice, payment, void or allocation is its step, and nothing else is   *)
(* seen there.                                                             *)
(***************************************************************************)

\* What the tables are in the book.
Bills == [i \in InvoiceIds |-> IF invoice[i] = NoRow THEN NoRow ELSE invoice[i].order]

Receipts == [p \in PaymentIds |-> IF payment[p] = NoRow THEN NoRow ELSE ReceiptOf(payment[p])]

Voids == {<<"invoice", i>> : i \in {j \in InvoiceIds :
                          invoice[j] # NoRow /\ invoice[j].status = "VOIDED"}}
         \cup {<<"payment", p>> : p \in {q \in PaymentIds :
                          payment[q] # NoRow /\ payment[q].status = "VOIDED"}}

Answered == {<<req[t].receipt.ref, req[t].batch>> :
                t \in {u \in Txns : pc[u] = "committed" /\ Inline(u)}}

LEMMA VoidsOf ==
    /\ \A i \in InvoiceIds :
          <<"invoice", i>> \in Voids <=> invoice[i] # NoRow /\ invoice[i].status = "VOIDED"
    /\ \A p \in PaymentIds :
          <<"payment", p>> \in Voids <=> payment[p] # NoRow /\ payment[p].status = "VOIDED"
BY DEF Voids

LEMMA LiveThere ==
    \A i \in InvoiceIds : invoice[i] \in Invoice \cup {NoRow} => (Book!Live(i) <=> Standing(invoice[i]))
<1>1. ASSUME NEW i \in InvoiceIds, invoice[i] \in Invoice \cup {NoRow}
      PROVE  Book!Live(i) <=> Standing(invoice[i])
  <2>1. Book!Live(i) <=> Bills[i] # NoRow /\ <<"invoice", i>> \notin Voids
    BY DEF Book!Live, Book!InvoiceKey, Bills, Voids
  <2>2. Bills[i] # NoRow <=> invoice[i] # NoRow
    BY <1>1, SubledgerAssumption DEF Bills, Invoice
  <2> QED
    BY <2>1, <2>2, VoidsOf DEF Standing
<1> QED
  BY <1>1

LEMMA OneChanged ==
    ASSUME NEW S, NEW f, NEW g, NEW x \in S, f = [y \in S |-> f[y]], g = [y \in S |-> g[y]],
           \A y \in S \ {x} : g[y] = f[y]
    PROVE  g = [f EXCEPT ![x] = g[x]]
OBVIOUS

LEMMA SameFunction ==
    ASSUME NEW S, NEW f, NEW g, f = [y \in S |-> f[y]], g = [y \in S |-> g[y]],
           \A y \in S : g[y] = f[y]
    PROVE  g = f
OBVIOUS

LEMMA TablesThere ==
    /\ Bills = [i \in InvoiceIds |-> Bills[i]] /\ Bills' = [i \in InvoiceIds |-> Bills'[i]]
    /\ Receipts = [p \in PaymentIds |-> Receipts[p]]
    /\ Receipts' = [p \in PaymentIds |-> Receipts'[p]]
BY DEF Bills, Receipts

LEMMA SameSum ==
    ASSUME NEW f
    PROVE  Book!SumFunction(f) = SumFunction(f)
BY DEF SumFunction, SumFunctionOnSet, FoldFunctionOnSet, MapThenFoldSet,
       Book!SumFunction, Book!SumFunctionOnSet, Book!FoldFunctionOnSet, Book!MapThenFoldSet

LEMMA SameSums ==
    /\ \A cs, i : Book!SettledBy(cs, i) = SettledBy(cs, i)
    /\ \A cs, p : Book!AllocatedBy(cs, p) = AllocatedBy(cs, p)
<1>1. ASSUME NEW cs, NEW i PROVE Book!SettledBy(cs, i) = SettledBy(cs, i)
  BY SameSum DEF Book!SettledBy, Book!LineFor, SettledBy, LineFor
<1>2. ASSUME NEW cs, NEW p PROVE Book!AllocatedBy(cs, p) = AllocatedBy(cs, p)
  BY SameSum DEF Book!AllocatedBy, AllocatedBy
<1> QED
  BY <1>1, <1>2

LEMMA BookIssue ==
    ASSUME ReceivablesInv, NEW i \in InvoiceIds, NEW o \in Orders,
           invoice[i] = NoRow, invoice'[i] # NoRow, invoice'[i].order = o,
           invoice'[i].status # "VOIDED",
           \A j \in InvoiceIds \ {i} : invoice'[j] = invoice[j],
           ~OrderTaken(o), UNCHANGED <<payment, commands>>, Answered' = Answered
    PROVE  Book!Next
<1>1. Bills[i] = NoRow /\ Bills' = [Bills EXCEPT ![i] = o]
  <2>1. Bills[i] = NoRow /\ Bills'[i] = o /\ \A j \in InvoiceIds \ {i} : Bills'[j] = Bills[j]
    BY DEF Bills
  <2> QED
    BY <2>1, TablesThere, OneChanged
<1>2. Receipts' = Receipts
  BY DEF Receipts
<1>3. Voids' = Voids
  <2>1. {j \in InvoiceIds : invoice'[j] # NoRow /\ invoice'[j].status = "VOIDED"}
        = {j \in InvoiceIds : invoice[j] # NoRow /\ invoice[j].status = "VOIDED"}
    OBVIOUS
  <2> QED
    BY <2>1 DEF Voids
<1>4. \A j \in InvoiceIds : Book!Live(j) => Bills[j] # o
  BY LiveThere DEF Bills, Standing, OrderTaken, LiveOn, ReceivablesInv, TypeOK
<1>5. Book!Issue(i, o)
  BY <1>1, <1>2, <1>3, <1>4 DEF Book!Issue, Bills, Receipts, Voids,
     Answered
<1> QED
  BY <1>5 DEF Book!Next

LEMMA TakenThere ==
    \A p \in PaymentIds : payment[p] \in Payment \cup {NoRow} =>
        (Receipts[p] # NoRow <=> payment[p] # NoRow)
BY SubledgerAssumption DEF Receipts, Payment, ReceiptOf

\* What the book sees of a row of each table stays.
InvoiceSeen(i) ==
    /\ invoice'[i] = NoRow <=> invoice[i] = NoRow
    /\ invoice[i] # NoRow => /\ invoice'[i].order = invoice[i].order
                             /\ invoice'[i].status = "VOIDED" <=> invoice[i].status = "VOIDED"

PaymentSeen(p) ==
    /\ payment'[p] = NoRow <=> payment[p] = NoRow
    /\ payment[p] # NoRow => /\ ReceiptOf(payment'[p]) = ReceiptOf(payment[p])
                             /\ payment'[p].status = "VOIDED" <=> payment[p].status = "VOIDED"

LEMMA BillsSeen ==
    ASSUME \A i \in InvoiceIds : InvoiceSeen(i)
    PROVE  Bills' = Bills
<1>1. \A i \in InvoiceIds : Bills'[i] = Bills[i]
  BY DEF Bills, InvoiceSeen
<1> QED
  BY <1>1, TablesThere, SameFunction

LEMMA ReceiptsSeen ==
    ASSUME \A p \in PaymentIds : PaymentSeen(p)
    PROVE  Receipts' = Receipts
<1>1. \A p \in PaymentIds : Receipts'[p] = Receipts[p]
  BY DEF Receipts, PaymentSeen
<1> QED
  BY <1>1, TablesThere, SameFunction

\* What is voided, by table.
LEMMA VoidsSeen ==
    ASSUME NEW A, NEW B, A \subseteq InvoiceIds, B \subseteq PaymentIds,
           \A i \in InvoiceIds \ A : InvoiceSeen(i),
           \A i \in A : invoice'[i] # NoRow /\ invoice'[i].status = "VOIDED",
           \A p \in PaymentIds \ B : PaymentSeen(p),
           \A p \in B : payment'[p] # NoRow /\ payment'[p].status = "VOIDED"
    PROVE  Voids' = Voids \cup {<<"invoice", i>> : i \in A} \cup {<<"payment", p>> : p \in B}
<1>1. {j \in InvoiceIds : invoice'[j] # NoRow /\ invoice'[j].status = "VOIDED"}
        = {j \in InvoiceIds : invoice[j] # NoRow /\ invoice[j].status = "VOIDED"} \cup A
  BY DEF InvoiceSeen
<1>2. {q \in PaymentIds : payment'[q] # NoRow /\ payment'[q].status = "VOIDED"}
        = {q \in PaymentIds : payment[q] # NoRow /\ payment[q].status = "VOIDED"} \cup B
  BY DEF PaymentSeen
<1> QED
  BY <1>1, <1>2 DEF Voids

LEMMA BookVoidInvoice ==
    ASSUME ReceivablesInv, NEW i \in InvoiceIds, Standing(invoice[i]),
           invoice'[i] # NoRow, invoice'[i].order = invoice[i].order,
           invoice'[i].status = "VOIDED", SettledBy(commands, i) = 0,
           \A j \in InvoiceIds \ {i} : invoice'[j] = invoice[j],
           UNCHANGED <<payment, commands>>, Answered' = Answered
    PROVE  Book!Next
<1>1. Bills' = Bills
  <2>1. \A j \in InvoiceIds : Bills'[j] = Bills[j]
    BY DEF Bills, Standing
  <2> QED
    BY <2>1, TablesThere, SameFunction
<1>2. Receipts' = Receipts
  BY DEF Receipts
<1>3. Voids' = Voids \cup {<<"invoice", i>>}
  <2>1. \A j \in InvoiceIds \ {i} : InvoiceSeen(j)
    BY DEF InvoiceSeen
  <2>2. \A p \in PaymentIds \ {} : PaymentSeen(p)
    BY DEF PaymentSeen
  <2>3. Voids' = Voids \cup {<<"invoice", j>> : j \in {i}} \cup {<<"payment", p>> : p \in {}}
    BY <2>1, <2>2, VoidsSeen
  <2> QED
    BY <2>3
<1>4. Book!Live(i) /\ Book!SettledBy(commands, i) = 0
  BY LiveThere, SameSums DEF ReceivablesInv, TypeOK
<1>5. Book!VoidInvoice(i)
  BY <1>1, <1>2, <1>3, <1>4 DEF Book!VoidInvoice, Book!InvoiceKey, Bills, Receipts, Voids,
     Answered
<1> QED
  BY <1>5 DEF Book!Next

LEMMA BookVoidPayment ==
    ASSUME ReceivablesInv, NEW p \in PaymentIds, Standing(payment[p]),
           payment'[p] # NoRow, ReceiptOf(payment'[p]) = ReceiptOf(payment[p]),
           payment'[p].status = "VOIDED", AllocatedBy(commands, p) = 0,
           \A q \in PaymentIds \ {p} : payment'[q] = payment[q],
           UNCHANGED <<invoice, commands>>, Answered' = Answered
    PROVE  Book!Next
<1>1. Receipts' = Receipts
  <2>1. \A q \in PaymentIds : Receipts'[q] = Receipts[q]
    BY DEF Receipts, Standing
  <2> QED
    BY <2>1, TablesThere, SameFunction
<1>2. Bills' = Bills
  BY DEF Bills
<1>3. Voids' = Voids \cup {<<"payment", p>>}
  <2>1. \A j \in InvoiceIds \ {} : InvoiceSeen(j)
    BY DEF InvoiceSeen
  <2>2. \A q \in PaymentIds \ {p} : PaymentSeen(q)
    BY DEF PaymentSeen
  <2>3. Voids' = Voids \cup {<<"invoice", j>> : j \in {}} \cup {<<"payment", q>> : q \in {p}}
    BY <2>1, <2>2, VoidsSeen
  <2> QED
    BY <2>3
<1>4. Receipts[p] # NoRow /\ <<"payment", p>> \notin Voids /\ Book!AllocatedBy(commands, p) = 0
  BY TakenThere, VoidsOf, SameSums DEF ReceivablesInv, TypeOK, Standing
<1>5. Book!VoidPayment(p)
  BY <1>1, <1>2, <1>3, <1>4 DEF Book!VoidPayment, Book!PaymentKey, Bills, Receipts, Voids,
     Answered
<1> QED
  BY <1>5 DEF Book!Next

\* A command fits what it is carried out on.
Suits(c, r) ==
    /\ AllocatedBy(commands, c.payment) + SumFunction(c.batch) <= r.amount
    /\ \A i \in DOMAIN c.batch :
          /\ i \in InvoiceIds /\ Standing(invoice[i]) /\ CustomerOf[invoice[i].order] = r.customer
          /\ SettledBy(commands, i) + c.batch[i] <= OrderTotal[invoice[i].order]

LEMMA SuitsFits ==
    ASSUME ReceivablesInv, NEW c, NEW r, Suits(c, r)
    PROVE  Book!Fits(c, r)
<1>1. Book!AllocatedBy(commands, c.payment) + Book!SumFunction(c.batch) <= r.amount
  BY SameSums, SameSum DEF Suits
<1>2. ASSUME NEW i \in DOMAIN c.batch
      PROVE  /\ Book!Live(i) /\ Bills[i] = invoice[i].order
             /\ Book!SettledBy(commands, i) = SettledBy(commands, i)
  <2>1. i \in InvoiceIds /\ Standing(invoice[i]) /\ invoice[i] \in Invoice \cup {NoRow}
    BY <1>2 DEF Suits, ReceivablesInv, TypeOK
  <2> QED
    BY <2>1, LiveThere, SameSums DEF Bills, Standing
<1>3. \A i \in DOMAIN c.batch :
         /\ Book!Live(i) /\ CustomerOf[Bills[i]] = r.customer
         /\ Book!SettledBy(commands, i) + c.batch[i] <= OrderTotal[Bills[i]]
  BY <1>2 DEF Suits
<1> QED
  BY <1>1, <1>3 DEF Book!Fits, Bills

LEMMA BookAllocate ==
    ASSUME ReceivablesInv, NEW c, c \notin commands, commands' = commands \cup {c},
           c.payment \in PaymentIds, Standing(payment[c.payment]), SameRef(c) = {},
           Suits(c, ReceiptOf(payment[c.payment])),
           \A i \in InvoiceIds : InvoiceSeen(i), \A p \in PaymentIds : PaymentSeen(p),
           Answered' = Answered
    PROVE  Book!Next
<1>1. Bills' = Bills /\ Receipts' = Receipts
  BY BillsSeen, ReceiptsSeen
<1>2. Voids' = Voids
  <2>1. Voids' = Voids \cup {<<"invoice", j>> : j \in {}} \cup {<<"payment", q>> : q \in {}}
    BY VoidsSeen
  <2> QED
    BY <2>1
<1>3. /\ Receipts[c.payment] # NoRow /\ <<"payment", c.payment>> \notin Voids
      /\ Receipts[c.payment] = ReceiptOf(payment[c.payment])
  BY TakenThere, VoidsOf DEF ReceivablesInv, TypeOK, Standing, Receipts
<1>4. Book!Fits(c, Receipts[c.payment])
  BY <1>3, SuitsFits
<1>5. \A d \in commands : d.payment = c.payment => d.ref # c.ref
  BY DEF SameRef
<1>6. Book!Allocate(c)
  BY <1>1, <1>2, <1>3, <1>4, <1>5 DEF Book!Allocate, Book!PaymentKey, Bills, Receipts,
     Voids, Answered
<1> QED
  BY <1>6 DEF Book!Next

LEMMA BookReceive ==
    ASSUME ReceivablesInv, NEW p \in PaymentIds, payment[p] = NoRow, payment'[p] \in Payment,
           payment'[p].status # "VOIDED", ~RefTaken(payment'[p].ref),
           \A q \in PaymentIds \ {p} : payment'[q] = payment[q],
           \/ UNCHANGED commands /\ Answered' = Answered
           \/ \E c \in Command : /\ commands' = commands \cup {c} /\ c.payment = p
                                /\ c.ref = payment'[p].ref /\ Suits(c, ReceiptOf(payment'[p]))
                                /\ Answered' = Answered \cup {<<c.ref, c.batch>>},
           \A i \in InvoiceIds : InvoiceSeen(i)
    PROVE  Book!Next
<1>0. PICK r : r = ReceiptOf(payment'[p])
  OBVIOUS
<1>1. r # NoRow /\ r.ref = payment'[p].ref
  BY <1>0, SubledgerAssumption DEF Payment, ReceiptOf
<1>2. Receipts[p] = NoRow /\ Receipts'[p] = r /\ Receipts' = [Receipts EXCEPT ![p] = r]
  <2>1. Receipts[p] = NoRow /\ Receipts'[p] = r
    BY <1>0, ReceivablesAssumption DEF Receipts
  <2>2. \A q \in PaymentIds \ {p} : Receipts'[q] = Receipts[q]
    BY DEF Receipts
  <2> QED
    BY <2>1, <2>2, TablesThere, OneChanged
<1>3. Bills' = Bills
  BY BillsSeen
<1>4. Voids' = Voids
  <2>1. {q \in PaymentIds : payment'[q] # NoRow /\ payment'[q].status = "VOIDED"}
        = {q \in PaymentIds : payment[q] # NoRow /\ payment[q].status = "VOIDED"}
    OBVIOUS
  <2>2. {j \in InvoiceIds : invoice'[j] # NoRow /\ invoice'[j].status = "VOIDED"}
        = {j \in InvoiceIds : invoice[j] # NoRow /\ invoice[j].status = "VOIDED"}
    BY DEF InvoiceSeen
  <2> QED
    BY <2>1, <2>2 DEF Voids
<1>5. \A q \in PaymentIds : Receipts[q] # NoRow => Receipts[q].ref # r.ref
  BY <1>1 DEF Receipts, RefTaken, ReceiptOf
<1>6. Book!Receive(p, r)
  BY <1>2, <1>3, <1>4, <1>5 DEF Book!Receive, Bills, Receipts, Voids
<1>7. CASE UNCHANGED commands /\ Answered' = Answered
  <2>1. Book!ReceiveAlone(p, r)
    BY <1>6, <1>7 DEF Book!ReceiveAlone, Answered
  <2>2. Book!ReceiveAlone(p, Receipts'[p]) /\ Receipts'[p] # NoRow
    BY <1>1, <1>2, <2>1
  <2> QED
    BY <2>2 DEF Book!Next, Receipts
<1>8. CASE \E c \in Command : /\ commands' = commands \cup {c} /\ c.payment = p
                             /\ c.ref = payment'[p].ref /\ Suits(c, ReceiptOf(payment'[p]))
                             /\ Answered' = Answered \cup {<<c.ref, c.batch>>}
  <2>1. PICK c \in Command :
          /\ commands' = commands \cup {c} /\ c.payment = p /\ c.ref = r.ref
          /\ Suits(c, r) /\ Answered' = Answered \cup {<<r.ref, c.batch>>}
    BY <1>0, <1>1, <1>8
  <2>2. c = [payment |-> p, ref |-> r.ref, batch |-> c.batch] /\ c.batch \in Batches
    BY <2>1 DEF Command
  <2>3. Book!Fits(c, r)
    BY <2>1, SuitsFits
  <2>4. Book!ReceiveAllocated(p, r, c.batch)
    BY <1>6, <2>1, <2>2, <2>3 DEF Book!ReceiveAllocated, Answered
  <2>5. Book!ReceiveAllocated(p, Receipts'[p], c.batch) /\ Receipts'[p] # NoRow
    BY <1>1, <1>2, <2>4
  <2> QED
    BY <2>2, <2>5 DEF Book!Next, Receipts
<1> QED
  BY <1>7, <1>8

\* What a transaction has when it commits.
LEMMA CommitHolds ==
    ASSUME ReceivablesInv, SumsInv, FitInv, NEW t \in Txns, Commit(t)
    PROVE  /\ pc[t] = "commit" /\ todo[t] = {} /\ t \in Running
           /\ Served(t) /\ Holds(t) /\ Based(t) /\ KeyFree(t)
           /\ AddsCommand(t) /\ Reckoned(t) /\ Matched(t) /\ Allowed(t)
           /\ NamesExist
           /\ \A i \in InvoiceIds : /\ invoice[i] \in Invoice \cup {NoRow}
                                    /\ inv[t][i] \in Invoice \cup {NoRow} /\ Billed(i)
           /\ \A p \in PaymentIds : /\ payment[p] \in Payment \cup {NoRow}
                                    /\ pay[t][p] \in Payment \cup {NoRow}
<1>1. TypeOK
  BY DEF ReceivablesInv
<1>2. /\ \A i \in InvoiceIds : /\ invoice[i] \in Invoice \cup {NoRow}
                                /\ inv[t][i] \in Invoice \cup {NoRow}
      /\ \A p \in PaymentIds : /\ payment[p] \in Payment \cup {NoRow}
                                /\ pay[t][p] \in Payment \cup {NoRow}
  BY <1>1 DEF TypeOK
<1>3. pc[t] = "commit" /\ todo[t] = {} /\ t \in Running
  BY CommitTables
<1>4. Served(t) /\ Holds(t) /\ Based(t) /\ KeyFree(t)
  BY DEF ReceivablesInv
<1>5. AddsCommand(t) /\ Reckoned(t) /\ NamesExist
  BY DEF SumsInv
<1>6. Matched(t) /\ \A i \in InvoiceIds : Billed(i)
  BY DEF FitInv
<1>7. Allowed(t)
  BY DEF Commit
<1> QED
  BY <1>2, <1>3, <1>4, <1>5, <1>6, <1>7

LEMMA TableStays ==
    ASSUME ReceivablesInv, NEW t \in Txns, Commit(t)
    PROVE  /\ HeldInvoices(t) = {} => invoice' = invoice
           /\ HeldPayments(t) = {} => payment' = payment
<1>1. invoice = [i \in InvoiceIds |-> invoice[i]] /\ payment = [p \in PaymentIds |-> payment[p]]
  BY DEF ReceivablesInv, TypeOK
<1>2. invoice' = [i \in InvoiceIds |-> invoice'[i]] /\ payment' = [p \in PaymentIds |-> payment'[p]]
  BY DEF Commit
<1>3. HeldInvoices(t) = {} => \A i \in InvoiceIds : invoice'[i] = invoice[i]
  BY CommitTables
<1>4. HeldPayments(t) = {} => \A p \in PaymentIds : payment'[p] = payment[p]
  BY CommitTables
<1> QED
  BY <1>1, <1>2, <1>3, <1>4, SameFunction

\* A commit is an answer; one to a payment request with allocations is noted.
LEMMA CommitAnswers ==
    ASSUME ReceivablesInv, NEW t \in Txns, Commit(t)
    PROVE  /\ ~Inline(t) => Answered' = Answered
           /\ Inline(t) => Answered' = Answered \cup {<<req[t].receipt.ref, req[t].batch>>}
<1>1. /\ pc[t] = "commit" /\ pc' = [pc EXCEPT ![t] = "committed"] /\ req' = req
      /\ pc \in [Txns -> {"idle", "doc", "insert", "payments", "invoices", "post", "sum",
                         "commit", "committed", "refused"}]
  BY DEF Commit, End, Goto, ReceivablesInv, TypeOK
<1>2. \A u \in Txns : Inline(u)' = Inline(u)
  BY <1>1 DEF Inline
<1>3. {u \in Txns : pc'[u] = "committed" /\ Inline(u)'}
        = {u \in Txns : pc[u] = "committed" /\ Inline(u)}
          \cup (IF Inline(t) THEN {t} ELSE {})
  BY <1>1, <1>2
<1> QED
  BY <1>1, <1>3 DEF Answered

\* Nothing else is an answer to a request that was taken.
LEMMA OthersDoNotAnswer ==
    ASSUME ReceivablesInv, NEW t \in Txns, BeginRequest(t) \/ Advance(t) \/ Rollback(t),
           ~Commit(t)
    PROVE  Answered' = Answered
<1>1. \A u \in Txns \ {t} : pc'[u] = pc[u] /\ req'[u] = req[u]
  BY OnlyCommitStores DEF ReceivablesInv, Quiet, Same
<1>2. pc[t] # "committed" /\ pc'[t] # "committed"
  <2>1. BeginRequest(t) => pc[t] = "idle"
    BY DEF BeginRequest, BeginInvoice, BeginVoidInvoice, BeginPayment, BeginVoidPayment,
       BeginAllocate, BeginRebuild, Idle
  <2>2. Advance(t) => pc[t] # "committed"
    BY DEF Advance, LockDocNo, InsertInvoice, VoidInvoice, InsertPayment, VoidPayment,
       RefuseInsert, Post, LockPayment, LockInvoice, RefuseMissing, CheckPayment, Allocate,
       MayAllocate, SelectInvoices, SumInvoices, SumPayments, Commit, BreaksCheck, HasRows,
       MayRun
  <2> QED
    BY <2>1, <2>2, NotCommitted DEF Rollback, Running
<1>3. {u \in Txns : pc'[u] = "committed" /\ Inline(u)'}
        = {u \in Txns : pc[u] = "committed" /\ Inline(u)}
  BY <1>1, <1>2 DEF Inline
<1>4. \A u \in {v \in Txns : pc[v] = "committed" /\ Inline(v)} : req'[u] = req[u]
  BY <1>1, <1>2
<1> QED
  BY <1>3, <1>4 DEF Answered

\* Except for what an invoice, a payment or a void request is about, no row
\* changes in the eyes of the book.
LEMMA CommitSeen ==
    ASSUME ReceivablesInv, SumsInv, FitInv, NEW t \in Txns, Commit(t)
    PROVE  /\ req[t].kind \notin {"invoice", "voidInvoice"} => \A i \in InvoiceIds : InvoiceSeen(i)
           /\ req[t].kind \notin {"payment", "voidPayment"} => \A p \in PaymentIds : PaymentSeen(p)
<1>1. ASSUME NEW i \in InvoiceIds, req[t].kind \notin {"invoice", "voidInvoice"}
      PROVE  InvoiceSeen(i)
  <2>1. CASE i \in HeldInvoices(t)
    <3>1. invoice'[i] = inv[t][i] /\ OfInvoice(t, inv[t][i], invoice[i]) /\ inv[t][i] # NoRow
      BY <2>1, CommitTables, CommitHolds DEF Based, HeldInvoices
    <3> QED
      BY <1>1, <3>1 DEF OfInvoice, Serves, InvoiceSeen
  <2>2. CASE i \notin HeldInvoices(t)
    BY <2>2, CommitTables DEF InvoiceSeen
  <2> QED
    BY <2>1, <2>2
<1>2. ASSUME NEW p \in PaymentIds, req[t].kind \notin {"payment", "voidPayment"}
      PROVE  PaymentSeen(p)
  <2>1. CASE p \in HeldPayments(t)
    <3>1. payment'[p] = pay[t][p] /\ OfPayment(t, pay[t][p], payment[p]) /\ pay[t][p] # NoRow
      BY <2>1, CommitTables, CommitHolds DEF Based, HeldPayments
    <3> QED
      BY <1>2, <3>1 DEF OfPayment, Serves, PaymentSeen, ReceiptOf
  <2>2. CASE p \notin HeldPayments(t)
    BY <2>2, CommitTables DEF PaymentSeen
  <2> QED
    BY <2>1, <2>2
<1> QED
  BY <1>1, <1>2

\* The rows of a command that commits have room for it.
LEMMA CommitSuits ==
    ASSUME ReceivablesInv, SumsInv, FitInv, Balanced, NEW t \in Txns, Commit(t),
           news[t].commands # {}, NEW p \in PaymentIds, p = CommandOf(t).payment
    PROVE  Suits(CommandOf(t), ReceiptOf(pay[t][p]))
<1>0. PICK c : c = CommandOf(t)
  OBVIOUS
<1>1. /\ c \in Command \ commands /\ c.batch = req[t].batch /\ req[t].kind \in {"allocate", "payment"}
      /\ HeldInvoices(t) = DOMAIN c.batch /\ HeldPayments(t) = {p} /\ c.payment = p
  BY <1>0, CommitAdds
<1>2. pc[t] = "commit" /\ Based(t) /\ Reckoned(t) /\ Matched(t) /\ Allowed(t) /\ NamesExist
  BY CommitHolds
<1>3. c.batch \in Batches /\ SumFunction(c.batch) \in Int /\ \A i \in DOMAIN c.batch : c.batch[i] \in Int
  <2>1. c.batch \in Batches
    BY <1>1 DEF Command
  <2> QED
    BY <2>1, BatchSum
<1>4. AllocatedBy(commands, p) + SumFunction(c.batch) <= pay[t][p].amount
  <2>1. pay[t][p].allocated \in 0 .. pay[t][p].amount
    BY <1>1, <1>2 DEF Allowed, PaymentAllowed
  <2>2. pay[t][p].allocated =
          (IF req[t].kind = "payment" THEN 0 ELSE payment[p].allocated) + SumFunction(c.batch)
    BY <1>1, <1>2 DEF Reckoned, Serves
  <2>3. OfPayment(t, pay[t][p], payment[p])
    BY <1>1, <1>2 DEF Based
  <2>4. CASE req[t].kind = "payment"
    <3>1. \A d \in commands : d.payment # p
      BY <1>2, <2>3, <2>4 DEF OfPayment, NamesExist
    <3>2. AllocatedBy(commands, p) = 0
      BY <3>1, AllocatedNone
    <3> QED
      BY <1>3, <2>1, <2>2, <2>4, <3>2
  <2>5. CASE req[t].kind # "payment"
    <3>1. payment[p] # NoRow
      BY <2>3, <2>5 DEF OfPayment
    <3>2. payment[p].allocated = AllocatedBy(commands, p)
      BY <3>1 DEF Balanced
    <3> QED
      BY <2>1, <2>2, <2>5, <3>2
  <2> QED
    BY <2>4, <2>5
<1>5. ASSUME NEW i \in DOMAIN c.batch
      PROVE  /\ i \in InvoiceIds /\ Standing(invoice[i])
             /\ CustomerOf[invoice[i].order] = pay[t][p].customer
             /\ SettledBy(commands, i) + c.batch[i] <= OrderTotal[invoice[i].order]
  <2>1. i \in HeldInvoices(t) /\ i \in InvoiceIds
    BY <1>1, <1>5 DEF HeldInvoices
  <2>2. inv[t][i] \in Invoice /\ Billed(i)
    BY <2>1, CommitHolds DEF HeldInvoices
  <2>3. OfInvoice(t, inv[t][i], invoice[i])
    BY <1>2, <2>1 DEF Based
  <2>4. /\ invoice[i] # NoRow /\ inv[t][i].order = invoice[i].order
        /\ inv[t][i].total = invoice[i].total
        /\ invoice[i].status = "VOIDED" <=> inv[t][i].status = "VOIDED"
    BY <1>1, <2>3 DEF OfInvoice, Serves
  <2>5. inv[t][i].status # "VOIDED" /\ CustomerOf[inv[t][i].order] = pay[t][p].customer
    BY <1>1, <1>2, <2>1 DEF Matched
  <2>6. inv[t][i].settled = invoice[i].settled + c.batch[i]
    BY <1>1, <1>2, <2>1 DEF Reckoned, Summed, Serves
  <2>7. invoice[i].settled = SettledBy(commands, i)
    BY <2>1, <2>4 DEF Balanced
  <2>8. inv[t][i].settled <= inv[t][i].total
    <3>1. InvoiceAllowed(inv[t][i])
      BY <1>2, <2>1 DEF Allowed
    <3>2. inv[t][i].total \in Nat /\ inv[t][i].settled \in Int
      BY <2>2 DEF Invoice
    <3> QED
      BY <2>5, <3>1, <3>2 DEF InvoiceAllowed
  <2>9. inv[t][i].total = OrderTotal[invoice[i].order]
    BY <2>2, <2>4 DEF Billed
  <2> QED
    BY <2>1, <2>4, <2>5, <2>6, <2>7, <2>8, <2>9 DEF Standing
<1> QED
  BY <1>0, <1>1, <1>4, <1>5 DEF Suits, ReceiptOf

LEMMA CommitIssues ==
    ASSUME ReceivablesInv, SumsInv, FitInv, NEW t \in Txns, Commit(t), req[t].kind = "invoice"
    PROVE  Book!Next
<1>1. /\ pc[t] = "commit" /\ todo[t] = {} /\ t \in Running /\ Served(t) /\ Holds(t) /\ Based(t)
      /\ KeyFree(t)
  BY CommitHolds
<1>2. HeldPayments(t) = {} /\ IsOne(HeldInvoices(t))
  BY <1>1 DEF Holds
<1>3. PICK i \in InvoiceIds : HeldInvoices(t) = {i}
  BY <1>2 DEF IsOne, HeldInvoices
<1>4. OfInvoice(t, inv[t][i], invoice[i]) /\ inv[t][i] # NoRow
  BY <1>1, <1>3 DEF Based, HeldInvoices
<1>5. req[t].order \in Orders /\ ~OrderTaken(req[t].order)
  BY <1>1 DEF Served, Serves, KeyFree
<1>6. invoice'[i] = inv[t][i] /\ \A j \in InvoiceIds \ {i} : invoice'[j] = invoice[j]
  BY <1>3, CommitTables
<1>7. payment' = payment /\ commands' = commands
  BY <1>2, TableStays, CommitAdds
<1>8. /\ invoice[i] = NoRow /\ invoice'[i] # NoRow /\ invoice'[i].order = req[t].order
      /\ invoice'[i].status # "VOIDED"
  BY <1>4, <1>6 DEF OfInvoice
<1>9. Answered' = Answered
  BY CommitAnswers DEF Inline
<1> QED
  BY <1>9, <1>5, <1>6, <1>7, <1>8, BookIssue

LEMMA CommitVoidsInvoice ==
    ASSUME ReceivablesInv, SumsInv, FitInv, Balanced, NEW t \in Txns, Commit(t),
           req[t].kind = "voidInvoice"
    PROVE  Book!Next
<1>1. /\ pc[t] = "commit" /\ todo[t] = {} /\ Holds(t) /\ Based(t) /\ Reckoned(t) /\ Allowed(t)
  BY CommitHolds
<1>2. HeldPayments(t) = {} /\ IsOne(HeldInvoices(t))
  BY <1>1 DEF Holds
<1>3. PICK i \in InvoiceIds : HeldInvoices(t) = {i}
  BY <1>2 DEF IsOne, HeldInvoices
<1>4. OfInvoice(t, inv[t][i], invoice[i]) /\ inv[t][i] # NoRow
  BY <1>1, <1>3 DEF Based, HeldInvoices
<1>5. invoice'[i] = inv[t][i] /\ \A j \in InvoiceIds \ {i} : invoice'[j] = invoice[j]
  BY <1>3, CommitTables
<1>6. payment' = payment /\ commands' = commands /\ news[t].commands = {}
  BY <1>2, TableStays, CommitAdds
<1>7. /\ invoice[i] # NoRow /\ invoice[i].status # "VOIDED"
      /\ inv[t][i].order = invoice[i].order /\ inv[t][i].status = "VOIDED"
  BY <1>1, <1>4 DEF OfInvoice, Serves
<1>8. SettledBy(commands, i) = 0
  <2>1. inv[t][i].settled = 0
    BY <1>1, <1>3, <1>7 DEF Allowed, InvoiceAllowed
  <2>2. inv[t][i].settled = invoice[i].settled + 0
    BY <1>1, <1>3, <1>6 DEF Reckoned, Summed, Serves
  <2>3. invoice[i].settled = SettledBy(commands, i)
    BY <1>7 DEF Balanced
  <2>4. SettledBy(commands, i) \in Int
    BY SettledInt DEF ReceivablesInv, TypeOK
  <2> QED
    BY <2>1, <2>2, <2>3, <2>4
<1>9. Standing(invoice[i]) /\ invoice'[i] # NoRow
  BY <1>4, <1>5, <1>7 DEF Standing
<1>10. Answered' = Answered
  BY CommitAnswers DEF Inline
<1> QED
  BY <1>5, <1>6, <1>7, <1>8, <1>9, <1>10, BookVoidInvoice

LEMMA CommitReceives ==
    ASSUME ReceivablesInv, SumsInv, FitInv, Balanced, NEW t \in Txns, Commit(t),
           req[t].kind = "payment"
    PROVE  Book!Next
<1>1. /\ pc[t] = "commit" /\ Holds(t) /\ Based(t) /\ KeyFree(t) /\ AddsCommand(t) /\ Carries(t)
  BY CommitHolds DEF FitInv
<1>2. IsOne(HeldPayments(t))
  BY <1>1 DEF Holds
<1>3. PICK p \in PaymentIds : HeldPayments(t) = {p}
  BY <1>2 DEF IsOne, HeldPayments
<1>4. OfPayment(t, pay[t][p], payment[p]) /\ pay[t][p] \in Payment
  BY <1>1, <1>3, CommitHolds DEF Based, HeldPayments
<1>5. payment'[p] = pay[t][p] /\ \A q \in PaymentIds \ {p} : payment'[q] = payment[q]
  BY <1>3, CommitTables
<1>6. /\ payment[p] = NoRow /\ payment'[p].status # "VOIDED"
      /\ payment'[p].ref = req[t].receipt.ref
  BY <1>1, <1>4, <1>5 DEF OfPayment
<1>7. ~RefTaken(payment'[p].ref)
  BY <1>1, <1>6 DEF KeyFree
<1>8. \A i \in InvoiceIds : InvoiceSeen(i)
  BY CommitSeen
<1>9. CASE ~Inline(t)
  <2>1. news[t].commands = {}
    BY <1>1, <1>9 DEF AddsCommand, Serves
  <2>2. UNCHANGED commands /\ Answered' = Answered
    BY <1>9, <2>1, CommitAdds, CommitAnswers
  <2> QED
    BY <1>4, <1>5, <1>6, <1>7, <1>8, <2>2, BookReceive
<1>10. CASE Inline(t)
  <2>0. PICK c : c = CommandOf(t)
    OBVIOUS
  <2>1. news[t].commands # {}
    BY <1>1, <1>10 DEF Carries, Serves, Inline
  <2>2. /\ commands' = commands \cup {c} /\ c.payment = p /\ c \in Command
        /\ c.batch = req[t].batch
    BY <1>3, <2>0, <2>1, CommitAdds
  <2>3. Suits(c, ReceiptOf(payment'[p]))
    BY <1>5, <2>0, <2>1, <2>2, CommitSuits
  <2>4. c.ref = req[t].receipt.ref /\ c.ref = payment'[p].ref
    BY <1>6, <1>10, <2>0 DEF CommandOf
  <2>5. Answered' = Answered \cup {<<c.ref, c.batch>>}
    BY <1>10, <2>2, <2>4, CommitAnswers
  <2> QED
    BY <1>4, <1>5, <1>6, <1>7, <1>8, <2>2, <2>3, <2>4, <2>5, BookReceive
<1> QED
  BY <1>9, <1>10

LEMMA CommitVoidsPayment ==
    ASSUME ReceivablesInv, SumsInv, FitInv, Balanced, NEW t \in Txns, Commit(t),
           req[t].kind = "voidPayment"
    PROVE  Book!Next
<1>1. /\ pc[t] = "commit" /\ Holds(t) /\ Based(t) /\ Reckoned(t) /\ Allowed(t)
  BY CommitHolds
<1>2. HeldInvoices(t) = {} /\ IsOne(HeldPayments(t))
  BY <1>1 DEF Holds
<1>3. PICK p \in PaymentIds : HeldPayments(t) = {p}
  BY <1>2 DEF IsOne, HeldPayments
<1>4. OfPayment(t, pay[t][p], payment[p]) /\ pay[t][p] # NoRow
  BY <1>1, <1>3 DEF Based, HeldPayments
<1>5. payment'[p] = pay[t][p] /\ \A q \in PaymentIds \ {p} : payment'[q] = payment[q]
  BY <1>3, CommitTables
<1>6. invoice' = invoice /\ commands' = commands /\ news[t].commands = {}
  BY <1>2, TableStays, CommitAdds
<1>7. /\ payment[p] # NoRow /\ payment[p].status # "VOIDED"
      /\ ReceiptOf(pay[t][p]) = ReceiptOf(payment[p]) /\ pay[t][p].status = "VOIDED"
  BY <1>1, <1>4 DEF OfPayment, Serves, ReceiptOf
<1>8. AllocatedBy(commands, p) = 0
  <2>1. pay[t][p].allocated = 0
    BY <1>1, <1>3, <1>7 DEF Allowed, PaymentAllowed
  <2>2. pay[t][p].allocated = payment[p].allocated + 0
    BY <1>1, <1>3, <1>6 DEF Reckoned, Serves
  <2>3. payment[p].allocated = AllocatedBy(commands, p)
    BY <1>7 DEF Balanced
  <2>4. AllocatedBy(commands, p) \in Int
    BY AllocatedInt DEF ReceivablesInv, TypeOK
  <2> QED
    BY <2>1, <2>2, <2>3, <2>4
<1>9. Standing(payment[p]) /\ payment'[p] # NoRow
  BY <1>4, <1>5, <1>7 DEF Standing
<1>10. Answered' = Answered
  BY CommitAnswers DEF Inline
<1> QED
  BY <1>5, <1>6, <1>7, <1>8, <1>9, <1>10, BookVoidPayment

\* An allocation that adds its command; its retry and a rebuild are not seen.
LEMMA CommitAllocates ==
    ASSUME ReceivablesInv, SumsInv, FitInv, Balanced, NEW t \in Txns, Commit(t),
           req[t].kind \in {"allocate", "rebuild"}
    PROVE  Book!Next \/ (Bills' = Bills /\ Receipts' = Receipts /\ Voids' = Voids
                           /\ commands' = commands /\ Answered' = Answered)
<1>1. (\A i \in InvoiceIds : InvoiceSeen(i)) /\ (\A p \in PaymentIds : PaymentSeen(p))
  BY CommitSeen
<1>0. Answered' = Answered
  BY CommitAnswers DEF Inline
<1>2. CASE news[t].commands = {}
  <2>1. commands' = commands /\ Bills' = Bills /\ Receipts' = Receipts
    BY <1>1, <1>2, CommitAdds, BillsSeen, ReceiptsSeen
  <2>2. Voids' = Voids \cup {<<"invoice", j>> : j \in {}} \cup {<<"payment", q>> : q \in {}}
    BY <1>1, VoidsSeen
  <2> QED
    BY <1>0, <2>1, <2>2
<1>3. CASE news[t].commands # {}
  <2>0. PICK c : c = CommandOf(t)
    OBVIOUS
  <2>1. /\ commands' = commands \cup {c} /\ c \notin commands /\ HeldPayments(t) = {c.payment}
        /\ req[t].kind = "allocate"
    BY <1>3, <2>0, CommitAdds
  <2>2. pc[t] = "commit" /\ Based(t) /\ AddsCommand(t) /\ Matched(t)
    BY CommitHolds
  <2>3. c.payment \in PaymentIds /\ OfPayment(t, pay[t][c.payment], payment[c.payment])
    BY <2>1, <2>2 DEF Based, HeldPayments
  <2>4. SameRef(c) = {}
    BY <1>3, <2>0, <2>2 DEF AddsCommand
  <2>5. /\ payment[c.payment] # NoRow /\ pay[t][c.payment].status = payment[c.payment].status
        /\ ReceiptOf(pay[t][c.payment]) = ReceiptOf(payment[c.payment])
    BY <2>1, <2>3 DEF OfPayment, Serves, ReceiptOf
  <2>6. pay[t][c.payment].status # "VOIDED"
    BY <2>1, <2>2 DEF Matched, Serves
  <2>7. Suits(c, ReceiptOf(payment[c.payment]))
    BY <1>3, <2>0, <2>3, <2>5, CommitSuits
  <2>8. Standing(payment[c.payment])
    BY <2>5, <2>6 DEF Standing
  <2> QED
    BY <1>0, <1>1, <2>1, <2>3, <2>4, <2>7, <2>8, BookAllocate
<1> QED
  BY <1>2, <1>3

LEMMA StepInBook ==
    ASSUME ReceivablesInv, SumsInv, FitInv, Balanced, [Next]_vars
    PROVE  Book!Next \/ (Bills' = Bills /\ Receipts' = Receipts /\ Voids' = Voids
                           /\ commands' = commands /\ Answered' = Answered)
<1>1. ASSUME UNCHANGED Stored
      PROVE  Bills' = Bills /\ Receipts' = Receipts /\ Voids' = Voids /\ commands' = commands
  BY <1>1 DEF Stored, Bills, Receipts, Voids
<1>2. ASSUME NEW t \in Txns, Commit(t)
      PROVE  Book!Next \/ (Bills' = Bills /\ Receipts' = Receipts /\ Voids' = Voids
                             /\ commands' = commands /\ Answered' = Answered)
  <2>1. req[t].kind \in {"invoice", "voidInvoice", "payment", "voidPayment", "allocate", "rebuild"}
    BY <1>2, CommitHolds DEF Served, Serves
  <2> QED
    BY <1>2, <2>1, CommitIssues, CommitVoidsInvoice, CommitReceives, CommitVoidsPayment,
       CommitAllocates
<1>3. CASE UNCHANGED vars
  BY <1>1, <1>3 DEF vars, Stored, Answered, Inline
<1>4. ASSUME NEW t \in Txns, BeginRequest(t) \/ Advance(t) \/ Rollback(t), ~Commit(t)
      PROVE  UNCHANGED Stored /\ Answered' = Answered
  BY <1>4, OnlyCommitStores, OthersDoNotAnswer DEF ReceivablesInv, Quiet
<1> QED
  BY <1>1, <1>2, <1>3, <1>4 DEF Next, Finished, vars, Stored

LEMMA InitInBook == Init => Book!Init
<1> SUFFICES ASSUME Init PROVE Book!Init
  OBVIOUS
<1>1. invoice \in InitialInvoices /\ payment \in InitialPayments /\ commands = FirstCommands
  BY DEF Init
<1>2. Bills = FirstBilled
  <2>1. FirstBilled = [i \in InvoiceIds |-> FirstBilled[i]]
    BY SubledgerAssumption
  <2>2. \A i \in InvoiceIds : FirstBilled[i] = Bills[i]
    BY <1>1, ReceivablesAssumption DEF Bills
  <2> QED
    BY <2>1, <2>2, TablesThere, SameFunction
<1>3. Receipts = FirstReceived
  <2>1. FirstReceived = [p \in PaymentIds |-> FirstReceived[p]]
    BY SubledgerAssumption
  <2>2. \A p \in PaymentIds : FirstReceived[p] = Receipts[p]
    BY <1>1, ReceivablesAssumption DEF Receipts
  <2> QED
    BY <2>1, <2>2, TablesThere, SameFunction
<1>4. Voids = {}
  <2>1. \A i \in InvoiceIds : invoice[i] # NoRow => invoice[i].status # "VOIDED"
    BY <1>1, ReceivablesAssumption DEF Standing
  <2>2. \A p \in PaymentIds : payment[p] # NoRow => payment[p].status # "VOIDED"
    BY <1>1, ReceivablesAssumption DEF Standing
  <2> QED
    BY <2>1, <2>2 DEF Voids
<1>5. Answered = {}
  BY DEF Init, Answered
<1> QED
  BY <1>1, <1>2, <1>3, <1>4, <1>5 DEF Book!Init, Bills, Receipts, Voids, Answered

\* ImplementsSubledger: where the maintained columns are right at the start,
\* the locked and interleaved transactions do to the tables, one by one, what
\* ADR-008 lets an invoice, a payment, a void or an allocation do.
THEOREM SubledgerImplemented == Spec /\ Balanced => ImplementsSubledger
<1>1. ReceivablesInv /\ SumsInv /\ FitInv /\ Balanced /\ [Next]_vars
        => [Book!Next]_<<Bills, Receipts, Voids, commands, Answered>>
  BY StepInBook
<1>2. Init => Book!Init
  BY InitInBook
<1>3. Spec /\ Balanced => []Balanced
  BY ColumnsStayRight, PTL DEF BalancesMatch
<1> QED
  BY HoldsAlways, SumsKept, FitKept, <1>1, <1>2, <1>3,
     PTL DEF Spec, ImplementsSubledger, Book!Spec, Bills, Receipts, Voids, Answered
===============================================================================
