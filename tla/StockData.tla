------------------------------- MODULE StockData -------------------------------
(***************************************************************************)
(* The data of the inventory module (app/modules/inventory): products,     *)
(* stock moves and the batch of moves a shipped order asks for. One        *)
(* company: every query and key of the code is scoped to it.               *)
(***************************************************************************)
EXTENDS Integers, FiniteSets, Functions, Folds

CONSTANTS
    Writers,        \* transactions that write stock moves, one job each
    Products,       \* product ids, in the order their UUIDs sort
    Shipments,      \* source ids of sales.goods_shipped events
    ShipmentLines,  \* Shipments -> sequences of order lines (product, qty)
    Adjustments,    \* the (product, delta) pairs a request may carry
    Opening,        \* the moves committed before the run starts
    NoShipment,     \* source_type NULL: a manual adjustment
    NoWriter        \* the writer of an opening move

OrderLine == [product : Products, qty : Nat \ {0}]

\* A row of stock_moves, identified by its writer and product.
Move == [by      : Writers \cup {NoWriter},
         product : Products,
         delta   : Int \ {0},
         source  : Shipments \cup {NoShipment}]

LinesOf(s, p) == {i \in DOMAIN ShipmentLines[s] : ShipmentLines[s][i].product = p}

ProductsOf(s) == {p \in Products : LinesOf(s, p) # {}}

\* qty_by_product: an order may name a product on several lines.
QtyOf(s, p) == SumFunction([i \in LinesOf(s, p) |-> ShipmentLines[s][i].qty])

\* Mutant: one move per line.
BatchByLine(t, s) ==
    {[by |-> t, product |-> ShipmentLines[s][i].product,
      delta |-> -ShipmentLines[s][i].qty, source |-> s] : i \in DOMAIN ShipmentLines[s]}

\* The moves that deliver shipment s: one per product, not one per line.
Batch(t, s) ==
    {[by |-> t, product |-> p, delta |-> -QtyOf(s, p), source |-> s] : p \in ProductsOf(s)}

\* The sum of qty_delta over the moves ms of product p.
Total(ms, p) == SumFunction([m \in {n \in ms : n.product = p} |-> m.delta])

MovesOf(ms, s) == {m \in ms : m.source = s}

\* Products and order lines are rows. What was delivered before the run was
\* delivered whole.
ASSUME StockAssumption ==
    /\ Products \subseteq Int /\ IsFiniteSet(Products)
    /\ NoShipment \notin Shipments
    /\ NoWriter \notin Writers
    /\ \A s \in Shipments : /\ IsFiniteSet(DOMAIN ShipmentLines[s])
                            /\ \A i \in DOMAIN ShipmentLines[s] : ShipmentLines[s][i] \in OrderLine
    /\ Adjustments \subseteq [product : Products, delta : Int \ {0}]
    /\ Opening \subseteq {m \in Move : m.by = NoWriter} /\ IsFiniteSet(Opening)
    /\ \A s \in Shipments : MovesOf(Opening, s) \in {{}, Batch(NoWriter, s)}
===============================================================================
