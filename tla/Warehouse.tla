------------------------------- MODULE Warehouse -------------------------------
(***************************************************************************)
(* What the inventory module promises, with no transaction or lock in it   *)
(* (ADR-007): a count per product that is never negative, from which a     *)
(* shipment is taken once, whole or not at all. Module Stock implements it.*)
(***************************************************************************)
EXTENDS StockData

VARIABLES
    stock,      \* product -> how many there are
    delivered,  \* the shipments that have left
    trusted     \* nothing has drifted

Init ==
    /\ stock = [p \in Products |-> Total(Opening, p)]
    /\ delivered = {s \in Shipments : MovesOf(Opening, s) # {}}
    /\ trusted \in BOOLEAN

Ship(s) ==
    /\ s \notin delivered
    /\ trusted => \A p \in ProductsOf(s) : QtyOf(s, p) <= stock[p]
    /\ stock' = [p \in Products |->
                    IF p \in ProductsOf(s) THEN stock[p] - QtyOf(s, p) ELSE stock[p]]
    /\ delivered' = delivered \cup {s}
    /\ UNCHANGED trusted

Adjust(a) ==
    /\ trusted => stock[a.product] + a.delta >= 0
    /\ stock' = [stock EXCEPT ![a.product] = @ + a.delta]
    /\ UNCHANGED <<delivered, trusted>>

Recount ==
    /\ \A p \in Products : stock[p] >= 0
    /\ trusted' = TRUE
    /\ UNCHANGED <<stock, delivered>>

Next ==
    \/ \E s \in Shipments : Ship(s)
    \/ \E a \in Adjustments : Adjust(a)
    \/ Recount

Spec == Init /\ [][Next]_<<stock, delivered, trusted>>
===============================================================================
