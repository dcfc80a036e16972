-------------------------------- MODULE MCSales --------------------------------
(***************************************************************************)
(* An instance of Sales: drafts at the list price and at a negotiated one, *)
(* orders further on, and ids for orders that the run creates.             *)
(***************************************************************************)
EXTENDS Sales

CONSTANTS c1

Drawn(status, qty, price, override, number) ==
    [status |-> status, customer |-> c1, qty |-> qty, price |-> price,
     override |-> override, total |-> qty * price, number |-> number]

\* Two drafts, each within the limit, together beyond it; a shipped order that is
\* yet to be invoiced and paid, and a confirmed one.
MCOrders == [o \in Orders |->
    IF o = 1 THEN Drawn("DRAFT", 1, 1, FALSE, 1)
    ELSE IF o = 2 THEN Drawn("DRAFT", 1, 1, TRUE, 2)
    ELSE IF o = 3 THEN Drawn("SHIPPED", 1, 1, FALSE, 3)
    ELSE IF o = 4 THEN Drawn("CONFIRMED", 1, 1, TRUE, 4) ELSE NoOrder]
===============================================================================
