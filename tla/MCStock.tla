-------------------------------- MODULE MCStock --------------------------------
(***************************************************************************)
(* Instances of Stock: two products, two shipments that name them in       *)
(* opposite orders (one names a product twice), receipts and write-offs.   *)
(***************************************************************************)
EXTENDS Stock, TLC

CONSTANTS s1, s2

Line(p, q) == [product |-> p, qty |-> q]

MCLines == [s \in Shipments |->
              IF s = s1 THEN <<Line(2, 1), Line(1, 1), Line(1, 2)>>
              ELSE <<Line(1, 1), Line(2, 2)>>]

MCAdjustments == {[product |-> 1, delta |-> 2], [product |-> 2, delta |-> -2]}

MCOpening == {[by |-> NoWriter, product |-> 1, delta |-> 3, source |-> NoShipment],
              [by |-> NoWriter, product |-> 2, delta |-> 3, source |-> NoShipment]}

\* What a correct history leaves.
Right == {[p \in Products |-> Total(Opening, p)]}

\* One row deleted by an operator, the other drifted up.
Wrong == {[p \in Products |-> IF p = 1 THEN Missing ELSE 4]}

RightOrWrong == Right \cup Wrong
===============================================================================
