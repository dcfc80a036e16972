-------------------------------- MODULE MCReplay -------------------------------
(***************************************************************************)
(* Instances of Replay: a malformed row and an old row in front, then a    *)
(* shipment with a cost and one without.                                   *)
(***************************************************************************)
EXTENDS Replay, TLC

CONSTANTS bad, old, paid, free

MCOld == <<bad, old>>
MCQty == [s \in Rows |-> IF s = old THEN 2 ELSE 1]
MCCost == [s \in Rows |-> IF s \in {old, paid} THEN 1 ELSE 0]
MCPeriod == [s \in Rows |-> IF s = paid THEN "new" ELSE "past"]

\* Only what is published in the run, or nothing left by an earlier release.
NoOld == <<>>

Corrections == {1, -1}
WriteOffs == {-1}
===============================================================================
