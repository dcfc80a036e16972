------------------------------- MODULE MCLedger -------------------------------
(***************************************************************************)
(* Instances of Ledger: two months in two years, an asset, a revenue and   *)
(* the receivables control account of the company and one account of       *)
(* another company; a sale, a shipment whose rule names an account that is *)
(* not in the chart, and an event of amount zero.                          *)
(***************************************************************************)
EXTENDS Ledger, FiniteSets, TLC

CONSTANTS jan, dec, cash, revenue, ar, foreign, sale, shipment, free

MCYearOf == [m \in Months |-> IF m = dec THEN 2025 ELSE 2026]

Net(debit, credit, amount) ==
    [a \in Accounts |-> IF a = debit THEN amount
                        ELSE IF a = credit THEN -amount ELSE 0]

\* A good batch, an unbalanced one, one on the control account, a foreign one.
MCManualLines ==
    {Net(cash, revenue, 1),
     [Net(cash, revenue, 1) EXCEPT ![revenue] = -2],
     Net(ar, revenue, 1),
     Net(foreign, revenue, 1)}

MCEventMonth == [s \in Sources |-> jan]

MCEventLines ==
    [s \in Sources |->
        IF s = sale THEN Net(ar, revenue, 2)
        ELSE IF s = shipment THEN Net(foreign, cash, 1) ELSE NoLines]
===============================================================================
