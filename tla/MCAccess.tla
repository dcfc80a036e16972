-------------------------------- MODULE MCAccess --------------------------------
(***************************************************************************)
(* An instance of Access for TLC, in two parts that share their constants: *)
(* a few requests of every kind for a short while, from one peer; or more  *)
(* logins, from more peers than can be tracked, while the window slides.   *)
(***************************************************************************)
EXTENDS Access

CONSTANTS u1, c1, c2, p1, n1

TheFirstGrants == {<<u1, c1>>, <<u1, c2>>}

AllKindsForAWhile ==
    /\ \A r \in Requests : r > 3 => pc[r] = "idle"
    /\ \A r \in Requests : req[r].user # n1
    /\ \A p \in Peers \ {p1} : recent[p] = {}
    /\ now <= 1

\* Nobody has the email n1, so that these logins end soon.
LoginsForLonger ==
    /\ \A r \in Requests : req[r].kind \in {"login", None} /\ req[r].user \in {n1, None}
    /\ changes = 0

\* What these bounds cut off is arrivals, the clock and the operator, never a step
\* of a request under way.
MCNext == Next /\ (AllKindsForAWhile \/ LoginsForLonger)'

MCSpec == Init /\ [][MCNext]_vars /\ Fairness
================================================================================
