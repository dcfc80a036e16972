------------------------------- MODULE Journal -------------------------------
(***************************************************************************)
(* What the ledger promises, with no transaction, lock or retry in it: an  *)
(* append-only book of entries. Each step is the effect of one whole       *)
(* database transaction. ADR-002, ADR-003 and ADR-005 promise these rules; *)
(* module Ledger, which models the code, is shown to implement them.       *)
(***************************************************************************)
EXTENDS JournalData

VARIABLES
    period,     \* month -> "absent", "OPEN" or "CLOSED"
    journal     \* the set of committed entries

Init ==
    /\ period = [m \in Months |-> "absent"]
    /\ journal = {}

Open(m) ==
    /\ period[m] = "absent"
    /\ period' = [period EXCEPT ![m] = "OPEN"]
    /\ UNCHANGED journal

Close(m) ==
    /\ period[m] = "OPEN"
    /\ period' = [period EXCEPT ![m] = "CLOSED"]
    /\ UNCHANGED journal

\* The next number of a year is the first one no entry of the year has.
IsNextNumber(n, y) ==
    /\ n \in Nat \ {0}
    /\ n \notin Numbers(journal, y)
    /\ \A k \in 1 .. n - 1 : k \in Numbers(journal, y)

\* A reversal is of an entry of the book that is no reversal itself, has none
\* yet and touches no control account, and it has that entry's lines swapped.
LegalReversal(e) ==
    /\ e.source = NoSource
    /\ ~ReversedIn(journal, e.reverses)
    /\ \E o \in journal :
          /\ o.id = e.reverses
          /\ ~IsReversal(o)
          /\ Touched(o.lines) \cap Control = {}
          /\ e.lines = Swap(o.lines)

Record(e) ==
    /\ period[e.month] = "OPEN"
    /\ IsNextNumber(e.no, YearOf[e.month])
    /\ \A o \in journal : o.id # e.id
    /\ Touched(e.lines) \subseteq Chart
    /\ \/ IsManual(e) /\ Touched(e.lines) \cap Control = {}
       \/ e.source # NoSource /\ ~IsReversal(e)
          /\ \A o \in journal : o.source # e.source
       \/ IsReversal(e) /\ LegalReversal(e)
    /\ journal' = journal \cup {e}
    /\ UNCHANGED period

Next ==
    \/ \E m \in Months : Open(m) \/ Close(m)
    \/ \E e \in journal' \ journal : e \in Entry /\ Record(e)

vars == <<period, journal>>

Spec == Init /\ [][Next]_vars
=============================================================================
