----------------------------- MODULE JournalData -----------------------------
(***************************************************************************)
(* The data of the general ledger (app/modules/ledger): accounting months, *)
(* journal entries and the checks an entry passes before it is written.    *)
(* One company: every ledger query and key of the code is scoped to the    *)
(* company of the request.                                                 *)
(***************************************************************************)
EXTENDS Integers, Functions

CONSTANTS
    Posters,    \* transactions that may write one journal entry each
    Months,     \* the accounting periods a run talks about
    Years,      \* the years they belong to
    YearOf,     \* Months -> Years
    Accounts,   \* every account id a request may name
    Chart,      \* the accounts of this company
    Control,    \* its control accounts (is_control, or code 1100)
    Sources,    \* (source_type, source_id) keys of business events
    NoSource,   \* source_type NULL: manual entries and reversals
    NoPoster,   \* reversal_of_id NULL
    NoEntry     \* no entry in preparation

ASSUME JournalAssumption ==
    /\ YearOf \in [Months -> Years]
    /\ Control \subseteq Chart
    /\ Chart \subseteq Accounts
    /\ NoSource \notin Sources
    /\ NoPoster \notin Posters

(***************************************************************************)
(* The lines of an entry, as the net amount per account: a debit is        *)
(* positive, a credit negative, an account without a line has 0.           *)
(***************************************************************************)
Lines == [Accounts -> Int]

NoLines == [a \in Accounts |-> 0]

Touched(l) == {a \in Accounts : l[a] # 0}

Swap(l) == [a \in Accounts |-> -l[a]]

Balanced(l) == SumFunction(l) = 0

ValidLines(l) == l # NoLines /\ Balanced(l)

\* An entry is identified by the transaction that wrote it.
Entry == [id       : Posters,
          month    : Months,
          no       : Nat,
          source   : Sources \cup {NoSource},
          reverses : Posters \cup {NoPoster},
          lines    : Lines]

IsReversal(e) == e.reverses # NoPoster

IsManual(e) == ~IsReversal(e) /\ e.source = NoSource

InYear(j, y) == {e \in j : YearOf[e.month] = y}

Numbers(j, y) == {e.no : e \in InYear(j, y)}

ReversedIn(j, id) == \E r \in j : r.reverses = id
=============================================================================
