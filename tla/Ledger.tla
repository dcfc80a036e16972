-------------------------------- MODULE Ledger --------------------------------
(***************************************************************************)
(* The general ledger of app/modules/ledger as its database transactions   *)
(* run it. A transaction is a process that takes one step per SQL          *)
(* statement that reads, locks or writes something another transaction can *)
(* see; between two statements any other transaction may run (PostgreSQL   *)
(* READ COMMITTED). What a transaction has written stays in its draft and  *)
(* becomes visible when it commits; its row locks are held from the        *)
(* statement that takes them until it ends, or until it rolls back to the  *)
(* savepoint taken before them.                                            *)
(*                                                                         *)
(*   Posters   post_journal_entry through the HTTP route (manual), through *)
(*             the posting engine (event), or _post_reversal               *)
(*   Admins    create_period and close_period                              *)
(*                                                                         *)
(* Every transaction runs once: the two sets bound a run.                  *)
(***************************************************************************)
EXTENDS JournalData

CONSTANTS
    Admins,         \* transactions that create or close a period
    ManualLines,    \* the batches of lines a request may carry
    EventMonth,     \* Sources -> Months: the event's own date
    EventLines      \* Sources -> Lines: what its posting rule yields

ASSUME LedgerAssumption ==
    /\ ManualLines \subseteq Lines
    /\ EventMonth \in [Sources -> Months]
    /\ EventLines \in [Sources -> Lines]
    /\ \A s \in Sources : Balanced(EventLines[s])
    /\ NoEntry \notin Entry

VARIABLES
    period,     \* committed accounting_periods.status, "absent" if no row
    journal,    \* committed journal_entries with their journal_lines
    nextNo,     \* committed ledger_sequences.next_no of each year
    pc,         \* the statement each posting transaction runs next
    draft,      \* the entry it prepares, NoEntry if none
    adminPc,    \* the same for the period transactions
    target      \* the month a period transaction works on

vars == <<period, journal, nextNo, pc, draft, adminPc, target>>

Init ==
    /\ period = [m \in Months |-> "absent"]
    /\ journal = {}
    /\ nextNo = [y \in Years |-> 1]
    /\ pc = [t \in Posters |-> "idle"]
    /\ draft = [t \in Posters |-> NoEntry]
    /\ adminPc = [a \in Admins |-> "idle"]
    /\ target \in [Admins -> Months]

-------------------------------------------------------------------------------
(* Row locks. *)

\* Transactions with the FOR SHARE lock on the row of period m.
SharersOf(m) ==
    {t \in Posters : pc[t] \in {"number", "insert", "commit"}
                     /\ draft[t] # NoEntry /\ draft[t].month = m}

\* Transactions with the FOR UPDATE lock on the row of period m.
ClosersOf(m) == {a \in Admins : adminPc[a] = "closeCommit" /\ target[a] = m}

\* Transactions with the ledger_sequences row of year y.
NumberersOf(y) ==
    {t \in Posters : pc[t] \in {"insert", "commit"}
                     /\ draft[t] # NoEntry /\ YearOf[draft[t].month] = y}

\* Transactions whose insert of an entry is flushed and not committed.
Inserters == {t \in Posters : pc[t] = "commit" /\ draft[t] # NoEntry}

(* The unique indexes uq_journal_entries_source and reversal_of_id. *)
SameKey(d, e) ==
    \/ d.source # NoSource /\ d.source = e.source
    \/ IsReversal(d) /\ d.reverses = e.reverses

\* Mutant: no unique index on reversal_of_id.
ClashesBySource(d) == \E e \in journal : d.source # NoSource /\ d.source = e.source

Clashes(d) == \E e \in journal : SameKey(d, e)

\* PostgreSQL makes an insert wait for a transaction that has inserted the
\* same key and not ended yet.
MustWait(d) == \E u \in Inserters : SameKey(d, draft[u])

-------------------------------------------------------------------------------
(* Starting a post: validation, before anything is locked. *)

NewEntry(t, m, s, r, l) ==
    [id |-> t, month |-> m, no |-> 0, source |-> s, reverses |-> r, lines |-> l]

Goto(t, where) == pc' = [pc EXCEPT ![t] = where]

Prepare(t, e) ==
    /\ draft' = [draft EXCEPT ![t] = e]
    /\ Goto(t, "period")

\* Ends t without effect: the request is rejected, or its transaction fails
\* or is rolled back by the caller that owns it.
Abandon(t) ==
    /\ draft' = [draft EXCEPT ![t] = NoEntry]
    /\ Goto(t, "done")

Stored == <<period, journal, nextNo>>
AdminVars == <<adminPc, target>>

BeginManual(t, m, l) ==
    /\ pc[t] = "idle"
    /\ IF /\ ValidLines(l)
          /\ Touched(l) \subseteq Chart
          /\ Touched(l) \cap Control = {}
       THEN Prepare(t, NewEntry(t, m, NoSource, NoPoster, l))
       ELSE Abandon(t)
    /\ UNCHANGED <<Stored, AdminVars>>

\* The posting engine, in the transaction that published (or replays) event s.
\* An event of amount zero posts nothing; a chart without one of the rule's
\* accounts fails the publisher.
BeginEvent(t, s) ==
    /\ pc[t] = "idle"
    /\ \/ /\ EventLines[s] = NoLines
          /\ Goto(t, "commit")
          /\ UNCHANGED draft
       \/ /\ EventLines[s] # NoLines
          /\ Touched(EventLines[s]) \subseteq Chart
          /\ Prepare(t, NewEntry(t, EventMonth[s], s, NoPoster, EventLines[s]))
       \/ /\ ~(Touched(EventLines[s]) \subseteq Chart)
          /\ Abandon(t)
    /\ UNCHANGED <<Stored, AdminVars>>

\* Mutant: the control accounts of the original are not looked at.
BeginReverseAny(t, o, today) ==
    /\ pc[t] = "idle"
    /\ IF ~IsReversal(o) /\ ~ReversedIn(journal, o.id)
       THEN Prepare(t, NewEntry(t, today, NoSource, o.id, Swap(o.lines)))
       ELSE Abandon(t)
    /\ UNCHANGED <<Stored, AdminVars>>

\* The reversal of o, dated today; "already reversed" is read without a lock.
BeginReverse(t, o, today) ==
    /\ pc[t] = "idle"
    /\ IF /\ ~IsReversal(o)
          /\ ~ReversedIn(journal, o.id)
          /\ Touched(o.lines) \cap Control = {}
       THEN Prepare(t, NewEntry(t, today, NoSource, o.id, Swap(o.lines)))
       ELSE Abandon(t)
    /\ UNCHANGED <<Stored, AdminVars>>

-------------------------------------------------------------------------------
(* The statements of a post. *)

\* Mutant: the status is read without a lock.
LockPeriodPlainRead(t) ==
    /\ pc[t] = "period"
    /\ IF period[draft[t].month] = "OPEN"
       THEN Goto(t, "number") /\ UNCHANGED draft
       ELSE Abandon(t)
    /\ UNCHANGED <<Stored, AdminVars>>

\* _resolve_and_lock_period: FOR SHARE waits for a closer, then re-reads.
LockPeriod(t) ==
    /\ pc[t] = "period"
    /\ ClosersOf(draft[t].month) = {}
    /\ IF period[draft[t].month] = "OPEN"
       THEN Goto(t, "number") /\ UNCHANGED draft
       ELSE Abandon(t)
    /\ UNCHANGED <<Stored, AdminVars>>

\* Mutant: the counter is incremented outside the transaction.
AllocateNoAtOnce(t) ==
    LET y == YearOf[draft[t].month] IN
    /\ pc[t] = "number"
    /\ NumberersOf(y) = {}
    /\ draft' = [draft EXCEPT ![t].no = nextNo[y]]
    /\ nextNo' = [nextNo EXCEPT ![y] = @ + 1]
    /\ Goto(t, "insert")
    /\ UNCHANGED <<period, journal, AdminVars>>

\* Mutant: next_no is read under a shared lock, and the update waits for the
\* others that read it.
AllocateNoUpgraded(t) ==
    LET y == YearOf[draft[t].month] IN
    /\ pc[t] = "number"
    /\ \A u \in Posters \ {t} :
          pc[u] \in {"number", "insert", "commit"} /\ draft[u] # NoEntry =>
              YearOf[draft[u].month] # y
    /\ draft' = [draft EXCEPT ![t].no = nextNo[y]]
    /\ Goto(t, "insert")
    /\ UNCHANGED <<Stored, AdminVars>>

\* _allocate_entry_no: the increment of next_no stays in the draft.
AllocateNo(t) ==
    LET y == YearOf[draft[t].month] IN
    /\ pc[t] = "number"
    /\ NumberersOf(y) = {}
    /\ draft' = [draft EXCEPT ![t].no = nextNo[y]]
    /\ Goto(t, "insert")
    /\ UNCHANGED <<Stored, AdminVars>>

\* The flush of the entry. A duplicate event rolls back to the savepoint: the
\* period and sequence locks go, the number with them, and the publisher's
\* transaction goes on; a duplicate reversal fails its request.
InsertEntry(t) ==
    /\ pc[t] = "insert"
    /\ ~MustWait(draft[t])
    /\ \/ /\ ~Clashes(draft[t])
          /\ Goto(t, "commit")
          /\ UNCHANGED draft
       \/ /\ Clashes(draft[t]) /\ draft[t].source # NoSource
          /\ Goto(t, "commit")
          /\ draft' = [draft EXCEPT ![t] = NoEntry]
       \/ /\ Clashes(draft[t]) /\ draft[t].source = NoSource
          /\ Abandon(t)
    /\ UNCHANGED <<Stored, AdminVars>>

CommitEntry(t) ==
    /\ pc[t] = "commit" /\ draft[t] # NoEntry
    /\ journal' = journal \cup {draft[t]}
    /\ nextNo' = [nextNo EXCEPT ![YearOf[draft[t].month]] = draft[t].no + 1]
    /\ Abandon(t)
    /\ UNCHANGED <<period, AdminVars>>

\* The publisher's own writes commit, the ledger has none.
CommitNothing(t) ==
    /\ pc[t] = "commit" /\ draft[t] = NoEntry
    /\ Abandon(t)
    /\ UNCHANGED <<Stored, AdminVars>>

\* Whoever owns the transaction gives up, for a reason of its own or because
\* the process or its connection dies.
Rollback(t) ==
    /\ pc[t] \notin {"idle", "done"}
    /\ Abandon(t)
    /\ UNCHANGED <<Stored, AdminVars>>

-------------------------------------------------------------------------------
(* Periods. *)

AdminGoto(a, where) == adminPc' = [adminPc EXCEPT ![a] = where]

PosterVars == <<pc, draft>>

\* Two creations of one month meet at the unique key (company, year, month).
CreateInsert(a) ==
    /\ adminPc[a] = "idle"
    /\ ~\E b \in Admins : adminPc[b] = "createCommit" /\ target[b] = target[a]
    /\ AdminGoto(a, IF period[target[a]] = "absent" THEN "createCommit" ELSE "done")
    /\ UNCHANGED <<Stored, target, PosterVars>>

CreateCommit(a) ==
    /\ adminPc[a] = "createCommit"
    /\ period' = [period EXCEPT ![target[a]] = "OPEN"]
    /\ AdminGoto(a, "done")
    /\ UNCHANGED <<journal, nextNo, target, PosterVars>>

\* FOR UPDATE waits for every holder of the row; closing twice does nothing.
CloseLock(a) ==
    /\ adminPc[a] = "idle"
    /\ SharersOf(target[a]) = {} /\ ClosersOf(target[a]) = {}
    /\ AdminGoto(a, IF period[target[a]] = "OPEN" THEN "closeCommit" ELSE "done")
    /\ UNCHANGED <<Stored, target, PosterVars>>

CloseCommit(a) ==
    /\ adminPc[a] = "closeCommit"
    /\ period' = [period EXCEPT ![target[a]] = "CLOSED"]
    /\ AdminGoto(a, "done")
    /\ UNCHANGED <<journal, nextNo, target, PosterVars>>

AdminRollback(a) ==
    /\ adminPc[a] \in {"createCommit", "closeCommit"}
    /\ AdminGoto(a, "done")
    /\ UNCHANGED <<Stored, target, PosterVars>>

-------------------------------------------------------------------------------
Begin(t) ==
    \/ \E m \in Months, l \in ManualLines : BeginManual(t, m, l)
    \/ \E s \in Sources : BeginEvent(t, s)
    \/ \E o \in journal, m \in Months : BeginReverse(t, o, m)

Advance(t) ==
    \/ LockPeriod(t)
    \/ AllocateNo(t)
    \/ InsertEntry(t)
    \/ CommitEntry(t)
    \/ CommitNothing(t)

AdminBegin(a) == CreateInsert(a) \/ CloseLock(a)

AdminAdvance(a) == CreateCommit(a) \/ CloseCommit(a)

Finished ==
    /\ \A t \in Posters : pc[t] = "done"
    /\ \A a \in Admins : adminPc[a] = "done"
    /\ UNCHANGED vars

Next ==
    \/ \E t \in Posters : Begin(t) \/ Advance(t) \/ Rollback(t)
    \/ \E a \in Admins : AdminBegin(a) \/ AdminAdvance(a) \/ AdminRollback(a)
    \/ Finished

Spec == Init /\ [][Next]_vars

\* A transaction that has started goes on: its session awaits each statement
\* and PostgreSQL runs a statement when the locks it waits for are free.
Fairness ==
    /\ \A t \in Posters : WF_vars(Advance(t))
    /\ \A a \in Admins : WF_vars(AdminAdvance(a))

FairSpec == Spec /\ Fairness
-------------------------------------------------------------------------------
(* Properties. *)

DraftOf(t) == draft[t] # NoEntry

\* Every variable has its type (models.py of the ledger).
TypeOK ==
    /\ period \in [Months -> {"absent", "OPEN", "CLOSED"}]
    /\ journal \subseteq Entry
    /\ nextNo \in [Years -> Nat \ {0}]
    /\ pc \in [Posters -> {"idle", "period", "number", "insert", "commit", "done"}]
    /\ draft \in [Posters -> Entry \cup {NoEntry}]
    /\ adminPc \in [Admins -> {"idle", "createCommit", "closeCommit", "done"}]
    /\ target \in [Admins -> Months]

\* ADR-005 R2, "no missing voucher numbers": whatever commits, rolls back or
\* returns to a savepoint, the entries of a year carry 1, 2, ..., n, each once.
GaplessNumbering ==
    \A y \in Years :
        /\ Numbers(journal, y) = 1 .. nextNo[y] - 1
        /\ \A d, e \in InYear(journal, y) : d.no = e.no => d = e

\* ADR-003 Decision 3 and ADR-005 R3: an event delivered any number of times,
\* to any transactions at once, posts at most one entry; so does a reversal.
PostedOnce == \A d, e \in journal : SameKey(d, e) => d = e

\* ADR-005 R4: no transaction that commits after a close puts an entry in the
\* closed month, and a closed month stays closed.
ClosedPeriodFrozen ==
    [][\A m \in Months : period[m] = "CLOSED" =>
          /\ period'[m] = "CLOSED"
          /\ \A e \in journal' \ journal : e.month # m]_<<period, journal>>

\* The code implements the abstract book of entries.
Book == INSTANCE Journal

ImplementsJournal == Book!Spec

\* The lock order (period row, sequence row, unique key) has no cycle: under
\* fairness every transaction that has started ends.
EveryRequestEnds ==
    /\ \A t \in Posters : pc[t] # "idle" ~> pc[t] = "done"
    /\ \A a \in Admins : adminPc[a] # "idle" ~> adminPc[a] = "done"

-------------------------------------------------------------------------------
(* The inductive invariant behind the theorems of LedgerProofs. *)

DraftShape ==
    \A t \in Posters :
        /\ pc[t] \in {"idle", "done"} => draft[t] = NoEntry
        /\ pc[t] \in {"period", "number", "insert"} => DraftOf(t)
        /\ DraftOf(t) => draft[t].id = t
        /\ \A e \in journal : e.id = t => pc[t] = "done"

\* The two row locks exclude what they should.
LockInv ==
    /\ \A t \in Posters, a \in Admins :
          ~(\E m \in Months : t \in SharersOf(m) /\ a \in ClosersOf(m))
    /\ \A y \in Years : \A t, u \in NumberersOf(y) : t = u
    /\ \A a, b \in Admins : /\ target[a] = target[b]
                           /\ adminPc[a] = adminPc[b]
                           /\ adminPc[a] \in {"createCommit", "closeCommit"}
                           => a = b

\* What a transaction read under its locks is still so when it commits.
ReadStillHolds ==
    /\ \A m \in Months : SharersOf(m) # {} => period[m] = "OPEN"
    /\ \A y \in Years : \A t \in NumberersOf(y) : draft[t].no = nextNo[y]
    /\ \A t \in Inserters : ~Clashes(draft[t])
    /\ \A t, u \in Inserters : SameKey(draft[t], draft[u]) => t = u
    /\ \A a \in Admins :
          /\ adminPc[a] = "createCommit" => period[target[a]] = "absent"
          /\ adminPc[a] = "closeCommit" => period[target[a]] = "OPEN"

\* What validation establishes, by the kind of entry.
LegalDraft(d) ==
    /\ Touched(d.lines) \subseteq Chart
    /\ IsManual(d) => Touched(d.lines) \cap Control = {}
    /\ IsReversal(d) =>
          /\ d.source = NoSource
          /\ \E o \in journal :
                /\ o.id = d.reverses
                /\ ~IsReversal(o)
                /\ Touched(o.lines) \cap Control = {}
                /\ d.lines = Swap(o.lines)

DraftsLegal == \A t \in Posters : DraftOf(t) => LegalDraft(draft[t])

EntriesLegal == \A e \in journal : Touched(e.lines) \subseteq Chart

\* Everything a committing transaction relies on, whatever ran in between.
LedgerInv ==
    /\ TypeOK
    /\ GaplessNumbering
    /\ PostedOnce
    /\ DraftShape
    /\ LockInv
    /\ ReadStillHolds
    /\ DraftsLegal
    /\ EntriesLegal
===============================================================================
