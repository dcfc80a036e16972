-------------------------------- MODULE Replay ---------------------------------
(***************************************************************************)
(* The outbox and its replay command (app/core/events.py,                  *)
(* app/cli/replay_outbox.py), with the two handlers of sales.goods_shipped *)
(* in subscription order: stock, then posting. A request's transaction and *)
(* the transaction of one replayed row are single steps here (modules      *)
(* Stock and Ledger hold their interleavings); the count that precedes a   *)
(* row's handlers is a step of its own. There is one product.              *)
(***************************************************************************)
EXTENDS Integers, Sequences, FiniteSets, SequencesExt

CONSTANTS
    Rows,           \* outbox rows; a row stands for its shipment too
    Old,            \* the sequence of rows an earlier release has left
    Malformed,      \* the rows among them without a usable company_id
    Qty, Cost,      \* what a row ships, and the total cost it quotes
    Period,         \* the accounting period of a row's shipment
    Closable,       \* the periods that may be closed in the run
    Deltas,         \* stock adjustments
    Opening,        \* on_hand before the run
    MaxOnHand,      \* bound on the stock, for TLC
    Runs,           \* runs of the command
    Inline          \* the doer of what a request did itself

ASSUME ReplayAssumption ==
    /\ Old \in Seq(Rows) /\ Malformed \subseteq Range(Old)
    /\ Qty \in [Rows -> Nat] /\ Cost \in [Rows -> Nat]
    /\ Deltas \subseteq Int /\ Opening \in Nat /\ MaxOnHand \in Nat
    /\ Inline \notin Runs

VARIABLES
    outbox,         \* the rows by occurred_at
    dispatched,     \* the rows whose dispatched_at is set
    onHand,         \* stock_summary.on_hand
    moves,          \* stock_moves of shipments: the row, and who wrote them
    entries,        \* journal_entries of shipments, likewise
    closed,         \* the closed periods
    phase, todo,    \* per run: how far it is, and the rows still to do
    snapshot,       \* the rows it selected
    before,         \* its count of the first row's effects, or NotCounted
    succeeded, skipped, failed   \* its summary

Ledgers == <<moves, entries>>
Shop == <<outbox, onHand, closed>>
Summary == <<succeeded, skipped, failed>>
RunVars == <<phase, todo, snapshot, before, Summary>>
replayVars == <<Shop, Ledgers, dispatched, RunVars>>

NotCounted == -1

-------------------------------------------------------------------------------
(* Effects of a shipment. *)

Moved(s) == \E m \in moves : m.row = s

Posted(s) == \E e \in entries : e.row = s

\* Mutant: only journal entries are counted, as before stock was a consumer.
EffectsOfJournalOnly(ms, es, s) == Cardinality({e \in es : e.row = s})

\* _count_effects sums both source-keyed tables.
EffectsOf(ms, es, s) ==
    Cardinality({m \in ms : m.row = s}) + Cardinality({e \in es : e.row = s})

\* Everything the handlers of the row ever do is there.
Done(s) == Moved(s) /\ (Cost[s] > 0 => Posted(s))

\* handle_goods_shipped checks the stock before it meets the unique index, and
\* handle_posting_event, which skips a zero cost, checks the period before.
Accepted(s) ==
    /\ onHand >= Qty[s]
    /\ Cost[s] > 0 => Period[s] \notin closed

\* Mutant: nothing keeps a second move of the same shipment out.
DeductAgain(s, who) ==
    /\ moves' = moves \cup {[row |-> s, by |-> who]}
    /\ onHand' = onHand - Qty[s]

Deduct(s, who) ==
    IF Moved(s) THEN UNCHANGED <<moves, onHand>>
    ELSE /\ moves' = moves \cup {[row |-> s, by |-> who]}
         /\ onHand' = onHand - Qty[s]

Post(s, who) ==
    entries' = IF Cost[s] > 0 /\ ~Posted(s)
               THEN entries \cup {[row |-> s, by |-> who]} ELSE entries

Dispatch(s, who) ==
    /\ Accepted(s)
    /\ Deduct(s, who)
    /\ Post(s, who)

-------------------------------------------------------------------------------
\* Old rows may lack either effect, or both, or none.
ReplayInit ==
    /\ outbox = Old /\ dispatched = {}
    /\ moves \in SUBSET {[row |-> s, by |-> Inline] : s \in Range(Old) \ Malformed}
    /\ entries \in SUBSET {[row |-> s, by |-> Inline] :
                             s \in {o \in Range(Old) \ Malformed : Cost[o] > 0}}
    /\ onHand = Opening /\ closed = {}
    /\ phase = [r \in Runs |-> "idle"]
    /\ todo = [r \in Runs |-> {}]
    /\ snapshot = [r \in Runs |-> {}]
    /\ before = [r \in Runs |-> NotCounted]
    /\ succeeded = [r \in Runs |-> {}]
    /\ skipped = [r \in Runs |-> {}]
    /\ failed = [r \in Runs |-> {}]

-------------------------------------------------------------------------------
(* Requests. *)

\* ship_order: publish inserts the row and dispatches it in one transaction,
\* and never sets dispatched_at.
Ship(s) ==
    /\ s \notin Range(outbox)
    /\ Dispatch(s, Inline)
    /\ outbox' = Append(outbox, s)
    /\ UNCHANGED <<closed, dispatched, RunVars>>

Adjust(d) ==
    /\ onHand + d \in 0..MaxOnHand
    /\ onHand' = onHand + d
    /\ UNCHANGED <<outbox, closed, Ledgers, dispatched, RunVars>>

ClosePeriod(p) ==
    /\ p \notin closed
    /\ closed' = closed \cup {p}
    /\ UNCHANGED <<outbox, onHand, Ledgers, dispatched, RunVars>>

-------------------------------------------------------------------------------
(* replay_outbox *)

Pending == Range(outbox) \ dispatched

StartReplay(r) ==
    /\ phase[r] = "idle"
    /\ phase' = [phase EXCEPT ![r] = "running"]
    /\ todo' = [todo EXCEPT ![r] = Pending]
    /\ snapshot' = [snapshot EXCEPT ![r] = Pending]
    /\ UNCHANGED <<Shop, Ledgers, dispatched, before, Summary>>

Running(r) == phase[r] = "running" /\ todo[r] # {}

\* The rows are taken by occurred_at.
Current(r) == outbox[Min({i \in DOMAIN outbox : outbox[i] \in todo[r]})]

NextRow(r) ==
    /\ todo' = [todo EXCEPT ![r] = @ \ {Current(r)}]
    /\ before' = [before EXCEPT ![r] = NotCounted]

SkipMalformed(r) ==
    /\ Running(r) /\ Current(r) \in Malformed
    /\ failed' = [failed EXCEPT ![r] = @ \cup {Current(r)}]
    /\ NextRow(r)
    /\ UNCHANGED <<Shop, Ledgers, dispatched, phase, snapshot, succeeded, skipped>>

CountBefore(r) ==
    /\ Running(r) /\ Current(r) \notin Malformed
    /\ before[r] = NotCounted
    /\ before' = [before EXCEPT ![r] = EffectsOf(moves, entries, Current(r))]
    /\ UNCHANGED <<Shop, Ledgers, dispatched, phase, todo, snapshot, Summary>>

Redispatch(r) ==
    LET s == Current(r) IN
    /\ Running(r) /\ before[r] # NotCounted
    /\ Dispatch(s, r)
    /\ dispatched' = dispatched \cup {s}
    /\ IF EffectsOf(moves', entries', s) > before[r]
       THEN succeeded' = [succeeded EXCEPT ![r] = @ \cup {s}] /\ UNCHANGED skipped
       ELSE skipped' = [skipped EXCEPT ![r] = @ \cup {s}] /\ UNCHANGED succeeded
    /\ NextRow(r)
    /\ UNCHANGED <<outbox, closed, phase, snapshot, failed>>

\* Mutant: a row that failed goes back to the queue.
FailRowRequeued(r) ==
    /\ Running(r) /\ before[r] # NotCounted
    /\ ~Accepted(Current(r))
    /\ failed' = [failed EXCEPT ![r] = @ \cup {Current(r)}]
    /\ before' = [before EXCEPT ![r] = NotCounted]
    /\ UNCHANGED <<Shop, Ledgers, dispatched, phase, todo, snapshot, succeeded, skipped>>

\* Mutant: dispatched_at is committed ahead of the handlers.
FailRowDispatched(r) ==
    /\ Running(r) /\ before[r] # NotCounted
    /\ ~Accepted(Current(r))
    /\ failed' = [failed EXCEPT ![r] = @ \cup {Current(r)}]
    /\ dispatched' = dispatched \cup {Current(r)}
    /\ NextRow(r)
    /\ UNCHANGED <<Shop, Ledgers, phase, snapshot, succeeded, skipped>>

\* A handler raised: this row's transaction is rolled back, and only it.
FailRow(r) ==
    /\ Running(r) /\ before[r] # NotCounted
    /\ ~Accepted(Current(r))
    /\ failed' = [failed EXCEPT ![r] = @ \cup {Current(r)}]
    /\ NextRow(r)
    /\ UNCHANGED <<Shop, Ledgers, dispatched, phase, snapshot, succeeded, skipped>>

EndReplay(r) ==
    /\ phase[r] = "running" /\ todo[r] = {}
    /\ phase' = [phase EXCEPT ![r] = "done"]
    /\ UNCHANGED <<Shop, Ledgers, dispatched, todo, snapshot, before, Summary>>

\* The process dies between two statements; the open transaction is lost.
Crash(r) ==
    /\ phase[r] = "running"
    /\ phase' = [phase EXCEPT ![r] = "dead"]
    /\ UNCHANGED <<Shop, Ledgers, dispatched, todo, snapshot, before, Summary>>

-------------------------------------------------------------------------------
AdvanceRun(r) ==
    \/ SkipMalformed(r)
    \/ CountBefore(r)
    \/ Redispatch(r)
    \/ FailRow(r)
    \/ EndReplay(r)

ShopRequests ==
    \/ \E s \in Rows : Ship(s)
    \/ \E d \in Deltas : Adjust(d)
    \/ \E p \in Closable : ClosePeriod(p)

ReplayNext ==
    \/ ShopRequests
    \/ \E r \in Runs : StartReplay(r) \/ AdvanceRun(r) \/ Crash(r)

ReplaySpec == ReplayInit /\ [][ReplayNext]_replayVars

\* A run goes on as long as its process lives.
FairReplaySpec == ReplaySpec /\ \A r \in Runs : WF_replayVars(AdvanceRun(r))

-------------------------------------------------------------------------------
(* Properties. *)

Effect == [row : Rows, by : Runs \cup {Inline}]

ReplayTypeOK ==
    /\ outbox \in Seq(Rows) /\ dispatched \subseteq Range(outbox)
    /\ onHand \in Nat
    /\ moves \subseteq Effect /\ entries \subseteq Effect
    /\ closed \subseteq Closable
    /\ phase \in [Runs -> {"idle", "running", "done", "dead"}]
    /\ before \in [Runs -> 0..2 \cup {NotCounted}]
    /\ \A v \in {todo, snapshot, succeeded, skipped, failed} : v \in [Runs -> SUBSET Rows]

OneDoer(effects) == \A e, f \in effects : e.row = f.row => e = f

\* ADR-003 Decision 3 and ADR-007 Decision 4: whoever dispatches a row, how
\* often and in how many runs at once, its stock and its cost are booked once.
EffectsOnce == OneDoer(moves) /\ OneDoer(entries)

\* ADR-004 R1: a row leaves the queue, or was published, only with every
\* effect its handlers owe, so that no shipment is left without its cost.
NothingLost ==
    /\ \A s \in dispatched : s \notin Malformed /\ Done(s)
    /\ \A s \in Range(outbox) \ Range(Old) : Done(s)

\* ADR-004 R3: a poison row aborts only itself, and the summary hides nothing. A
\* run that ended has accounted for each row it selected, once, and has dispatched
\* those that did not fail; a row whose stock or entry a run wrote is reported as
\* succeeded, never as skipped.
SummaryTrue ==
    \A r \in Runs :
        /\ phase[r] = "done" =>
             /\ succeeded[r] \cup skipped[r] \cup failed[r] = snapshot[r]
             /\ succeeded[r] \cap skipped[r] = {}
             /\ (succeeded[r] \cup skipped[r]) \cap failed[r] = {}
             /\ snapshot[r] \ failed[r] \subseteq dispatched
        /\ \A e \in moves \cup entries : e.by = r => e.row \in succeeded[r]

\* A run ends: every row it selected is tried once.
ReplayEnds == \A r \in Runs : phase[r] = "running" ~> phase[r] \in {"done", "dead"}

\* replay_outbox.py: "replaying an already-successfully-replayed row ... is
\* always safe to re-run": a row with all its effects does not fail.
SafeToRerun ==
    [][\A r \in Runs : \A s \in failed'[r] \ failed[r] : s \in Malformed \/ ~Done(s)]_replayVars
-------------------------------------------------------------------------------
(* The inductive invariant. *)

\* Every row a run selected is still to do or in one list of its summary; a row
\* that has been counted is well formed and has lost no effect since.
Accounted(r) ==
    /\ phase[r] = "idle" => snapshot[r] = {}
    /\ phase[r] = "done" => todo[r] = {}
    /\ snapshot[r] = todo[r] \cup succeeded[r] \cup skipped[r] \cup failed[r]
    /\ snapshot[r] \subseteq Range(outbox)
    /\ todo[r] \cap (succeeded[r] \cup skipped[r] \cup failed[r]) = {}
    /\ succeeded[r] \cap skipped[r] = {}
    /\ (succeeded[r] \cup skipped[r]) \cap failed[r] = {}
    /\ succeeded[r] \cup skipped[r] \subseteq dispatched
    /\ before[r] # NotCounted =>
          /\ todo[r] # {} /\ Current(r) \notin Malformed
          /\ before[r] <= EffectsOf(moves, entries, Current(r))
    /\ \A e \in moves \cup entries : e.by = r => e.row \in succeeded[r]

ReplayInv ==
    /\ ReplayTypeOK /\ EffectsOnce /\ NothingLost
    /\ \A r \in Runs : Accounted(r)
===============================================================================
