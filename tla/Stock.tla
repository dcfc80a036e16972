--------------------------------- MODULE Stock ---------------------------------
(***************************************************************************)
(* The inventory module as its database transactions run it: one step per  *)
(* statement another transaction can notice, committed state apart from    *)
(* what a transaction has written and not committed.                       *)
(*                                                                         *)
(*   Writers     handle_goods_shipped, in the transaction that ships an    *)
(*               order or replays its event, and create_adjustment         *)
(*   Rebuilders  rebuild_stock_summary for this company                    *)
(*                                                                         *)
(* A writer shares the advisory lock of the company and has the row lock   *)
(* of every product in rows[t]; a rebuild has the advisory lock alone.     *)
(* Every transaction runs once.                                            *)
(***************************************************************************)
EXTENDS StockData

CONSTANTS
    Rebuilders,     \* runs of the rebuild command
    Summaries,      \* the summaries a run may start with
    Missing         \* no stock_summary row

\* The CHECK constraint of stock_summary holds from the start.
ASSUME SummariesAssumption ==
    Missing \notin Int /\ Summaries \subseteq [Products -> Nat \cup {Missing}]

VARIABLES
    moves,      \* committed stock_moves
    summary,    \* committed stock_summary.on_hand of each product
    pc,         \* the statement each writer runs next
    job,        \* the moves it has to write
    draft,      \* the moves it has written
    rows,       \* the summary rows it has locked, with their new on_hand
    rpc,        \* the statement each rebuild runs next
    existing,   \* the rows it found and locked
    totals,     \* the sums it computed
    trusted     \* history: the summary was right at the start, or has been rebuilt

vars == <<moves, summary, pc, job, draft, rows, rpc, existing, totals, trusted>>
WriterVars == <<pc, job, draft, rows>>
RebuildVars == <<rpc, existing, totals>>
Stored == <<moves, summary, trusted>>

\* on_hand as a reader of the committed summary sees it.
OnHand(p) == IF summary[p] = Missing THEN 0 ELSE summary[p]

Accurate == \A p \in Products : OnHand(p) = Total(moves, p)

\* No row locked, no sum computed.
NoRows == [p \in Products |-> Missing]

Init ==
    /\ moves = Opening
    /\ summary \in Summaries
    /\ pc = [t \in Writers |-> "idle"]
    /\ job = [t \in Writers |-> {}]
    /\ draft = [t \in Writers |-> {}]
    /\ rows = [t \in Writers |-> NoRows]
    /\ rpc = [r \in Rebuilders |-> "idle"]
    /\ existing = [r \in Rebuilders |-> {}]
    /\ totals = [r \in Rebuilders |-> NoRows]
    /\ trusted = Accurate

-------------------------------------------------------------------------------
(* Locks. *)

SharedHolders == {t \in Writers : rows[t] # NoRows}

ExclusiveHolders == {r \in Rebuilders : rpc[r] \in {"rows", "sum", "write"}}

RowHolders(p) == {t \in Writers : rows[t][p] # Missing}

RowRebuilders(p) == {r \in Rebuilders : p \in existing[r]}

-------------------------------------------------------------------------------
(* Writers. *)

Goto(t, where) == pc' = [pc EXCEPT ![t] = where]

\* Releases what t has locked and written: at its end, or back to the savepoint.
Release(t) ==
    /\ draft' = [draft EXCEPT ![t] = {}]
    /\ rows' = [rows EXCEPT ![t] = NoRows]

BeginDelivery(t, s) ==
    /\ pc[t] = "idle"
    /\ job' = [job EXCEPT ![t] = Batch(t, s)]
    /\ Goto(t, "lock")
    /\ UNCHANGED <<Stored, draft, rows, RebuildVars>>

\* The move of an adjustment.
Single(t, a) == {[by |-> t, product |-> a.product, delta |-> a.delta, source |-> NoShipment]}

BeginAdjustment(t, a) ==
    /\ pc[t] = "idle"
    /\ job' = [job EXCEPT ![t] = Single(t, a)]
    /\ Goto(t, "lock")
    /\ UNCHANGED <<Stored, draft, rows, RebuildVars>>

\* Mutant: the products are taken in any order, one at a time.
IsNextAny(t, m) ==
    /\ m \in job[t] \ draft[t]
    /\ \A n \in job[t] \ draft[t] : rows[t][n.product] # Missing => n = m

\* The products of a batch are taken in ascending order.
IsNext(t, m) ==
    /\ m \in job[t] \ draft[t]
    /\ \A n \in job[t] \ draft[t] : m.product <= n.product

\* Mutant: the row is read without a lock.
LockSummaryPlainRead(t, m) ==
    /\ pc[t] = "lock" /\ IsNext(t, m)
    /\ rows' = [rows EXCEPT ![t][m.product] = OnHand(m.product)]
    /\ Goto(t, "write")
    /\ UNCHANGED <<Stored, job, draft, RebuildVars>>

\* get_or_lock_summary: the shared lock, the row if it was missing, its lock.
LockSummary(t, m) ==
    /\ pc[t] = "lock" /\ IsNext(t, m)
    /\ ExclusiveHolders = {}
    /\ RowHolders(m.product) \subseteq {t}
    /\ rows' = [rows EXCEPT ![t][m.product] = IF @ = Missing THEN OnHand(m.product) ELSE @]
    /\ Goto(t, "write")
    /\ UNCHANGED <<Stored, job, draft, RebuildVars>>

Sufficient(t, m) == rows[t][m.product] + m.delta >= 0

\* Mutant: no unique index on the source of a move.
DuplicateNever(t, m) == m.source # NoShipment /\ m \in draft[t]

\* The unique index uq_stock_moves_source. No uncommitted move of the same key
\* is ever in the way: its writer has the product's row.
Duplicate(t, m) ==
    /\ m.source # NoShipment
    /\ \E n \in moves \cup draft[t] : n.source = m.source /\ n.product = m.product

WriteMove(t, m) ==
    /\ pc[t] = "write" /\ IsNext(t, m)
    /\ Sufficient(t, m) /\ ~Duplicate(t, m)
    /\ draft' = [draft EXCEPT ![t] = @ \cup {m}]
    /\ rows' = [rows EXCEPT ![t][m.product] = @ + m.delta]
    /\ Goto(t, IF job[t] = draft'[t] THEN "commit" ELSE "lock")
    /\ UNCHANGED <<Stored, job, RebuildVars>>

\* InsufficientStockError ends the whole transaction, the order stays as it was.
RefuseShortage(t, m) ==
    /\ pc[t] = "write" /\ IsNext(t, m)
    /\ ~Sufficient(t, m)
    /\ Release(t)
    /\ Goto(t, "failed")
    /\ UNCHANGED <<Stored, job, RebuildVars>>

\* A conflict rolls the savepoint back: the batch is skipped as a unit, its
\* locks go, and the transaction around it goes on.
SkipBatch(t, m) ==
    /\ pc[t] = "write" /\ IsNext(t, m)
    /\ Sufficient(t, m) /\ Duplicate(t, m)
    /\ Release(t)
    /\ Goto(t, "commit")
    /\ UNCHANGED <<Stored, job, RebuildVars>>

CommitWriter(t) ==
    /\ pc[t] = "commit"
    /\ moves' = moves \cup draft[t]
    /\ summary' = [p \in Products |->
                      IF rows[t][p] = Missing THEN summary[p] ELSE rows[t][p]]
    /\ Release(t)
    /\ Goto(t, "committed")
    /\ UNCHANGED <<job, trusted, RebuildVars>>

\* The caller fails later on, for instance in the posting engine, or dies.
RollbackWriter(t) ==
    /\ pc[t] \in {"lock", "write", "commit"}
    /\ Release(t)
    /\ Goto(t, "failed")
    /\ UNCHANGED <<Stored, job, RebuildVars>>

-------------------------------------------------------------------------------
(* _rebuild_company. *)

RebuildGoto(r, where) == rpc' = [rpc EXCEPT ![r] = where]

BeginRebuild(r) ==
    /\ rpc[r] = "idle"
    /\ SharedHolders = {} /\ ExclusiveHolders = {}
    /\ RebuildGoto(r, "rows")
    /\ UNCHANGED <<Stored, existing, totals, WriterVars>>

LockRows(r) ==
    /\ rpc[r] = "rows"
    /\ \A p \in Products : summary[p] # Missing => RowHolders(p) = {} /\ RowRebuilders(p) = {}
    /\ existing' = [existing EXCEPT ![r] = {p \in Products : summary[p] # Missing}]
    /\ RebuildGoto(r, "sum")
    /\ UNCHANGED <<Stored, totals, WriterVars>>

SumMoves(r) ==
    /\ rpc[r] = "sum"
    /\ totals' = [totals EXCEPT ![r] =
                    [p \in Products |-> IF \E m \in moves : m.product = p
                                       THEN Total(moves, p) ELSE Missing]]
    /\ RebuildGoto(r, "write")
    /\ UNCHANGED <<Stored, existing, WriterVars>>

Ended(r, how) ==
    /\ existing' = [existing EXCEPT ![r] = {}]
    /\ totals' = [totals EXCEPT ![r] = NoRows]
    /\ RebuildGoto(r, how)

Rebuilt(r, p) == IF totals[r][p] = Missing THEN 0 ELSE totals[r][p]

\* Mutant: only the rows that exist are written.
WriteTotalsExisting(r) ==
    /\ rpc[r] = "write"
    /\ \A p \in existing[r] : Rebuilt(r, p) >= 0
    /\ summary' = [p \in Products |->
                      IF p \in existing[r] THEN Rebuilt(r, p) ELSE summary[p]]
    /\ Ended(r, "rebuilt")
    /\ trusted' = TRUE
    /\ UNCHANGED <<moves, WriterVars>>

\* Every product with a row or with moves gets its sum.
WriteTotals(r) ==
    LET written == existing[r] \cup {p \in Products : totals[r][p] # Missing} IN
    /\ rpc[r] = "write"
    /\ \A p \in written : Rebuilt(r, p) >= 0
    /\ summary' = [p \in Products |->
                      IF p \in written THEN Rebuilt(r, p) ELSE summary[p]]
    /\ Ended(r, "rebuilt")
    /\ trusted' = TRUE
    /\ UNCHANGED <<moves, WriterVars>>

\* A negative sum breaks ck_stock_summary_on_hand_nonneg.
RefuseTotals(r) ==
    /\ rpc[r] = "write"
    /\ \E p \in Products : Rebuilt(r, p) < 0
    /\ Ended(r, "failed")
    /\ UNCHANGED <<Stored, WriterVars>>

\* The command is interrupted.
RollbackRebuild(r) ==
    /\ rpc[r] \in {"rows", "sum", "write"}
    /\ Ended(r, "failed")
    /\ UNCHANGED <<Stored, WriterVars>>

-------------------------------------------------------------------------------
Begin(t) ==
    \/ \E s \in Shipments : BeginDelivery(t, s)
    \/ \E a \in Adjustments : BeginAdjustment(t, a)

Advance(t) ==
    \/ \E m \in job[t] :
          \/ LockSummary(t, m)
          \/ WriteMove(t, m)
          \/ RefuseShortage(t, m)
          \/ SkipBatch(t, m)
    \/ CommitWriter(t)

AdvanceRebuild(r) ==
    \/ LockRows(r)
    \/ SumMoves(r)
    \/ WriteTotals(r)
    \/ RefuseTotals(r)

Finished ==
    /\ \A t \in Writers : pc[t] \in {"committed", "failed"}
    /\ \A r \in Rebuilders : rpc[r] \in {"rebuilt", "failed"}
    /\ UNCHANGED vars

Next ==
    \/ \E t \in Writers : Begin(t) \/ Advance(t) \/ RollbackWriter(t)
    \/ \E r \in Rebuilders : BeginRebuild(r) \/ AdvanceRebuild(r) \/ RollbackRebuild(r)
    \/ Finished

Spec == Init /\ [][Next]_vars

\* A statement runs when the locks it waits for are free.
Fairness ==
    /\ \A t \in Writers : WF_vars(Advance(t))
    /\ \A r \in Rebuilders : WF_vars(BeginRebuild(r)) /\ WF_vars(AdvanceRebuild(r))

FairSpec == Spec /\ Fairness
-------------------------------------------------------------------------------
(* Properties. *)

\* ADR-007 Decision 2 and R2: on_hand is the sum of the product's moves, whatever
\* shipments, adjustments and rebuilds run at once, and a summary that had drifted
\* or lost rows is right, and stays so, once a rebuild has committed.
OnHandIsTotal == trusted => Accurate

Delivers(t, s) == pc[t] = "committed" /\ \E m \in job[t] : m.source = s

\* ADR-007 Decision 4: the moves of a shipment are exactly its quantity per
\* product, or none; and none is impossible once a delivery of it committed.
DeductedOnce ==
    \A s \in Shipments :
        LET ms == MovesOf(moves, s) IN
        \/ ms = {} /\ ~\E t \in Writers : Delivers(t, s)
        \/ /\ {m.product : m \in ms} = ProductsOf(s)
           /\ \A m \in ms : m.delta = -QtyOf(s, m.product)
           /\ Cardinality(ms) = Cardinality(ProductsOf(s))

\* The transactions of the code implement the abstract warehouse.
Held == [p \in Products |-> Total(moves, p)]

Delivered == {s \in Shipments : MovesOf(moves, s) # {}}

Store == INSTANCE Warehouse WITH stock <- Held, delivered <- Delivered

ImplementsWarehouse == Store!Spec

\* The advisory lock and the ascending row locks have no cycle: whatever has
\* started ends.
EveryTransactionEnds ==
    /\ \A t \in Writers : pc[t] # "idle" ~> pc[t] \in {"committed", "failed"}
    /\ \A r \in Rebuilders : rpc[r] = "idle" ~> rpc[r] \in {"rebuilt", "failed"}
-------------------------------------------------------------------------------
(* The inductive invariant.                                                   *)

MoveType == [by : Writers \cup {NoWriter}, product : Products, delta : Int,
             source : Shipments \cup {NoShipment}]

Counts == [Products -> Int \cup {Missing}]

TypeOK ==
    /\ moves \subseteq MoveType /\ IsFiniteSet(moves)
    /\ summary \in Counts
    /\ pc \in [Writers -> {"idle", "lock", "write", "commit", "committed", "failed"}]
    /\ job \in [Writers -> SUBSET MoveType]
    /\ draft \in [Writers -> SUBSET MoveType]
    /\ rows \in [Writers -> Counts]
    /\ rpc \in [Rebuilders -> {"idle", "rows", "sum", "write", "rebuilt", "failed"}]
    /\ existing \in [Rebuilders -> SUBSET Products]
    /\ totals \in [Rebuilders -> Counts]
    /\ trusted \in BOOLEAN

\* What a writer has been asked for: the batch of a shipment, or an adjustment.
Asked(t) ==
    pc[t] # "idle" =>
       \/ \E s \in Shipments : job[t] = Batch(t, s)
       \/ \E a \in Adjustments : job[t] = Single(t, a)

Locked(t) == {p \in Products : rows[t][p] # Missing}

\* What it has written of it, and the rows it has locked for that.
Written(t) ==
    /\ draft[t] \subseteq job[t]
    /\ \A m \in draft[t] : m.product \in Locked(t) /\ rows[t][m.product] >= 0
    /\ pc[t] \in {"idle", "committed", "failed"} => Locked(t) = {}
    /\ pc[t] = "write" => \A m \in job[t] : IsNext(t, m) => m.product \in Locked(t)
    /\ pc[t] = "commit" => draft[t] \in {job[t], {}}

\* A locked row has the committed count and the move written to it.
Counted(t) ==
    \A p \in Locked(t) :
       /\ \A m \in draft[t] : m.product = p => rows[t][p] = OnHand(p) + m.delta
       /\ (\A m \in draft[t] : m.product # p) => rows[t][p] = OnHand(p)

\* The moves of a shipment are new, and those of a batch that was skipped there.
NewOrThere(t) ==
    /\ \A m \in draft[t], n \in moves :
          m.source = n.source /\ m.product = n.product => m.source = NoShipment
    /\ (pc[t] = "commit" /\ draft[t] # job[t]) \/ pc[t] = "committed" =>
          \A m \in job[t] : m.source # NoShipment => MovesOf(moves, m.source) # {}

\* A row has one holder. A rebuild is alone.
Excluded ==
    /\ \A t, u \in Writers : t # u => Locked(t) \cap Locked(u) = {}
    /\ \A r \in ExclusiveHolders : \A t \in Writers : Locked(t) = {}
    /\ \A q, r \in ExclusiveHolders : q = r

\* A rebuild knows which rows there are, and what to write.
Counting(r) ==
    /\ rpc[r] \in {"sum", "write"} => existing[r] = {p \in Products : summary[p] # Missing}
    /\ rpc[r] = "write" =>
          \A p \in Products : totals[r][p] = IF \E m \in moves : m.product = p
                                             THEN Total(moves, p) ELSE Missing

\* A move is there because its writer has committed, and with its batch.
Committed ==
    /\ \A m \in moves : m.by \in Writers => pc[m.by] = "committed"
    /\ \A s \in Shipments :
          \/ MovesOf(moves, s) = {}
          \/ \E t \in Writers \cup {NoWriter} : MovesOf(moves, s) = Batch(t, s)

StockInv ==
    /\ TypeOK /\ Excluded /\ Committed /\ OnHandIsTotal
    /\ \A t \in Writers : Asked(t) /\ Written(t) /\ Counted(t) /\ NewOrThere(t)
    /\ \A r \in Rebuilders : Counting(r)
===============================================================================
