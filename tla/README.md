# Verification of mini-ERP

mini-ERP is an order-to-cash back end: FastAPI routes over SQLAlchemy sessions
on PostgreSQL at READ COMMITTED. What keeps its books right is not in any one
function. It is in row locks, advisory locks, savepoints, unique indexes and the
order in which many transactions meet them, and a unit test meets very few of
these orders. The modules here model these transactions statement by statement,
and with them the logins in front, the plugins inside, the commands that provision
a database and the migrations below; TLC explores every interleaving of a few of
them, and TLAPS proves the most important results for any number.

Run a model with `tlc -config MCLedger.cfg MCLedger`, a proof with
`tlapm LedgerProofs.tla`.

## 1. The system

Paths are below `src/app/` unless they begin with `alembic` or `scripts`.

| Component | State it keeps | Operations | Talks to |
|---|---|---|---|
| Ledger, `modules/ledger/service.py` | periods, journal entries, one number sequence per year | create and close a period; post; reverse | called by the routes and the posting engine |
| Posting engine, `modules/ledger/posting.py` | none | turn an event into an entry, at most once per source, inside a savepoint | handler of the event bus; calls the ledger |
| Inventory, `modules/inventory/service.py` | stock moves (append-only), a summary of stock on hand | adjust; deduct a shipment | handler of `sales.goods_shipped` |
| Stock rebuild, `cli/rebuild_stock_summary.py` | none | recompute the summary from the moves | shares the company's advisory lock with inventory |
| Sales, `modules/sales/service.py` | orders with lines, one number sequence per year | create, edit, confirm, ship, cancel | publishes `order_confirmed`, `goods_shipped`; runs the confirm hook |
| Credit limit plugin, `plugins/credit_limit.py` | none | refuse a confirmation beyond the limit | locks the customer, reads receivables and sales |
| Receivables, `modules/receivables/service.py` | invoices, payments, allocation commands, two maintained balances, two number sequences | issue and void an invoice; receive, allocate and void a payment; aging report | publishes four events the posting engine books |
| Receivables rebuild, `cli/rebuild_ar_balances.py` | none | recompute the two balances | locks every payment and invoice |
| Event bus and outbox, `core/events.py` | `outbox_events` | publish: store and run the handlers in the publisher's transaction | all of the above |
| Outbox replay, `cli/replay_outbox.py` | `dispatched_at` | run the handlers of undispatched rows, a transaction each | the handlers |
| Plugin loader, `platform/plugins/loader.py` | the loaded manifests of the process | check and order the manifests at startup | registers hooks and event handlers |
| Plugin service, `platform/plugins/service.py` | `company_plugins` | enable, disable, configure for a company; the gate around handlers | locks the company row |
| Master data, `modules/masterdata` | companies, customers, products, accounts | create, edit | read by all, locked by the plugin service and the credit hook |
| Plugin port and hooks, `core/plugins.py`, `core/hooks.py` | registries filled at startup | fire a hook or an event: the handlers in order, each behind the gate | called by sales and the event bus |
| Permissions and sessions, `platform/permissions/service.py`, `router.py`, `core/authorization.py` | users, sessions, who may act for which company | login, resolve a token, check a permission, switch company, logout | in front of every route |
| Rate limiter and middleware, `platform/permissions/middleware.py`, `main.py` | recent logins per peer; free slots for verifying passwords; both in memory | admit or refuse a login | in front of login |
| First administrator, `cli/bootstrap_admin.py` | none | make currency, company, administrator and grant in one transaction | the same tables as the routes |
| Demo and administration commands, `cli/seed_demo.py`, `demo_o2c.py`, `manage_companies.py`, `manage_reference_data.py` | none: what is there tells how far they got | provision a database, one transaction or request for each row | every module's tables, `demo_o2c` over HTTP |
| Migrations, `alembic/env.py`, `alembic/versions` | the schema and its revision | upgrade and downgrade, each command one transaction | run before the program |
| Custom fields, `core/customfields.py` | none | a port nothing registers with | everywhere |
| Tenancy and sessions of the database, `core/db.py`, `core/tenancy.py` | context variables | filters, rollback | everywhere |
| Release gate, `scripts/d5_security_gate.py` | none | compares reports in continuous integration | nothing that runs |

What is hard in each, and what makes it correct:

- **Ledger.** A post races with the close of its period; entry numbers must have
  no gap although transactions, and savepoints within them, roll back; a source
  or a reversal must be booked once although two transactions try at once.
- **Inventory.** The same shipment may be delivered twice, at once; an order may
  name a product on several lines; a second product may be short after the first
  was deducted; a rebuild must not miss a row that is being created.
- **Sales.** Any two of edit, confirm, ship and cancel may meet on one order;
  prices move between draft and confirmation; two orders share one credit limit.
- **Receivables.** Allocations compete for what an invoice and a payment have
  left, are retried by their clients, and race with voids and rebuilds; the
  control account must agree with the subledger throughout; locks of three kinds
  must be taken in one order.
- **Replay.** A row is run again, by several runs, after crashes, in a world that
  has changed since.
- **Plugins.** The prerequisite relation spans rows that do not exist yet, and
  survives restarts with other settings. One firing of a hook asks for the rows of
  several plugins, one after the other and without a lock.
- **Sessions.** A token, its user and the entitlement are read by statements with
  a snapshot each, while sessions expire and are deleted and an operator disables
  users. A switch of company may meet a logout; a login may fail while it holds
  one of the few slots for verifying passwords.
- **Provisioning.** The commands run at the same time as each other and as the
  program, are killed and run again, and must neither make anything twice nor
  give up because of a race they could recover from.
- **Migrations.** A downgrade must undo its upgrade to the last type; an enum label
  may not be used in the transaction that adds it; a column that a downgrade drops
  is filled again from the outbox by the next upgrade.

## 2. How the modules model it

Conventions shared by all modules that model transactions:

- A **process** is a database transaction (a request). It takes one step per SQL
  statement that reads, locks or writes something another transaction can see.
  Statements nobody else can notice are folded into their neighbour. Each
  transaction serves one request in a run.
- **Committed state** is in variables named after tables (`journal`, `moves`,
  `order`, `invoice`, ...). What a transaction has written and not committed is in
  a variable of its own (`draft`, `mine`, `inv`, `pay`, `new`). READ COMMITTED is
  this: a statement sees the committed variables as they are when it runs.
- **Locks** are not variables but are computed from where the transactions are
  (`SharersOf`, `RowHolders`, `SequenceHolders`, `Holders`, ...). A statement that
  needs a lock is enabled only when the others' locks permit it. All end with
  their transaction, or at the rollback to the savepoint they were taken after.
- **Unique indexes** make an insert wait for a transaction that has inserted the
  same key and has not ended (`MustWait`, `KeyWriters`), and then fail or not.
- Every request may **roll back** at any statement: a failing handler, a lost
  connection, a crash of the process.
- Definitions introduced by the comment "Mutant" are deliberate bugs. No run uses
  them; each replaces its correct neighbour to show that a property notices.

### Ledger

`JournalData` holds entries and what makes one valid: balanced lines as a
function from accounts to signed amounts, accounts of the chart, the control
account, reversal as negated lines. `Journal` is the abstract specification, an
append-only book to which each whole transaction adds one legal entry.
`Ledger` is the code.

| In the module | In the code |
|---|---|
| `BeginManual`, `BeginEvent`, `BeginReverse` | validation before the first lock, by kind of entry |
| `LockPeriod` | `_resolve_and_lock_period`: `FOR SHARE` on the period |
| `AllocateNo` | `_allocate_entry_no`: `FOR UPDATE` on the sequence row |
| `InsertEntry` | flush of the entry; a conflict on the source returns an event to its savepoint, any other fails the request |
| `CommitEntry`, `CommitNothing`, `Rollback` | the end of the transaction |
| `CreateInsert` .. `CloseCommit` | `create_period`, `close_period` (`FOR UPDATE`) |

### Stock

`StockData` groups an order's lines per product (`Batch`). `Warehouse` is the
abstract specification: counts that are never negative, from which a shipment is
taken once, whole or not at all. `Stock` models deliveries
(`handle_goods_shipped`), adjustments and the rebuild: the shared and exclusive
advisory lock, the summary row locks in ascending order (`IsNext`), the check and
the write under them (`WriteMove`), the unique index on a shipment's moves and
the savepoint (`Duplicate`, `SkipBatch`), and the four statements of the rebuild.
Products and the lines of a shipment are finite in number, and what was delivered
before the run was delivered whole. A summary starts as any of `Summaries`: right,
drifted, or without some of its rows.

### Receivables

`SubledgerData`, the abstract `Subledger` (no locks, and no maintained columns:
balances are sums over commands; a payment request that carries allocations is
answered with success only together with its command), and `Receivables`. A transaction keeps the rows
it has locked in `inv` and `pay`; `todo` is the list of rows its current statement
has still to lock, so that two multi-row statements interleave row by row. The
document numbers and the ledger's entry numbers are locks here (`DocNoHolders`,
`EntryNoHolders`): their values are in the ledger's model. The journal is kept
as the effect of each entry on account 1100.

### Sales

`Sales` models the five operations on orders, the confirm hook of the credit
limit plugin, and, as single steps, what the other modules commit meanwhile:
prices, costs and limits change; orders are invoiced, paid, and invoices voided.
An order has one product; a quantity of zero is an order without lines.

### Replay

`Replay` takes the transactions of a request and of a replayed row as single
steps (their interleavings are in `Stock` and `Ledger`), with the count of effects
that precedes the handlers as a step of its own. A run keeps the rows it selected
(`snapshot`), those it has still to do (`todo`), and its summary: the rows that
`succeeded`, were `skipped` or `failed`. The checks come in the order of
the handlers: stock, then the unique index; period, then the unique index. Rows
left by an earlier release may have either effect, both or none. A shipment
whose cost is zero owes no journal entry.

### Plugins and Gate

`Plugins` models the plugins of one company: `update_company_plugin` (lock the
company row, read afresh, merge, validate, check dependencies, write) and
`Restart`, which starts the process with another `disabled_plugins` and fails
when the manifests that are left cannot be loaded. The command `manage_plugins`
calls the same function and is such a request.

`Gate` extends it with firings of one hook point. A firing has a set `left` of
plugins whose turn has not come; the next is `First(left)`, the choice of Kahn's
algorithm, which is how `bootstrap_plugins` orders the handlers, with plugins
ranked by name (`Rank`; they are finite in number). `Ask` is
`execute_with_plugin_gate_unchecked` reading the row of one plugin, `Invoke` the
handler with the configuration that was read, which may veto. `touched` is a
history of the updates that committed during the firing.

### Access and RateLimiter

`RateLimiter` is the table of `LoginRateLimiter` as operators: the window, pruning,
and the eviction of the oldest peer. What the code keeps as a queue of times is a
set of attempts here, each a request with its time: times only grow, so what the
code drops from the left of the queue is what has left the window. `allow` has no
`await`, so a call is one step. `Access` models requests from their arrival to their answer:

| In the module | In the code |
|---|---|
| `BeginLogin`, `AcquireSlot` | the limiter, then the semaphore around the verification |
| `FindUser`, `Verify`, `ChooseCompany`, `InsertSession`, `RefreshSession` | the statements of `login` |
| `BeginCall`, `ReadSession`, `ReadUser`, `ReadCodes` | the middleware and `resolve_actor` |
| `Work` | `require_permission` and the endpoint |
| `ReadRow`, `CheckEntitled`, `UpdateSession`; `DeleteSession` | `switch_company`; `logout` |
| `Restart` | the limiter, the semaphore and the requests under way are gone |
| `DisableUser` .. `Grant` | an operator in the database; nothing in `src` does these |

`seen` is a history: what was in force (`InForce`) at some moment since a request
arrived. `recent` is another: the logins admitted of each peer, forgotten only when
as many peers as the table holds have some in the window (`Crowded`), or at a
restart.

### Migrations, Provisioning and Install

`Migrations` holds each revision as a sequence of operations on schema objects
(`Upgrade0001Global` .. `Downgrade0012`), with what PostgreSQL demands of each
(`Can`) and does (`After`). `Begin`, `NextRevision`, `Operation`, `Commit`, `Fail`
and `Crash` are one alembic command in its one transaction. Between commands the
program of the revision takes and ships orders, and somebody edits the outbox.

`Provisioning` models the commands on a migrated database. The first installs go
statement by statement; a row inserted and not committed makes other inserts of
its key wait (`Held`). The seed and the demo are a script of steps
(`SeedScript`, `DemoScript`), each of which looks for what is there and goes on
from it; a kill (`KillJob`) throws away everything but the database. `MakeRow`,
`MoveStock`, `IssueInvoice` and `VoidInvoice` are everybody else, with
`meddled` recording whose documents they touched.

`Install` composes the two as `docker-compose.yml` does: `alembic upgrade head`
before anything else, then the commands.

### The MC modules

`MC<Name>` gives the constants of `<Name>` values for TLC: orders, lines, amounts
and first states. `MCAccess` also bounds them
(section 3). `MCPlugins` is an instance of `Gate`. The `.cfg` files name the sets of transactions.

## 3. Runs

| Configuration | Shows | Instance |
|---|---|---|
| `MCLedger` | `GaplessNumbering`, `PostedOnce`, `ClosedPeriodFrozen`, `ImplementsJournal`, `EveryRequestEnds` | 3 posts, 2 period transactions, 2 months in 2 years |
| `MCStock` | `OnHandIsTotal`, `DeductedOnce`, `ImplementsWarehouse`, `EveryTransactionEnds` | 3 writers, 2 rebuilds, a summary that is right, or has drifted and lost a row; 2 products, 2 shipments with products in opposite order, one with a product twice |
| `MCReceivables` | `BalancesMatch`, `OneLiveInvoice`, `TieOut`, `DeadlockNeedsInline`, `ImplementsSubledger` | 3 requests of any kind, 2 orders, 3 invoice and 2 payment ids, 2 customers |
| `MCReceivablesRepair` | `RebuildRepairs`, `EveryRequestEnds` | 2 requests, 2 payments, balances that have drifted |
| `MCInlineDeadlock` | `NoDeadlock` fails | 2 requests |
| `MCSales` | `EventsMatchOrders`, `NumbersNeverClash`, `OrderFrozen`, `CreditRespected`, `EveryRequestEnds` | 2 requests; two drafts that exceed the limit together, a confirmed and a shipped order, new ones |
| `MCReplay` | `EffectsOnce`, `NothingLost`, `SummaryTrue`, `ReplayEnds` | 2 runs of the command, 4 rows: malformed, old, with and without cost |
| `MCReplayRerun` | `SafeToRerun` fails | 1 run, 2 rows |
| `MCPlugins` | `DependenciesMet`, `PrerequisitesRunFirst`, `NothingOverwritten`, `EveryUpdateEnds` | 2 updates, 1 firing, 3 plugins one of which needs another, restarts |
| `MCPluginsRestart` | `DependenciesMet` fails | the same, when settings switch the dependent plugin off |
| `MCAccess` | `LimitHolds`, `ServedFreshly`, `SessionsOnlyMoveOrGo`, `EveryRequestEnds` | 1 slot, at most 2 logins within 2 ticks; 3 requests of any kind, 1 user, 2 companies, sessions of 1 tick, 1 change by the operator; or 4 logins within 3 ticks, from 2 peers of which 1 can be tracked |
| `MCInstall` | `SchemaOfRevision`, `MigrationsSucceed`, `HistoryKept`, `FirstAdminOnce`, `NeverDuplicated`, `FailsOnlyForCause`, `SeedConverges` | 3 alembic commands, 1 order, 1 edit of the outbox; then 2 first installs for different companies, the seed with 1 scenario, the demo up to its payment, 1 kill, 1 deed of somebody else |

No run checks a type invariant for its own sake. The types of every module but
`Migrations` and `Install` are part of the inductive invariants of section 5.

**Why these bounds.** Every race the properties are about is between two
transactions over one row; a third request lets one of them be preceded or
followed by something that changed the row. Two years are what separates the
sequences of the ledger; two products, invoices or payments are what a lock order
needs. Amounts are chosen so that a second allocation, shipment or order just no
longer fits. `MaxOnHand` in `Replay` bounds the stock that corrections can pile
up; nothing compares stock with more than the largest shipment. In `Access` a
login, a call with its token and a third request are what a logout needs to meet a
switch. One peer more than the table holds is what an eviction needs, and a window
of two ticks in which two logins are admitted is what makes it slide: the first
of them leaves it before the second. `MCSpec` has these two instances in one, a
few requests of every kind for one tick (`AllKindsForAWhile`) and more logins for
three (`LoginsForLonger`); it cuts off arrivals, ticks and the operator, never a step
of a request under way, so the fairness of `Access` is untouched. Three
alembic commands are an upgrade, a downgrade and the upgrade again; one kill and
one deed of somebody else are each enough to come between any two steps, and
either may come between the steps of the other's run. `MaxRequests`, `MaxTime`,
`MaxChanges`, `MaxCommands`, `MaxTampering`, `MaxKills` and `MaxMeddling` are these
bounds. Numbers and journals are bounded because each transaction runs once. The
results that matter most are proved without bounds (section 5).

**Deadlock.** TLC's check for states without a successor is on except for
`Replay`, `Plugins` and `Install`, in which everything may simply be done.
Elsewhere the end of all requests is a step of its own (in `Access` a restart is
always possible, and `EveryRequestEnds` says that nothing is stuck), so that a
state where some request is stuck would be reported.

**Symmetry** is used in `MCReceivables` only, for transactions; it has no liveness
property.

**Fairness.** Liveness is checked under weak fairness of the next statement of
each transaction (`Advance`), and of nothing else: no rollback, no crash and no
new request is assumed. The code justifies it: a transaction runs in an event
loop that resumes it when its statement returns, and a statement returns when
the lock it waits for is free; PostgreSQL's lock queues are first come, first
served. In `Stock`, a rebuild that was started is also fair to its first
statement, the exclusive advisory lock: writers come in finite number, and the
queue of the lock keeps later ones behind it. A run of the replay command goes on
as long as its process lives, and a process that dies counts as ended. Where a
cyclic wait is possible (inline allocations) PostgreSQL would abort one
transaction after a timeout; that abort is not assumed, so the liveness run of
receivables leaves inline allocations out.

In `Plugins` the same fairness is stated for the steps of `Gate`. In `Access` it
is weaker: some request that can run does run, as the one event loop of the
process has it, which is enough because requests are finite in number; clock,
operator and restarts are not assumed. In `Install` it is as weak: as long as the
seed or a first install can go on (`SeedGoesOn`, `BootGoesOn`), or the operator can
run the seed again because its data is incomplete (`SeedAgain`), which is what its
documentation asks for, one of these happens; nothing is assumed of the
migrations, the demo or anybody else.

## 4. Findings

Disagreements between the code and what its documents say, each shown by a run:

1. **Replay is not always safe to repeat** (`MCReplayRerun`).
   `cli/replay_outbox.py` says replaying what was already processed no-ops at the
   unique index. The handlers check the stock (`inventory/service.py:193`) and the
   period (`ledger/service.py:239`) before their inserts. A shipment that took the
   stock, or whose period was closed since, fails on every replay. Inline
   dispatch never sets `dispatched_at`, so a first replay meets every event ever
   published. The run finds the depleted stock first; with `Deltas` empty and one
   row, it finds the closed period.
2. **The lock order of ADR-008 is not kept by inline allocations**
   (`MCInlineDeadlock`). `create_payment` posts, which locks the ledger's
   sequence row, and then locks invoices; `void_invoice` locks an invoice and then
   posts. `DeadlockNeedsInline` shows that this is the only way: every deadlock
   has such a payment in it.
3. **Disabled plugins escape the dependency check** (`MCPluginsRestart`).
   `_check_dependency_invariants` looks at loaded plugins only, so the
   prerequisite of a plugin that `disabled_plugins` has switched off can be
   disabled for a company; when the settings change back, the invariant of
   ADR-010 3.3 is broken and nothing re-checks it.

## 5. Proofs

Each theorem holds for every value of the constants that meets the `ASSUME` of
its module: any number of transactions, entries, rows and plugins.

**`LedgerProofs`.** `LedgerInv` is inductive, and the theorems `TypeCorrect`,
`Gapless`, `Idempotent`, `ClosedFrozen` and `Implements` follow from it. The
properties alone are not inductive. That numbers have no gap needs to know that a
transaction about to commit has the number after the last (`ReadStillHolds`),
which needs the exclusion of the sequence lock (`LockInv`); that a closed period
stays as it is needs that a share lock on it excludes its closer and that what
was read under the lock still holds; that an entry is posted once needs that of
two inserts with one key one waits. `DraftsLegal` carries what validation
established to the commit, for the refinement. `Implements` shows that each
step of `Ledger` is a step of `Journal` or leaves it as it is.

**`Sums`.** What balances and counts are made of: `SumFunction` of the community
modules, over finite sets into the integers. A sum splits at any element
(`SumSplit`), is additive over disjoint sets and over functions (`SumOverUnion`,
`SumOverTerms`), does not change along a bijection (`SumOverImage`), and is monotone
(`SumOverAtMost`). The library's induction theorems cannot be used here, for they
take operators; instead a set of subsets of a finite set has a minimal member
(`MinimalSubset`, from well-foundedness), and whatever fails of some finite subset
would fail of a minimal one (`SubsetInduction`).

**`StockProofs`.** `CountsAreTotals` (`OnHandIsTotal`), `ShipmentsDeductedOnce`
(`DeductedOnce`) and `WarehouseImplemented` (`ImplementsWarehouse`) rest on `StockInv`
(`StockInductive`). A row of the summary has one holder, and a rebuild that has read
the moves excludes every writer, so that the sum it read is still the sum when it
writes. A count is a total of the committed moves, to which a commit adds exactly
those in the holder's row; and a delivery under way is a part of its shipment's
batch (`Batch`), in the order of its locks, which is why what commits is all of it
or nothing. The refinement maps a commit to one step of `Warehouse` and every
other step to none.

**`ReceivablesProofs`.** The core is `ReceivablesInv` (`HoldsAlways`): every row has one
holder, which has changed in its copy only what its request is about, and a key
inserted and not committed is nobody else's. From it:

- `OneInvoicePerOrder` (`OneLiveInvoice`): of two insertions for one order the second
  waits, and then fails.
- `OnlyInlineDeadlocks` (`DeadlockNeedsInline`): the locks have an order:
  payments, then invoices, each in ascending order, then entry numbers; who waits
  for a document number or at an index holds no row yet. Of transactions that
  wait for rows, the one whose row is the furthest waits for somebody past all
  rows, whatever the set.
- `TiesOut` (`TieOut`): each entry of account 1100 is one document's issue, receipt or
  void (`BooksInv`), so that their sum is the sum of the live invoices less that of
  the live payments. It takes `FirstBilled` and `FirstReceived` to agree with the
  first rows.
- `RebuildsRepair` (`RebuildRepairs`) and `ColumnsStayRight` (`BalancesMatch`): a holder's
  copy is right once it has been rebuilt, or if the row was right when it was locked
  (`SumsInv`). The second assumes that the columns are right at the start
  (`Balanced`), for only a rebuild makes a wrong one right.
- `SubledgerImplemented` (`ImplementsSubledger`): under the same assumption each step
  is a step of `Subledger` or leaves it as it is. That an allocation fits what an
  invoice and a payment have left is `FitInv`: what the locked rows allow is what
  the sums allow, and a payment that came with allocations does not get to its commit
  without its command (`Carries`).

**`PlatformProofs`**, of `Replay`, `Plugins` and `Gate`.

- `BookedOnce` (`EffectsOnce`), `NoEffectLost` (`NothingLost`) and `SummariesTrue`
  (`SummaryTrue`) rest on `ReplayInv` (`ReplayInductive`): every row of a run's snapshot
  is still to do or in exactly one list of its summary; a row being replayed is
  well formed, because it got past the guarded conversion; effects are not taken
  back, so what was counted before the handlers is there after them.
- `UpdatesKept` (`NothingOverwritten`) and `PluginsTyped` rest on `UpdatesInv`
  (`UpdatesInductive`), whatever the settings switch off: one transaction at most is
  past the lock, and what it decided is still what its check would say (`StillAllowed`).
- `PrerequisitesEnabled` (`DependenciesMet`) rests on `PluginsInv` (`PluginsInductive`),
  which adds that all enabled plugins, loaded or not, have their prerequisites
  (`AllMet`): a failed startup leaves none loaded and must not forget the rows.
  This is the induction ADR-010 appeals to, and it holds under one condition,
  `DependentsStayOn`: no plugin with prerequisites is ever switched off by the
  settings. `MCPluginsRestart` shows that it is needed.
- `HandlersInOrder` (`PrerequisitesRunFirst`), under the same condition, adds
  `TurnTaken`: a plugin whose turn has been ran its handler, or was disabled and
  is so still unless it was updated since. That the order always has a next plugin
  is proved too: a set of loaded plugins whose prerequisites all wait for each other
  would have kept the process from starting.

**`SalesProofs`.** `NumbersUnique` (`NumbersNeverClash`), `EventsTold`
(`EventsMatchOrders`) and `Frozen` (`OrderFrozen`) rest on `SalesInv`
(`SalesInductive`). That numbers differ needs that the next number is one more than
the orders that have one (`Numbered`), which a creation holds the sequence lock to
keep true, from the first order of the year on; it is assumed
(`FirstOrdersAssumption`) that the orders placed before have numbers up to their
count, and once confirmed the total of their lines, a positive one. That the events
match needs that the row a transaction decided on is the one it still holds the
lock of (`Holding`, `Ready`, `Priced`), and that an order is created by the one
request that named it (`CreatesAlone`). Prices and limits are arbitrary.

`CreditKept` (`CreditRespected`) adds `CreditInv` (`CreditInductive`). A customer's lock
has one holder, from its hook to its commit. Meanwhile the customer's exposure does
not grow: no other order of the customer is confirmed; shipping, invoicing
and voiding leave it as it is, and a payment takes from it. That these gain nothing
needs that only shipped orders are invoiced, and that what is settled is a whole
total (`Billed`). The limit itself is in the locked row. So what the hook found
still holds (`WithinLimit`) when the
commit adds the total of the order.

**`AccessProofs`.** `ServedOnFacts` (`ServedFreshly`) and `NoSessionReturns`
(`SessionsOnlyMoveOrGo`) rest on `AccessInv` (`AccessInductive`): what is in force now is
in the history of every request under way (`Watched`), and what a login or a call
has read so far is in it too (`LoginKnows`, `CallKnows`). That a session does not come
back needs that its login inserts it before anybody can know its token, and once.

`LimitKept` (`LimitHolds`) rests on `LimiterInv`: the table has of every peer the
attempts in the window that the history has, and no others (`Counts`). Pruning drops
no such attempt, and a peer that has one is evicted only from a table that is full
after pruning, when all it tracks have one, so that the history may forget too.

**`ProvisioningProofs`.** `OneAdministrator` (`FirstAdminOnce`) and `OrdersMadeOnce`
(`NeverDuplicated`) hold of `InstallSpec`, from the first migration on. The
first rests on `OneInstalls`: one first install at most is past the advisory lock,
and it found no administrator under it. The second rests on `OrderedOnce`: a job
about to make an order is one whose order is not there (`Settled`), since no other
job has its scenarios, and an order that is there was made once (`Single`). A
kill needs no argument of its own: it leaves the database alone.

`FailuresHaveCause` (`FailsOnlyForCause`) rests on `CauseInv` (`CauseInductive`): what
each run counts on, while nobody touches its documents and its stock. Its past
orders are shipped, it looks again only for a row that is there (`Met`), its stock is
what it wants and has still to ship (`Stocked`, `Target`), and the order in hand is as
far as it believes (`Believes`). So every way to fail is ruled out: after a conflict
the row is there and is wrong or right; an adjustment ends at `Target`, which is no
less than nothing; a shipment finds at least its own quantity; at the check all is
shipped and `Target` is what was wanted; an invoice or an allocation meets a live
invoice that is not its own only when somebody issued it. What is left is a wrong
row, no company to work in, no administrator to log in as, or `meddled`.

`HistoryOutlivesMigrations` (`HistoryKept`) rests on `HistoryInv`, of the database and
of what the command under way has still to do: a shipped order has no time or its own,
its event is in the outbox unless somebody took it away (`OutboxTrue`), and a
revision's promise is kept or is still in the script (`Promised`). The outbox goes only
with the first revision, when no order is left (`MayDo`), and "backfill" comes directly
after "preflight" (`LooksFirst`): it found one event for each order, so the true one, as
one edit can add a false event or take the true one but not do both. That is why the
theorem speaks of the time before the second edit (`tampered <= 1`), however many
there may be: two can leave a false event alone, which the migration cannot tell from
a true one. The scripts are taken from
`Upgrade` and `Downgrade` one by one (`UpgradeScripts`, `DowngradeScripts`).

`SchemasMatchRevisions` (`SchemaOfRevision`) and `MigrationsNeverFail`
(`MigrationsSucceed`) rest on `SchemaInv`, beside `HistoryInv`. Nothing is assumed of the
constants but that `None` is not the name of an object. In the middle of a script the
schema is that of the revision, less what an upgrade has still to make, or with what a
downgrade has still to drop (`SchemaIs`; the codes of the catalog likewise), and the rest
of the script is in order (`UpScript`, `DownScript`): an upgrade makes each object once,
after what it needs; a downgrade drops each once, before what it needs. Half of the
argument is about the 24 scripts. Each upgrade makes its `Objects`, over those of the
revisions before it (`UpgradeMakes`), which no other script makes (`OneRevision`), so
`Fresh` describes each object as the one operation that makes it (`FreshAre`,
`MakerMakes`); each downgrade drops the same objects in an order that undoes them
(`DowngradeUnmakes`); what is seeded is unseeded, or goes with its table. The other half
is about one step: what an operation finds (`CreateCan`, `DropCan`, `SeedCan`,
`UnseedCan`), and that it leaves what the rest of the script expects
(`UpgradeOperation`, `DowngradeOperation`). `AlwaysCan` puts them together, with the
outbox for the two operations of 0008 that look at rows: before any edit each shipped
order has its true event and no other, so "preflight" passes, and the check comes after
the filling in. The two properties are therefore independent of the bounds of the run:
any number of commands, in any order, each failing or killed anywhere.

**Model-checked only.** Liveness, which the prover cannot do: `EveryRequestEnds` of each
module, `EveryTransactionEnds`, `ReplayEnds`, `EveryUpdateEnds` and `SeedConverges`. With
it goes the absence of deadlock, except for `OnlyInlineDeadlocks`. Every other property
of a passing run is stated by a theorem.

## 6. What is abstracted and left out

- Each module is of one company. Tenancy is a filter that rewrites queries; its
  correctness is a matter of queries, not of steps.
- In the modules of the core, permission checks are guards in front of each
  operation and taken as passed; `Access` is about them. The roles are one there: a
  user may act for a company or not.
- Foreign keys take share locks on the rows they name. They delay, and decide
  nothing that is modelled; they are left out.
- The credit limit plugin counts as enabled in `Sales`. An edit of an order that
  changes notes or custom fields alone is left out. Settled amounts never fall
  there: neither a settled invoice nor an allocated payment can be voided.
- Amounts are small integers: the code adds and compares decimals of fixed scale
  and never rounds in these paths. Currencies other than TWD are refused; a
  company in another one is a "wrong" row of `Provisioning`.
- Plugin versions are compatible. The checks of a manifest's own fields and of
  handler identity are functions of the manifest.
- In `Migrations`, indexes for speed alone, the columns a table is created with
  and the text of checks are left out, and of the permission catalog there is one
  code per module. Roles that an operator made are not there.
- In `Provisioning`, rows a command makes the same way one after another are one
  row. One seed and one demo run at a time: nothing in the database makes the tags
  of orders unique, and two seeds at once do make orders twice. A demo that is
  done is not run again; a request of a killed demo that arrives late, a payment
  voided and an order cancelled by somebody else are not modelled.
- `manage_plugins` runs with the settings of the server.

Not modelled:

- The aging report, the listings and the trial balance only read. The aging
  report takes both its sides, open invoices and unapplied credit, in one compound
  statement, and so from one snapshot; its totals are what `TieOut` says of any state.
- Custom fields: the port has no implementation in the repository, and no state.
- The limit on the size of a login's body is a stateless guard.
- The release gate script compares the reports of other tools.
- Routing, error mapping and logging.

## 7. Plan

Done, in this order: Ledger, Stock, Receivables, Sales, Replay, Plugins; proofs of
Ledger, Replay and Plugins; then Gate, RateLimiter, Access, Migrations,
Provisioning and Install; proofs of Sales, Access and Provisioning; then sums, and
with them the proofs of Stock and Receivables; the summaries of Replay, the order of
the handlers, the credit limit, the rate limiter, the failures of the seed, the
history that the migrations keep, and the schemas they leave.

What would come next:

1. **The aging report** over `Receivables`, customer by customer, if a second
   statement is ever added to it.
