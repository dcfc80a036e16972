------------------------------- MODULE Migrations -------------------------------
(***************************************************************************)
(* The twelve revisions under alembic/versions, run up and down over a     *)
(* database that holds the program's data. alembic/env.py runs a whole     *)
(* `upgrade` or `downgrade` in one transaction, so a failing statement or  *)
(* a crash undoes every revision of the command. Between commands the      *)
(* deployed program, of the database's revision, takes and ships orders.   *)
(*                                                                         *)
(* A revision is a sequence of operations on schema objects (tables, enum  *)
(* types, functions; columns, checks, indexes and triggers of a table)     *)
(* and on the rows that the revisions read or write. Indexes on their own, *)
(* for speed only, and the columns a table is created with are left out.   *)
(***************************************************************************)
EXTENDS Naturals, FiniteSets, SequencesExt

CONSTANTS
    Orders,
    Moments,        \* when a shipment can have happened
    MaxCommands,    \* bounds the alembic commands
    MaxTampering,   \* bounds the edits of the outbox by hand
    None

--------------------------------------------------------------------------------
(* Operations *)

Create(x, needs, of) == [op |-> "create", what |-> x, needs |-> needs, of |-> of]

Table(t, refs) == Create(t, refs, None)
Free(x) == Create(x, {}, None)      \* an enum type or a function
Part(x, t) == Create(x, {t}, t)     \* a column, check or unique index of t
Trigger(x, t, f) == Create(x, {t, f}, t)
Drop(x) == [op |-> "drop", what |-> x]
Do(what) == [op |-> what, what |-> None]
Seed(codes) == [op |-> "seed", what |-> codes]
Unseed(codes) == [op |-> "unseed", what |-> codes]

Upgrade0001Global ==
    << Table("currencies", {}), Table("outbox", {}), Table("uom", {}),
       Table("companies", {"currencies"}), Table("exchange_rates", {"currencies"}),
       Table("uom_conversions", {"uom"}) >>

Upgrade0001Tenant ==
    << Free("account_type"), Table("accounts", {"companies", "account_type"}),
       Table("customers", {"companies", "currencies"}), Table("products", {"companies", "uom"}) >>

\* Mutant: the type that create_table made is left behind.
Downgrade0001KeepsType ==
    << Drop("products"), Drop("customers"), Drop("accounts"), Drop("uom_conversions"),
       Drop("exchange_rates"), Drop("companies"), Drop("uom"), Drop("outbox"), Drop("currencies") >>

Downgrade0001 ==
    << Drop("products"), Drop("customers"), Drop("accounts"), Drop("uom_conversions"),
       Drop("exchange_rates"), Drop("companies"), Drop("uom"), Drop("outbox"), Drop("currencies"),
       Drop("account_type") >>

Upgrade0002Tables ==
    << Free("period_status"), Table("accounting_periods", {"companies", "period_status"}),
       Table("ledger_sequences", {"companies"}),
       Table("journal_entries", {"companies", "accounting_periods"}),
       Table("journal_lines", {"companies", "journal_entries", "accounts", "currencies"}) >>

Upgrade0002Triggers ==
    << Free("ledger_check_entry_balance"),
       Trigger("trg_journal_lines_balance", "journal_lines", "ledger_check_entry_balance"),
       Free("ledger_block_mutation"),
       Trigger("trg_journal_entries_immutable", "journal_entries", "ledger_block_mutation"),
       Trigger("trg_journal_lines_immutable", "journal_lines", "ledger_block_mutation") >>

Downgrade0002 ==
    << Drop("trg_journal_lines_immutable"), Drop("trg_journal_entries_immutable"),
       Drop("ledger_block_mutation"), Drop("trg_journal_lines_balance"),
       Drop("ledger_check_entry_balance"), Drop("journal_lines"), Drop("journal_entries"),
       Drop("ledger_sequences"), Drop("accounting_periods"), Drop("period_status") >>

Upgrade0003 == << Part("uq_journal_entries_source", "journal_entries") >>
Downgrade0003 == << Drop("uq_journal_entries_source") >>

Upgrade0004 ==
    << Table("sales_sequences", {"companies"}), Free("sales_order_status"),
       Table("sales_orders", {"companies", "customers", "currencies", "sales_order_status"}),
       Table("sales_order_lines", {"companies", "sales_orders", "products", "uom"}) >>

Downgrade0004 ==
    << Drop("sales_order_lines"), Drop("sales_orders"), Drop("sales_sequences"),
       Drop("sales_order_status") >>

\* "label" adds SHIPPED unless it is there; "retire" stamps the synthetic events.
Upgrade0005 ==
    << Part("standard_cost", "products"), Part("ck_products_standard_cost_nonneg", "products"),
       Free("stock_move_type"),
       Table("stock_moves", {"companies", "products", "stock_move_type"}),
       Part("uq_stock_moves_source", "stock_moves"),
       Table("stock_summary", {"companies", "products"}), Do("label"), Do("retire") >>

\* Neither the label nor the stamps are taken back.
Downgrade0005 ==
    << Drop("stock_summary"), Drop("uq_stock_moves_source"), Drop("stock_moves"),
       Drop("stock_move_type"), Drop("ck_products_standard_cost_nonneg"), Drop("standard_cost") >>

Upgrade0006 == << Part("ck_sales_orders_confirmed_has_snapshot", "sales_orders") >>
Downgrade0006 == << Drop("ck_sales_orders_confirmed_has_snapshot") >>

Upgrade0007 == << Part("unit_price_is_override", "sales_order_lines") >>
Downgrade0007 == << Drop("unit_price_is_override") >>

\* Mutant: the backfill runs on whatever events there are.
Upgrade0008Blind ==
    << Part("shipped_at", "sales_orders"), Do("backfill"),
       Part("ck_sales_orders_shipped_has_shipped_at", "sales_orders") >>

\* "preflight" wants exactly one event for every shipped order, "backfill" copies
\* its time, and the check wants every shipped order to have one.
Upgrade0008Shipping ==
    << Part("shipped_at", "sales_orders"), Do("preflight"), Do("backfill"),
       Part("ck_sales_orders_shipped_has_shipped_at", "sales_orders") >>

Upgrade0008Invoices ==
    << Part("is_control", "accounts"), Part("payment_terms_days", "customers"),
       Part("ck_customers_payment_terms_days_range", "customers"),
       Free("invoice_status"),
       Table("invoices", {"companies", "sales_orders", "customers", "currencies", "invoice_status"}),
       Part("uq_invoices_order_live", "invoices") >>

Upgrade0008Payments ==
    << Free("payment_status"),
       Table("payments", {"companies", "customers", "currencies", "payment_status"}),
       Table("payment_allocation_commands", {"companies", "payments"}),
       Table("payment_allocations", {"companies", "payments", "invoices", "payment_allocation_commands"}),
       Table("receivables_sequences", {"companies"}) >>

Downgrade0008 ==
    << Drop("receivables_sequences"), Drop("payment_allocations"),
       Drop("payment_allocation_commands"), Drop("payments"), Drop("payment_status"),
       Drop("uq_invoices_order_live"), Drop("invoices"), Drop("invoice_status"),
       Drop("ck_customers_payment_terms_days_range"), Drop("payment_terms_days"),
       Drop("is_control"), Drop("ck_sales_orders_shipped_has_shipped_at"), Drop("shipped_at") >>

Upgrade0009 ==
    << Table("users", {}), Part("uq_users_email_lower", "users"), Table("roles", {}),
       Table("permissions", {}), Table("role_permissions", {"roles", "permissions"}),
       Table("user_company_roles", {"users", "companies", "roles"}),
       Table("sessions", {"users", "companies"}), Seed({"session.manage"}) >>

Downgrade0009 ==
    << Drop("sessions"), Drop("user_company_roles"), Drop("role_permissions"),
       Drop("permissions"), Drop("roles"), Drop("uq_users_email_lower"), Drop("users") >>

\* The codes of the modules' endpoints, one for each module.
Catalog0010 == {"masterdata", "sales", "ledger", "inventory", "receivables"}
Catalog0011 == {"platform.plugin"}
Catalog0012 == {"platform.customfield"}

Upgrade0010 == << Seed(Catalog0010) >>
Downgrade0010 == << Unseed(Catalog0010) >>

Upgrade0011 == << Table("company_plugins", {"companies"}), Seed(Catalog0011) >>
Downgrade0011 == << Unseed(Catalog0011), Drop("company_plugins") >>

Upgrade0012 == << Table("custom_field_definitions", {"companies"}), Seed(Catalog0012) >>
Downgrade0012 == << Unseed(Catalog0012), Drop("custom_field_definitions") >>

Upgrade ==
    << Upgrade0001Global \o Upgrade0001Tenant, Upgrade0002Tables \o Upgrade0002Triggers,
       Upgrade0003, Upgrade0004, Upgrade0005, Upgrade0006, Upgrade0007,
       Upgrade0008Shipping \o Upgrade0008Invoices \o Upgrade0008Payments, Upgrade0009,
       Upgrade0010, Upgrade0011, Upgrade0012 >>

Downgrade ==
    << Downgrade0001, Downgrade0002, Downgrade0003, Downgrade0004, Downgrade0005, Downgrade0006,
       Downgrade0007, Downgrade0008, Downgrade0009, Downgrade0010, Downgrade0011, Downgrade0012 >>

LastRevision == Len(Upgrade)

--------------------------------------------------------------------------------
VARIABLES
    db,         \* what is committed
    txn,        \* the database as the command under way sees it, and what is left to do
    commands,   \* counts the commands
    failed,     \* the last command failed
    tampered,   \* counts the edits by hand
    when        \* history: when each order was shipped

vars == <<db, txn, commands, failed, tampered, when>>

NoTxn == [db |-> None, goal |-> 0, todo |-> <<>>]

Init ==
    /\ db = [rev |-> 0, schema |-> [x \in {} |-> {}], label |-> "none", codes |-> {},
             orders |-> [o \in Orders |-> "none"], shipped |-> [o \in Orders |-> None],
             events |-> {}, synthetic |-> "none"]
    /\ txn = NoTxn
    /\ commands = 0 /\ failed = FALSE /\ tampered = 0
    /\ when = [o \in Orders |-> None]

Idle == txn = NoTxn

Shipped(d) == {o \in Orders : d.orders[o] = "shipped"}
EventsOf(d, o) == {e \in d.events : e.order = o}
Unstamped(d) == {o \in Shipped(d) : d.shipped[o] = None}

\* Mutant: the check of 0006 compares the enum.
ComparesLabelTyped == {"ck_sales_orders_confirmed_has_snapshot"}

\* Statements that compare the status as an enum: the revisions compare its text,
\* as a label added by the same transaction may not be used.
ComparesLabel == {}

\* A row may not be there for the check, nor the object or what it needs missing.
CanCreate(d, o) ==
    /\ o.what \notin DOMAIN d.schema /\ o.needs \subseteq DOMAIN d.schema
    /\ o.what \in ComparesLabel => d.label # "new"
    /\ o.what = "ck_sales_orders_shipped_has_shipped_at" => Unstamped(d) = {}

PartsOf(d, x) == {y \in DOMAIN d.schema : d.schema[y].of = x}

\* Nothing is dropped that something else needs; its own parts go with it.
CanDrop(d, o) ==
    /\ o.what \in DOMAIN d.schema
    /\ \A y \in DOMAIN d.schema \ PartsOf(d, o.what) : o.what \notin d.schema[y].needs

Can(d, o) ==
    CASE o.op = "create"    -> CanCreate(d, o)
      [] o.op = "drop"      -> CanDrop(d, o)
      [] o.op = "preflight" -> \A x \in Unstamped(d) : Cardinality(EventsOf(d, x)) = 1
      [] o.op = "seed"      -> o.what \cap d.codes = {}
      [] OTHER              -> TRUE

\* The rows that go with an object.
WithoutRows(d, x) ==
    CASE x = "sales_orders" ->
           [d EXCEPT !.orders = [o \in Orders |-> IF @[o] = "none" THEN "none" ELSE "gone"],
                     !.shipped = [o \in Orders |-> None]]
      [] x = "shipped_at"         -> [d EXCEPT !.shipped = [o \in Orders |-> None]]
      [] x = "outbox"             -> [d EXCEPT !.events = {}, !.synthetic = "none"]
      [] x = "sales_order_status" -> [d EXCEPT !.label = "none"]
      [] x = "permissions"        -> [d EXCEPT !.codes = {}]
      [] OTHER                    -> d

\* UPDATE ... FROM takes any one of the rows that match.
Backfilled(d) ==
    {[d EXCEPT !.shipped = f] : f \in
        {g \in [Orders -> Moments \cup {None}] : \A o \in Orders :
            IF o \in Unstamped(d) /\ EventsOf(d, o) # {}
            THEN \E e \in EventsOf(d, o) : g[o] = e.at ELSE g[o] = d.shipped[o]}}

\* The databases that an operation can lead to.
After(d, o) ==
    CASE o.op = "create" ->
           {[d EXCEPT !.schema = [x \in DOMAIN @ \cup {o.what} |->
                                    IF x = o.what THEN [needs |-> o.needs, of |-> o.of] ELSE @[x]]]}
      [] o.op = "drop" ->
           {[WithoutRows(d, o.what) EXCEPT
               !.schema = Restrict(@, DOMAIN @ \ ({o.what} \cup PartsOf(d, o.what)))]}
      [] o.op = "label"    -> {[d EXCEPT !.label = IF @ = "none" THEN "new" ELSE @]}
      [] o.op = "retire"   -> {[d EXCEPT !.synthetic = IF @ = "pending" THEN "dispatched" ELSE @]}
      [] o.op = "backfill" -> Backfilled(d)
      [] o.op = "seed"     -> {[d EXCEPT !.codes = @ \cup o.what]}
      [] o.op = "unseed"   -> {[d EXCEPT !.codes = @ \ o.what]}
      [] OTHER             -> {d}

--------------------------------------------------------------------------------
(* A command: alembic upgrade or downgrade to a revision *)

Begin(goal) ==
    /\ Idle /\ commands < MaxCommands /\ goal # db.rev
    /\ commands' = commands + 1 /\ failed' = FALSE
    /\ txn' = [db |-> db, goal |-> goal, todo |-> <<>>]
    /\ UNCHANGED <<db, tampered, when>>

NextRevision ==
    /\ ~Idle /\ txn.todo = <<>> /\ txn.db.rev # txn.goal
    /\ txn' = IF txn.db.rev < txn.goal
              THEN [txn EXCEPT !.db.rev = @ + 1, !.todo = Upgrade[txn.db.rev + 1]]
              ELSE [txn EXCEPT !.db.rev = @ - 1, !.todo = Downgrade[txn.db.rev]]
    /\ UNCHANGED <<db, commands, failed, tampered, when>>

Operation ==
    /\ ~Idle /\ txn.todo # <<>> /\ Can(txn.db, txn.todo[1])
    /\ \E d \in After(txn.db, txn.todo[1]) :
         txn' = [txn EXCEPT !.db = d, !.todo = Tail(@)]
    /\ UNCHANGED <<db, commands, failed, tampered, when>>

\* The statement raises, or the check of 0008 does: the command is rolled back.
Fail ==
    /\ ~Idle /\ txn.todo # <<>> /\ ~Can(txn.db, txn.todo[1])
    /\ txn' = NoTxn /\ failed' = TRUE
    /\ UNCHANGED <<db, commands, tampered, when>>

Crash ==
    /\ ~Idle
    /\ txn' = NoTxn
    /\ UNCHANGED <<db, commands, failed, tampered, when>>

\* A label may be used from now on.
Commit ==
    /\ ~Idle /\ txn.todo = <<>> /\ txn.db.rev = txn.goal
    /\ db' = [txn.db EXCEPT !.label = IF @ = "new" THEN "usable" ELSE @]
    /\ txn' = NoTxn
    /\ UNCHANGED <<commands, failed, tampered, when>>

--------------------------------------------------------------------------------
(* The program of the database's revision, and the operator *)

TakeOrder(o) ==
    /\ Idle /\ db.rev >= 4 /\ db.orders[o] = "none"
    /\ db' = [db EXCEPT !.orders[o] = "confirmed"]
    /\ UNCHANGED <<txn, commands, failed, tampered, when>>

\* Since 0008 the order has the time of its event.
ShipOrder(o, m) ==
    /\ Idle /\ db.rev >= 5 /\ db.orders[o] = "confirmed"
    /\ db' = [db EXCEPT !.orders[o] = "shipped", !.events = @ \cup {[order |-> o, at |-> m]},
                        !.shipped[o] = IF db.rev >= 8 THEN m ELSE None]
    /\ when' = [when EXCEPT ![o] = m]
    /\ UNCHANGED <<txn, commands, failed, tampered>>

\* Before 0005 there was a synthetic event, published and dispatched at once or
\* left to a replay.
PublishSynthetic(state) ==
    /\ Idle /\ db.rev \in 2..4
    /\ db' = [db EXCEPT !.synthetic = state]
    /\ UNCHANGED <<txn, commands, failed, tampered, when>>

Tamper(events) ==
    /\ Idle /\ "outbox" \in DOMAIN db.schema /\ tampered < MaxTampering
    /\ db' = [db EXCEPT !.events = events]
    /\ tampered' = tampered + 1
    /\ UNCHANGED <<txn, commands, failed, when>>

Next ==
    \/ \E goal \in 0..LastRevision : Begin(goal)
    \/ NextRevision \/ Operation \/ Fail \/ Crash \/ Commit
    \/ \E o \in Orders : TakeOrder(o) \/ \E m \in Moments : ShipOrder(o, m)
    \/ \E state \in {"pending", "dispatched"} : PublishSynthetic(state)
    \/ \E o \in Orders, m \in Moments : Tamper(db.events \cup {[order |-> o, at |-> m]})
    \/ \E e \in db.events : Tamper(db.events \ {e})

Spec == Init /\ [][Next]_vars

--------------------------------------------------------------------------------
\* The operations of a kind in the upgrades up to a revision.
OfKind(op, r) ==
    LET scripts == Upgrade
    IN UNION {{scripts[q][i] : i \in {j \in DOMAIN scripts[q] : scripts[q][j].op = op}} : q \in 1..r}

\* The schema and the codes of each revision, as a first upgrade to it makes them.
Fresh == [r \in 0..LastRevision |->
    LET made == OfKind("create", r)
    IN [schema |-> [x \in {o.what : o \in made} |->
                      LET o == CHOOSE o \in made : o.what = x
                      IN [needs |-> o.needs, of |-> o.of]],
        codes |-> UNION {o.what : o \in OfKind("seed", r)}]]

\* Every downgrade undoes its upgrade to the last object: whatever commands ran,
\* failed or crashed, the database has exactly the schema of its revision, no
\* table, type or function left over, and admin the whole catalog of its codes.
SchemaOfRevision == db.schema = Fresh[db.rev].schema /\ db.codes = Fresh[db.rev].codes

\* From every database the program can have left behind, every upgrade and every
\* downgrade goes through, in one transaction, a second time as well as the first:
\* no statement uses a label of its own transaction, makes what is there, drops
\* what is needed, or finds rows that its check refuses.
MigrationsSucceed == tampered = 0 => ~failed

\* What the program of the revision reads from the outbox and the orders is right:
\* from 0008 on a shipped order has the very time it was shipped, also when the
\* column was dropped and filled again from an outbox that was edited by hand (the
\* migration refuses rather than guesses); from 0005 on no event that the program
\* does not know is left for a replay to fail on.
HistoryKept ==
    /\ db.rev >= 8 => \A o \in Shipped(db) : db.shipped[o] = when[o]
    /\ db.rev >= 5 => db.synthetic # "pending"

--------------------------------------------------------------------------------
(* An inductive invariant for HistoryKept: the rows, and what is still to do. *)

\* A sequence, whatever its operations are.
IsScript(s) == s \in Seq({s[i] : i \in DOMAIN s})

\* What a command that is at the revision may still have to do.
MayDo(o, rev) ==
    /\ o.op \in {"preflight", "backfill"} => rev = 8
    /\ o.op = "drop" => /\ o.what = "outbox" => rev = 0
                        /\ o.what = "sales_orders" => rev = 3
                        /\ o.what = "shipped_at" => rev = 7

DatabaseType(d) ==
    /\ d = [rev |-> d.rev, schema |-> d.schema, label |-> d.label, codes |-> d.codes,
            orders |-> d.orders, shipped |-> d.shipped, events |-> d.events,
            synthetic |-> d.synthetic]
    /\ d.rev \in 0..LastRevision
    /\ d.orders \in [Orders -> {"none", "confirmed", "shipped", "gone"}]
    /\ d.shipped \in [Orders -> Moments \cup {None}]
    /\ d.events \subseteq [order : Orders, at : Moments] /\ IsFiniteSet(d.events)

TrueEvent(o) == [order |-> o, at |-> when[o]]

\* The event of a shipped order is there unless the one edit took it away, and
\* before anybody edits the outbox there is no other.
OutboxTrue(d) ==
    /\ tampered <= 1 => \A o \in Shipped(d) :
          /\ when[o] \in Moments /\ d.shipped[o] \in {None, when[o]}
          /\ TrueEvent(o) \in d.events \/ (tampered # 0 /\ EventsOf(d, o) = {})
    /\ tampered = 0 => \A e \in d.events : /\ d.orders[e.order] \in {"shipped", "gone"}
                                           /\ e = TrueEvent(e.order)

Preflighted(d) == \A x \in Unstamped(d) : Cardinality(EventsOf(d, x)) = 1

\* What the revision has promised, or is still to do.
Promised(d, todo) ==
    /\ d.rev < 4 => Shipped(d) = {} \/ \E i \in DOMAIN todo : todo[i] = Drop("sales_orders")
    /\ d.rev >= 5 => d.synthetic # "pending" \/ \E i \in DOMAIN todo : todo[i].op = "retire"
    /\ d.rev >= 8 => Unstamped(d) = {} \/ \E i \in DOMAIN todo : todo[i].op = "backfill"

\* Nothing is filled in that has not been looked at just before.
LooksFirst(d, todo) ==
    \A i \in DOMAIN todo : todo[i].op = "backfill" =>
        IF i = 1 THEN Preflighted(d) ELSE todo[i - 1].op = "preflight"

HistoryInv ==
    /\ tampered \in 0..MaxTampering
    /\ when \in [Orders -> Moments \cup {None}]
    /\ DatabaseType(db) /\ OutboxTrue(db) /\ Promised(db, <<>>)
    /\ Idle \/ /\ txn = [db |-> txn.db, goal |-> txn.goal, todo |-> txn.todo]
               /\ txn.goal \in 0..LastRevision /\ IsScript(txn.todo)
               /\ \A i \in DOMAIN txn.todo : MayDo(txn.todo[i], txn.db.rev)
               /\ DatabaseType(txn.db) /\ OutboxTrue(txn.db)
               /\ Promised(txn.db, txn.todo) /\ LooksFirst(txn.db, txn.todo)

--------------------------------------------------------------------------------
(* And one for SchemaOfRevision and MigrationsSucceed: the objects and the codes. *)

\* What the operations of a kind are about.
What(op, s) == {s[i].what : i \in {j \in DOMAIN s : s[j].op = op}}

\* Between revisions the schema is that of the revision, and within a script less
\* what is still to be made, or with what is still to be dropped.
SchemaIs(d, todo) ==
    /\ d.schema = [x \in (DOMAIN Fresh[d.rev].schema \ What("create", todo)) \cup What("drop", todo)
                     |-> Fresh[LastRevision].schema[x]]
    /\ d.codes = (Fresh[d.rev].codes \ (UNION What("seed", todo))) \cup (UNION What("unseed", todo))
                 \cup IF "permissions" \in What("drop", todo) THEN Fresh[9].codes ELSE {}

\* What is left of an upgrade: each object once, after what it needs, and the check
\* of 0008 after the filling in.
UpScript(todo, rev) ==
    /\ \A i \in DOMAIN todo : todo[i].op \notin {"drop", "unseed"}
    /\ \A i \in DOMAIN todo : todo[i].op = "create" =>
          /\ todo[i].what \in DOMAIN Fresh[rev].schema
          /\ todo[i].needs \subseteq DOMAIN Fresh[rev].schema
          /\ Fresh[LastRevision].schema[todo[i].what] = [needs |-> todo[i].needs, of |-> todo[i].of]
          /\ todo[i].what = "ck_sales_orders_shipped_has_shipped_at" => rev = 8
    /\ \A i, j \in DOMAIN todo : i <= j =>
          /\ todo[i].op = "create" /\ todo[j].op = "create" =>
                todo[j].what \notin todo[i].needs /\ (i # j => todo[j].what # todo[i].what)
          /\ todo[i].op = "create" /\ todo[i].what = "ck_sales_orders_shipped_has_shipped_at" =>
                todo[j].op # "backfill"
          /\ todo[i].op = "seed" /\ todo[j].op = "seed" => i = j
    /\ \A i \in DOMAIN todo : todo[i].op = "seed" => todo[i].what \subseteq Fresh[rev].codes

\* What is left of a downgrade: each object once, before what it needs.
DownScript(todo, rev) ==
    /\ \A i \in DOMAIN todo : todo[i].op \in {"drop", "unseed"}
    /\ \A i \in DOMAIN todo : todo[i].op = "drop" =>
          todo[i].what \in DOMAIN Fresh[LastRevision].schema \ DOMAIN Fresh[rev].schema
    /\ \A i, j \in DOMAIN todo : i <= j =>
          /\ todo[i].op = "drop" /\ todo[j].op = "drop" =>
                /\ todo[i].what \notin Fresh[LastRevision].schema[todo[j].what].needs
                /\ i # j => todo[j].what # todo[i].what
          /\ todo[i].op = "unseed" /\ todo[j].op = "unseed" => i = j
    /\ \A i \in DOMAIN todo : todo[i].op = "unseed" =>
          todo[i].what \cap Fresh[rev].codes = {} /\ "permissions" \notin What("drop", todo)
    /\ "permissions" \in What("drop", todo) => Fresh[rev].codes = {}

SchemaInv ==
    /\ SchemaIs(db, <<>>)
    /\ Idle \/ /\ SchemaIs(txn.db, txn.todo)
               /\ UpScript(txn.todo, txn.db.rev) \/ DownScript(txn.todo, txn.db.rev)
    /\ MigrationsSucceed
================================================================================
