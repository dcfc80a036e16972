------------------------------ MODULE Provisioning ------------------------------
(***************************************************************************)
(* What the commands under app/cli write into a migrated database, at the  *)
(* same time and killed anywhere:                                          *)
(*                                                                         *)
(*   bootstrap_admin      the first administrator, in one transaction      *)
(*   seed_demo            the demo data, one transaction for each row      *)
(*   demo_o2c             one order over HTTP, one request for each row    *)
(*   manage_companies,    a company or a reference row                     *)
(*   manage_reference_data                                                 *)
(*                                                                         *)
(* At most one seed and one demo run at a time. Rows that a command makes  *)
(* the same way one after another are one row here: the currency and the   *)
(* unit, the five accounts, a job's customer and product.                  *)
(***************************************************************************)
EXTENDS Integers, Sequences, FiniteSets, Functions

CONSTANTS
    Boots,          \* runs of bootstrap_admin
    Codes,          \* codes of companies
    CodeOf,         \* the code each run of bootstrap_admin is given
    Main,           \* the code the seed makes a company with when it is given none
    SeedCode,       \* the code the seed is given, or None
    SeedTags,       \* the scenarios of the seed, in order
    DemoTag,        \* the order of the demo
    Goal,           \* how far each goes: "shipped", "invoiced" or "paid"
    Qty,
    Desired,        \* on-hand stock once everything has been shipped
    Spoilable,      \* kinds of rows that somebody may have made differently
    MaxKills,       \* bounds the commands killed
    MaxMeddling,    \* bounds what everybody else does
    None

Jobs == {"seed", "demo"}
Tags == {SeedTags[i] : i \in DOMAIN SeedTags} \cup {DemoTag}

ASSUME ProvisioningAssumption ==
    /\ CodeOf \in [Boots -> Codes] /\ Main \in Codes /\ SeedCode \in Codes \cup {None}
    /\ None \notin Codes /\ DemoTag \notin {SeedTags[i] : i \in DOMAIN SeedTags}
    /\ SeedTags \in Seq(Tags)
    /\ Goal \in [Tags -> {"shipped", "invoiced", "paid"}]
    /\ Qty \in [Tags -> Nat] /\ Desired \in [Jobs -> Nat]
    /\ MaxKills \in Nat /\ MaxMeddling \in Nat

TenantKinds == {"account", "period", "seed_product", "demo_product"}
Keys == {<<"currency", None>>} \cup ({"company"} \cup TenantKinds) \X Codes

VARIABLES
    rows,       \* of each natural key: "none", "right" or "wrong" for the commands
    boots,        \* the transaction of each run of bootstrap_admin
    admins,     \* the administrators and their companies
    job,        \* the seed and the demo
    docs,       \* the documents of each order
    onHand,     \* stock of each job's product
    meddled,    \* history: somebody touched the documents of a run under way
    kills, meddling

vars == <<rows, boots, admins, job, docs, onHand, meddled, kills, meddling>>
BootVars == <<boots, admins>>
JobVars == <<job, docs, onHand>>
Counters == <<kills, meddling>>

Stopped(outcome) == [at |-> 0, phase |-> "look", company |-> None, saw |-> 0, outcome |-> outcome]
Running(n, c) == [at |-> n, phase |-> "look", company |-> c, saw |-> 0, outcome |-> "none"]
NoDocs == [orders |-> 0, status |-> "none", issued |-> 0, live |-> 0, paid |-> FALSE, allocated |-> 0]

Init ==
    /\ rows = [k \in Keys |-> "none"]
    /\ boots = [b \in Boots |-> [pc |-> "idle", added |-> {}]]
    /\ admins = {}
    /\ job = [j \in Jobs |-> Stopped("none")]
    /\ docs = [t \in Tags |-> NoDocs]
    /\ onHand = [j \in Jobs |-> 0]
    /\ meddled = [j \in Jobs |-> FALSE]
    /\ kills = 0 /\ meddling = 0

Existing == {c \in Codes : rows[<<"company", c>>] # "none"}

\* The keys inserted and not yet committed: another insert of one waits.
Held == UNION {boots[b].added : b \in Boots}

--------------------------------------------------------------------------------
(* bootstrap_admin *)

Ended == {"idle", "ended"}

\* Mutant: without the advisory lock.
NoLock(b) == TRUE

LockFree(b) == \A x \in Boots : boots[x].pc \in Ended

BootGoes(b, pc) == boots' = [boots EXCEPT ![b].pc = pc]

\* It is refused, fails, dies or has committed: its locks go.
BootEnds(b) == boots' = [boots EXCEPT ![b] = [pc |-> "ended", added |-> {}]]

\* The lock, and the count of the users under it.
Begin(b) ==
    /\ boots[b].pc = "idle" /\ LockFree(b)
    /\ IF admins # {} THEN BootEnds(b) ELSE BootGoes(b, "list_currencies")
    /\ UNCHANGED <<rows, admins>>

ListCurrencies(b) ==
    /\ boots[b].pc = "list_currencies"
    /\ BootGoes(b, IF rows[<<"currency", None>>] = "none" THEN "insert_currency" ELSE "list_companies")
    /\ UNCHANGED <<rows, admins>>

\* A row somebody has committed since fails the insert and so the transaction.
Insert(b, k, next) ==
    /\ k \notin Held
    /\ IF rows[k] = "none"
       THEN boots' = [boots EXCEPT ![b] = [pc |-> next, added |-> @.added \cup {k}]]
       ELSE BootEnds(b)
    /\ UNCHANGED <<rows, admins>>

InsertCurrency(b) == boots[b].pc = "insert_currency" /\ Insert(b, <<"currency", None>>, "list_companies")

\* The company of that code, unless its currency is not TWD; with another company
\* there, none is made.
ListCompanies(b) ==
    /\ boots[b].pc = "list_companies"
    /\ CASE rows[<<"company", CodeOf[b]>>] = "right" -> BootGoes(b, "commit")
         [] rows[<<"company", CodeOf[b]>>] = "wrong" -> BootEnds(b)
         [] Existing = {} -> BootGoes(b, "insert_company")
         [] OTHER -> BootEnds(b)
    /\ UNCHANGED <<rows, admins>>

InsertCompany(b) == boots[b].pc = "insert_company" /\ Insert(b, <<"company", CodeOf[b]>>, "commit")

\* The user, the grant and the commit.
CommitAdmin(b) ==
    /\ boots[b].pc = "commit"
    /\ rows' = [k \in Keys |-> IF k \in boots[b].added THEN "right" ELSE rows[k]]
    /\ admins' = admins \cup {[boot |-> b, company |-> CodeOf[b]]}
    /\ BootEnds(b)

BootStep(b) ==
    /\ \/ Begin(b) \/ ListCurrencies(b) \/ InsertCurrency(b)
       \/ ListCompanies(b) \/ InsertCompany(b) \/ CommitAdmin(b)
    /\ UNCHANGED <<JobVars, meddled, Counters>>

--------------------------------------------------------------------------------
(* The seed and the demo: a script of steps, each resumed from what is there *)

SeedScript ==
    << <<"row", "currency">>, <<"company", None>>, <<"row", "account">>, <<"row", "period">>,
       <<"row", "seed_product">>, <<"stock", None>> >>
    \o [i \in DOMAIN SeedTags |-> <<"order", SeedTags[i]>>]
    \o << <<"check", None>> >>

DemoScript ==
    << <<"login", None>>, <<"row", "period">>, <<"row", "account">>, <<"row", "demo_product">>,
       <<"stock", None>>, <<"order", DemoTag>> >>

Script(j) == IF j = "seed" THEN SeedScript ELSE DemoScript
TagsOf(j) == IF j = "seed" THEN Tags \ {DemoTag} ELSE {DemoTag}

LastStep(j) == Len(Script(j))
Kind(j, n) == Script(j)[n][1]
Object(j, n) == Script(j)[n][2]

At(j, kind, phase) == job[j].at # 0 /\ Kind(j, job[j].at) = kind /\ job[j].phase = phase
Arg(j) == Object(j, job[j].at)

Phase(j, phase) == job' = [job EXCEPT ![j].phase = phase]
Fails(j) == job' = [job EXCEPT ![j] = Stopped("failed")]

\* On to the next step, in company c.
OnwardIn(j, c) ==
    job' = [job EXCEPT ![j] = IF job[j].at = LastStep(j) THEN Stopped("done") ELSE Running(job[j].at + 1, c)]

Onward(j) == OnwardIn(j, job[j].company)

\* A bound: a demo that is done is not run again, the seed is.
Start(j) ==
    /\ job[j].at = 0 /\ (j = "demo" => job[j].outcome # "done")
    /\ job' = [job EXCEPT ![j] = Running(1, None)]
    /\ meddled' = [meddled EXCEPT ![j] = FALSE]
    /\ UNCHANGED <<rows, BootVars, docs, onHand, Counters>>

KeyAt(j, run) ==
    <<Object(j, run.at), IF Object(j, run.at) = "currency" THEN None ELSE run.company>>

RowKey(j) == KeyAt(j, job[j])

\* A row that is there must be the one that the command would have made.
Check(j, k, next) == IF rows[k] = "right" THEN next ELSE Fails(j)

LookForRow(j) ==
    /\ At(j, "row", "look")
    /\ IF rows[RowKey(j)] = "none" THEN Phase(j, "create") ELSE Check(j, RowKey(j), Onward(j))
    /\ UNCHANGED <<rows, docs, onHand>>

\* Mutant: a creation that conflicts is fatal.
ConflictFails(j) == Fails(j)

Conflicted(j) == Phase(j, "look_again")

Create(j, k, next) ==
    /\ k \notin Held
    /\ IF rows[k] = "none"
       THEN rows' = [rows EXCEPT ![k] = "right"] /\ next
       ELSE Conflicted(j) /\ UNCHANGED rows
    /\ UNCHANGED <<docs, onHand>>

CreateRow(j) == At(j, "row", "create") /\ Create(j, RowKey(j), Onward(j))

\* With no matching row there, it fails as well.
LookAgain(j) ==
    /\ At(j, "row", "look_again")
    /\ Check(j, RowKey(j), Onward(j))
    /\ UNCHANGED <<rows, docs, onHand>>

--------------------------------------------------------------------------------
(* The company of the seed, and the login of the demo *)

MainCode == IF SeedCode = None THEN Main ELSE SeedCode

\* The company of the code it is given, or the only one; made when there is none.
Suitable == {c \in Existing : IF SeedCode = None THEN Existing = {c} ELSE c = SeedCode}

LookForCompany(j) ==
    /\ At(j, "company", "look")
    /\ IF Existing = {} THEN Phase(j, "create")
       ELSE IF \E c \in Suitable : rows[<<"company", c>>] = "right"
       THEN \E c \in Suitable : OnwardIn(j, c)
       ELSE Fails(j)
    /\ UNCHANGED <<rows, docs, onHand>>

CreateCompany(j) ==
    At(j, "company", "create") /\ Create(j, <<"company", MainCode>>, OnwardIn(j, MainCode))

LookAgainForCompany(j) ==
    /\ At(j, "company", "look_again")
    /\ Check(j, <<"company", MainCode>>, OnwardIn(j, MainCode))
    /\ UNCHANGED <<rows, docs, onHand>>

Login(j) ==
    /\ At(j, "login", "look")
    /\ IF admins = {} THEN Fails(j) ELSE \E a \in admins : OnwardIn(j, a.company)
    /\ UNCHANGED <<rows, docs, onHand>>

--------------------------------------------------------------------------------
(* Stock *)

\* Mutant: stock for every order, shipped or not.
AllOrders(j) == TagsOf(j)

Unshipped(j) == {t \in TagsOf(j) : docs[t].status # "shipped"}

Target(j) == Desired[j] + SumFunction([t \in Unshipped(j) |-> Qty[t]])

\* What is still to ship and what is there, then the difference as an adjustment.
LookAtStock(j) ==
    /\ At(j, "stock", "look")
    /\ IF onHand[j] = Target(j) THEN Onward(j)
       ELSE job' = [job EXCEPT ![j].phase = "adjust", ![j].saw = Target(j) - onHand[j]]
    /\ UNCHANGED <<rows, docs, onHand>>

Adjust(j) ==
    /\ At(j, "stock", "adjust")
    /\ IF onHand[j] + job[j].saw < 0
       THEN Fails(j) /\ UNCHANGED onHand
       ELSE Onward(j) /\ onHand' = [onHand EXCEPT ![j] = @ + job[j].saw]
    /\ UNCHANGED <<rows, docs>>

\* The seed does not trust its own sums.
CheckStock(j) ==
    /\ At(j, "check", "look")
    /\ IF onHand[j] = Desired[j] THEN Onward(j) ELSE Fails(j)
    /\ UNCHANGED <<rows, docs, onHand>>

--------------------------------------------------------------------------------
(* An order, from whatever state it is in *)

\* Mutant: an order is made without a look for its tag.
BlindResume(t) == "create_order"

Resume(t) ==
    CASE docs[t].status = "none"      -> "create_order"
      [] docs[t].status = "draft"     -> "confirm"
      [] docs[t].status = "confirmed" -> "ship"
      [] docs[t].status = "shipped"   -> "shipped"

AfterShipping(j) == IF Goal[Arg(j)] = "shipped" THEN Onward(j) ELSE Phase(j, "find_invoice")

FindOrder(j) ==
    /\ At(j, "order", "look")
    /\ IF Resume(Arg(j)) = "shipped" THEN AfterShipping(j) ELSE Phase(j, Resume(Arg(j)))
    /\ UNCHANGED <<rows, docs, onHand>>

CreateOrder(j) ==
    /\ At(j, "order", "create_order")
    /\ docs' = [docs EXCEPT ![Arg(j)].orders = @ + 1, ![Arg(j)].status = "draft"]
    /\ Phase(j, "confirm")
    /\ UNCHANGED <<rows, onHand>>

Confirm(j) ==
    /\ At(j, "order", "confirm")
    /\ docs' = [docs EXCEPT ![Arg(j)].status = "confirmed"]
    /\ Phase(j, "ship")
    /\ UNCHANGED <<rows, onHand>>

\* Stock does not go below zero.
Ship(j) ==
    /\ At(j, "order", "ship")
    /\ IF onHand[j] < Qty[Arg(j)]
       THEN Fails(j) /\ UNCHANGED <<docs, onHand>>
       ELSE /\ docs' = [docs EXCEPT ![Arg(j)].status = "shipped"]
            /\ onHand' = [onHand EXCEPT ![j] = @ - Qty[Arg(j)]]
            /\ AfterShipping(j)
    /\ UNCHANGED rows

AfterInvoice(j, i) ==
    IF Goal[Arg(j)] = "invoiced" THEN Onward(j)
    ELSE job' = [job EXCEPT ![j].phase = "find_payment", ![j].saw = i]

FindInvoice(j) ==
    /\ At(j, "order", "find_invoice")
    /\ IF docs[Arg(j)].live = 0 THEN Phase(j, "issue") ELSE AfterInvoice(j, docs[Arg(j)].live)
    /\ UNCHANGED <<rows, docs, onHand>>

\* Somebody may have issued one since: the seed takes it, the demo gives up.
Issue(j) ==
    /\ At(j, "order", "issue")
    /\ IF docs[Arg(j)].live = 0
       THEN LET i == docs[Arg(j)].issued + 1
            IN docs' = [docs EXCEPT ![Arg(j)].issued = i, ![Arg(j)].live = i] /\ AfterInvoice(j, i)
       ELSE /\ IF j = "seed" THEN AfterInvoice(j, docs[Arg(j)].live) ELSE Fails(j)
            /\ UNCHANGED docs
    /\ UNCHANGED <<rows, onHand>>

FindPayment(j) ==
    /\ At(j, "order", "find_payment")
    /\ Phase(j, IF docs[Arg(j)].paid THEN "allocate" ELSE "receive")
    /\ UNCHANGED <<rows, docs, onHand>>

Receive(j) ==
    /\ At(j, "order", "receive")
    /\ docs' = [docs EXCEPT ![Arg(j)].paid = TRUE]
    /\ Phase(j, "allocate")
    /\ UNCHANGED <<rows, onHand>>

\* The same reference and the same invoice again change nothing.
Allocate(j) ==
    /\ At(j, "order", "allocate")
    /\ LET d == docs[Arg(j)] IN
         CASE d.allocated = job[j].saw -> Onward(j) /\ UNCHANGED docs
           [] d.allocated = 0 /\ d.live = job[j].saw ->
                Onward(j) /\ docs' = [docs EXCEPT ![Arg(j)].allocated = job[j].saw]
           [] OTHER -> Fails(j) /\ UNCHANGED docs
    /\ UNCHANGED <<rows, onHand>>

JobStep(j) ==
    /\ \/ LookForRow(j) \/ CreateRow(j) \/ LookAgain(j)
       \/ LookForCompany(j) \/ CreateCompany(j) \/ LookAgainForCompany(j) \/ Login(j)
       \/ LookAtStock(j) \/ Adjust(j) \/ CheckStock(j)
       \/ FindOrder(j) \/ CreateOrder(j) \/ Confirm(j) \/ Ship(j)
       \/ FindInvoice(j) \/ Issue(j) \/ FindPayment(j) \/ Receive(j) \/ Allocate(j)
    /\ UNCHANGED <<BootVars, meddled, Counters>>

--------------------------------------------------------------------------------
(* Kills, and everybody else *)

KillBoot(b) ==
    /\ boots[b].pc \notin Ended /\ kills < MaxKills
    /\ BootEnds(b)
    /\ kills' = kills + 1
    /\ UNCHANGED <<rows, admins, JobVars, meddled, meddling>>

KillJob(j) ==
    /\ job[j].at # 0 /\ kills < MaxKills
    /\ job' = [job EXCEPT ![j] = Stopped("none")]
    /\ kills' = kills + 1
    /\ UNCHANGED <<rows, BootVars, docs, onHand, meddled, meddling>>

\* manage_companies, manage_reference_data or a user makes a row.
MakeRow(k, state) ==
    /\ meddling < MaxMeddling /\ rows[k] = "none" /\ k \notin Held
    /\ state = "wrong" => k[1] \in Spoilable
    /\ k[1] = "company" => rows[<<"currency", None>>] # "none"
    /\ k[1] \in TenantKinds => rows[<<"company", k[2]>>] # "none"
    /\ rows' = [rows EXCEPT ![k] = state]
    /\ meddling' = meddling + 1
    /\ UNCHANGED <<BootVars, JobVars, meddled, kills>>

Meddle(j) ==
    /\ meddling < MaxMeddling
    /\ meddling' = meddling + 1
    /\ meddled' = [meddled EXCEPT ![j] = job[j].at # 0]
    /\ UNCHANGED <<rows, BootVars, job, kills>>

MoveStock(j, d) ==
    /\ onHand[j] # 0 /\ onHand[j] + d >= 0
    /\ onHand' = [onHand EXCEPT ![j] = @ + d]
    /\ Meddle(j) /\ UNCHANGED docs

IssueInvoice(j, t) ==
    /\ docs[t].status = "shipped" /\ docs[t].live = 0
    /\ docs' = [docs EXCEPT ![t].issued = @ + 1, ![t].live = docs[t].issued + 1]
    /\ Meddle(j) /\ UNCHANGED onHand

VoidInvoice(j, t) ==
    /\ docs[t].live # 0 /\ docs[t].allocated = 0
    /\ docs' = [docs EXCEPT ![t].live = 0]
    /\ Meddle(j) /\ UNCHANGED onHand

Next ==
    \/ \E b \in Boots : BootStep(b) \/ KillBoot(b)
    \/ \E j \in Jobs : \/ Start(j) \/ JobStep(j) \/ KillJob(j)
                       \/ \E d \in {-1, 1} : MoveStock(j, d)
                       \/ \E t \in TagsOf(j) : IssueInvoice(j, t) \/ VoidInvoice(j, t)
    \/ \E k \in Keys, state \in {"right", "wrong"} : MakeRow(k, state)

--------------------------------------------------------------------------------
Complete ==
    /\ onHand["seed"] = Desired["seed"]
    /\ \A t \in TagsOf("seed") :
         /\ docs[t].status = "shipped"
         /\ Goal[t] # "shipped" => docs[t].live # 0
         /\ Goal[t] = "paid" => docs[t].allocated # 0

Spec == Init /\ [][Next]_vars

Wrong == \E k \in Keys : rows[k] = "wrong"

\* What the seed cannot get around: a row somebody else made differently, or no
\* one company to work in.
Obstacle == Wrong \/ (Existing # {} /\ Suitable = {})

\* However many first installs run at once, one makes the administrator, of a
\* company that is there and in TWD.
FirstAdminOnce ==
    /\ Cardinality(admins) <= 1
    /\ \A a \in admins : rows[<<"company", a.company>>] = "right"

\* However often a command was killed and run again, an order of a scenario was
\* made once, and every payment allocated to an invoice that is still there.
NeverDuplicated ==
    \A t \in Tags : docs[t].orders <= 1 /\ docs[t].allocated \in {0, docs[t].live}

\* A command fails because of somebody else's row, company or hand in its
\* documents, or as there is no administrator yet: never because of a race it can
\* recover from, nor of what an earlier run of its own left behind.
FailsOnlyForCause ==
    [][\A j \in Jobs : job[j].at # 0 /\ job'[j].outcome = "failed" =>
         meddled[j] \/ (IF j = "seed" THEN Obstacle ELSE Wrong \/ admins = {})]_vars

--------------------------------------------------------------------------------
(* The inductive invariant behind the theorems of ProvisioningProofs. *)

Installing == {"list_currencies", "insert_currency", "list_companies", "insert_company", "commit"}
Phases == {"look", "create", "look_again", "adjust", "create_order", "confirm", "ship", "shipped",
           "find_invoice", "issue", "find_payment", "receive", "allocate"}
IsRun(run) ==
    /\ run = [field \in {"at", "phase", "company", "saw", "outcome"} |-> run[field]]
    /\ run.phase \in Phases
Documents == [orders : Nat, status : {"none", "draft", "confirmed", "shipped"},
              issued : Nat, live : Nat, paid : BOOLEAN, allocated : Nat]

\* Every variable that the theorems are about has its type.
TypeOK ==
    /\ rows \in [Keys -> {"none", "right", "wrong"}]
    /\ boots \in [Boots -> [pc : Installing \cup Ended, added : SUBSET Keys]]
    /\ job = [j \in Jobs |-> job[j]] /\ \A j \in Jobs : IsRun(job[j])
    /\ docs \in [Tags -> Documents]

\* The advisory lock has one holder, who found no administrator; at its commit it
\* has a company that is right.
OneInstalls ==
    /\ \A b, c \in Boots : boots[b].pc \in Installing /\ boots[c].pc \in Installing => b = c
    /\ \A b \in Boots : boots[b].pc \in Installing => admins = {}
    /\ \A b \in Boots : boots[b].pc = "commit" =>
          rows[<<"company", CodeOf[b]>>] = "right" \/ <<"company", CodeOf[b]>> \in boots[b].added
    /\ \A a, c \in admins : a = c
    /\ \A a \in admins : a.company \in Codes /\ rows[<<"company", a.company>>] = "right"

\* A job is about to make an order that is not there yet, or moves one that is.
Settled(j, run) ==
    /\ run.at \in 0..LastStep(j)
    /\ run.at # 0 /\ Kind(j, run.at) = "order" =>
          /\ run.phase = "create_order" => docs[Object(j, run.at)].status = "none"
          /\ run.phase \in {"confirm", "ship"} => docs[Object(j, run.at)].status # "none"

\* An order that is there was made once, and is paid by one invoice at most.
Single(doc) ==
    /\ doc.orders = IF doc.status = "none" THEN 0 ELSE 1
    /\ doc.allocated \in {0, doc.live}

OrderedOnce ==
    (\A j \in Jobs : Settled(j, job[j])) /\ (\A t \in Tags : Single(docs[t]))

ProvisioningInv == TypeOK /\ OneInstalls /\ OrderedOnce

\* The steps at which a job learns its company and counts its stock.
CompanyStep(j) == IF j = "seed" THEN 2 ELSE 1
StockStep(j) == IF j = "seed" THEN 6 ELSE 5

\* A job that is past them has a company, and has shipped the orders it has passed.
Placed(j, run) ==
    /\ run.outcome = "none"
    /\ run.at > CompanyStep(j) => run.company \in Codes
    /\ \A i \in 1..(run.at - 1) : Kind(j, i) = "order" => docs[Object(j, i)].status = "shipped"

\* It looks again for a row only when there is one.
Met(j, run) ==
    run.phase = "look_again" =>
        /\ Kind(j, run.at) = "row" => rows[KeyAt(j, run)] # "none"
        /\ Kind(j, run.at) = "company" => rows[<<"company", MainCode>>] # "none"

\* Unless somebody moved it, its stock is what is still to ship and what is wanted.
Stocked(j, run) ==
    /\ Kind(j, run.at) = "stock" /\ run.phase = "adjust" =>
          run.saw \in Int /\ (~meddled[j] => onHand[j] + run.saw = Target(j))
    /\ ~meddled[j] /\ run.at > StockStep(j) => onHand[j] = Target(j)

\* The order in hand is as far as the job believes, and unless somebody touched
\* them so are its documents.
Believes(j, run) ==
    LET d == docs[Object(j, run.at)] IN
    Kind(j, run.at) = "order" =>
        /\ run.phase \in {"create_order", "confirm", "ship"} => d.status # "shipped"
        /\ run.phase \in {"find_invoice", "issue", "find_payment", "receive", "allocate"} =>
              d.status = "shipped"
        /\ run.phase = "issue" /\ ~meddled[j] => d.live = 0
        /\ run.phase \in {"find_payment", "receive", "allocate"} /\ ~meddled[j] =>
              d.live = run.saw

Reliable(j, run) ==
    run.at # 0 => Placed(j, run) /\ Met(j, run) /\ Stocked(j, run) /\ Believes(j, run)

CauseInv ==
    /\ ProvisioningInv
    /\ onHand \in [Jobs -> Int] /\ meddled \in [Jobs -> BOOLEAN]
    /\ \A j \in Jobs : Reliable(j, job[j])
================================================================================
