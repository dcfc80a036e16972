--------------------------- MODULE ProvisioningProofs ---------------------------
(***************************************************************************)
(* Theorems about the commands of app/cli, alone (Spec) and on a database  *)
(* that the migrations made (InstallSpec): for every set of first          *)
(* installs, codes and scenarios, and every bound on kills and meddling.   *)
(* The last two parts are about the migrations themselves: for every set   *)
(* of orders and moments and every number of commands and of edits of the  *)
(* outbox by hand.                                                         *)
(***************************************************************************)
EXTENDS Install, Sums, SequenceTheorems

(* The scripts. *)

\* The steps of a script: the orders among them are of its own scenarios.
Plain == {"row", "company", "stock", "check", "login"}
          \X {None, "currency", "account", "period", "seed_product", "demo_product"}
Steps(j) == Plain \cup ({"order"} \X TagsOf(j))

\* Six things in a row, and one.
LEMMA SixInARow ==
    ASSUME NEW S, NEW a \in S, NEW b \in S, NEW c \in S, NEW d \in S, NEW e \in S, NEW f \in S
    PROVE  <<a, b, c, d, e, f>> \in Seq(S) /\ Len(<<a, b, c, d, e, f>>) = 6
OBVIOUS

LEMMA OneInARow ==
    ASSUME NEW S, NEW a \in S
    PROVE  <<a>> \in Seq(S) /\ Len(<<a>>) = 1
OBVIOUS

\* Three sequences one after another.
LEMMA LongerInARow ==
    ASSUME NEW S, NEW p \in Seq(S), NEW q \in Seq(S), NEW r \in Seq(S), Len(p) = 6
    PROVE  p \o q \o r \in Seq(S) /\ Len(p \o q \o r) # 0
<1>1. Len(q) \in Nat /\ Len(r) \in Nat
  OBVIOUS
<1>2. p \o q \in Seq(S) /\ Len(p \o q) = Len(p) + Len(q)
  BY ConcatProperties, Zenon
<1>3. p \o q \o r \in Seq(S) /\ Len(p \o q \o r) = Len(p \o q) + Len(r)
  BY <1>2, ConcatProperties, Zenon
<1>4. Len(p \o q \o r) # 0
  BY <1>1, <1>2, <1>3
<1> QED
  BY <1>3, <1>4

\* A script is a sequence of them.
LEMMA ScriptType ==
    ASSUME NEW j \in Jobs
    PROVE  Script(j) \in Seq(Steps(j)) /\ Len(Script(j)) # 0
<1> DEFINE S == Steps(j)
<1>1. /\ <<"row", "currency">> \in S /\ <<"company", None>> \in S /\ <<"row", "account">> \in S
      /\ <<"row", "period">> \in S /\ <<"row", "seed_product">> \in S /\ <<"stock", None>> \in S
      /\ <<"check", None>> \in S /\ <<"login", None>> \in S /\ <<"row", "demo_product">> \in S
      /\ \A t \in TagsOf(j) : <<"order", t>> \in S
  BY DEF Steps, Plain
<1> HIDE DEF S
<1>2. CASE j = "demo"
  <2>1. Script(j) = DemoScript /\ DemoTag \in TagsOf(j)
    BY <1>2 DEF Script, TagsOf
  <2>2. DemoScript \in Seq(S) /\ Len(DemoScript) = 6
    BY <1>1, <2>1, SixInARow DEF DemoScript
  <2> QED
    BY <2>1, <2>2 DEF S
<1>3. CASE j = "seed"
  <2> DEFINE first == << <<"row", "currency">>, <<"company", None>>, <<"row", "account">>,
                         <<"row", "period">>, <<"row", "seed_product">>, <<"stock", None>> >>
             orders == [i \in DOMAIN SeedTags |-> <<"order", SeedTags[i]>>]
             last == << <<"check", None>> >>
  <2>1. first \in Seq(S) /\ Len(first) = 6
    BY <1>1, SixInARow
  <2>2. last \in Seq(S) /\ Len(last) = 1
    BY <1>1, OneInARow
  <2>3. DOMAIN SeedTags = 1..Len(SeedTags) /\ Len(SeedTags) \in Nat
    BY ProvisioningAssumption
  <2>4. \A i \in DOMAIN SeedTags : SeedTags[i] \in TagsOf(j)
    BY <1>3, ProvisioningAssumption DEF TagsOf, Tags
  <2>5. orders \in Seq(S) /\ Len(orders) = Len(SeedTags)
    <3>1. \A i \in DOMAIN SeedTags : <<"order", SeedTags[i]>> \in S
      BY <1>1, <2>4
    <3> QED
      BY <2>3, <3>1
  <2>6. Script(j) = first \o orders \o last
    BY <1>3 DEF Script, SeedScript
  <2> HIDE DEF first, orders, last
  <2>7. PICK p \in Seq(S), q \in Seq(S), r \in Seq(S) :
           Script(j) = p \o q \o r /\ Len(p) = 6
    BY <2>1, <2>2, <2>5, <2>6
  <2>8. p \o q \o r \in Seq(S) /\ Len(p \o q \o r) # 0
    BY <2>7, LongerInARow
  <2> QED
    BY <2>7, <2>8 DEF S
<1> QED
  BY <1>2, <1>3 DEF Jobs

\* So the order in hand is one of the job's own.
LEMMA Scripts ==
    ASSUME NEW j \in Jobs
    PROVE  /\ LastStep(j) \in Nat \ {0}
           /\ \A i \in 1..LastStep(j) :
                 Kind(j, i) = "order" => Object(j, i) \in TagsOf(j)
<1>1. Script(j) \in Seq(Steps(j)) /\ Len(Script(j)) # 0
  BY ScriptType
<1>2. \A i \in 1..Len(Script(j)) : Script(j)[i] \in Steps(j)
  BY <1>1
<1>3. \A p \in Steps(j) : p[1] = "order" => p[2] \in TagsOf(j)
  BY DEF Steps, Plain
<1> QED
  BY <1>1, <1>2, <1>3 DEF Kind, Object, LastStep

--------------------------------------------------------------------------------
(* The first administrator. *)

\* Every code has the key of its company.
LEMMA CompanyKey ==
    ASSUME NEW c \in Codes
    PROVE  <<"company", c>> \in Keys
BY DEF Keys

\* A row that is there stays as it is, or is right.
RowsKept ==
    /\ rows' \in [Keys -> {"none", "right", "wrong"}]
    /\ \A k \in Keys : rows[k] # "none" => rows'[k] \in {"right", rows[k]}

\* Whoever makes a row makes one that was not there.
LEMMA RowMade ==
    ASSUME TypeOK, NEW k, NEW state \in {"right", "wrong"}, rows[k] = "none",
           rows' = [rows EXCEPT ![k] = state]
    PROVE  RowsKept
BY DEF TypeOK, RowsKept

\* Steps that leave the first installs alone.
LEMMA BootsAlone ==
    ASSUME TypeOK, OneInstalls, UNCHANGED <<boots, admins>>, RowsKept
    PROVE  OneInstalls'
<1>1. \A c \in Codes : rows[<<"company", c>>] = "right" => rows'[<<"company", c>>] = "right"
  BY CompanyKey DEF RowsKept
<1>2. \A b \in Boots : CodeOf[b] \in Codes
  BY ProvisioningAssumption
<1> QED
  BY <1>1, <1>2 DEF OneInstalls

Transaction == [pc : Installing \cup Ended, added : SUBSET Keys]

\* A first install that goes on, or ends without effect.
LEMMA BootMoves ==
    ASSUME TypeOK, OneInstalls, NEW b \in Boots, UNCHANGED <<rows, admins>>,
           NEW new \in Transaction, boots' = [boots EXCEPT ![b] = new],
           new.pc \in Installing =>
              admins = {} /\ \A c \in Boots \ {b} : boots[c].pc \notin Installing,
           new.pc = "commit" =>
              rows[<<"company", CodeOf[b]>>] = "right" \/ <<"company", CodeOf[b]>> \in new.added
    PROVE  OneInstalls' /\ RowsKept /\ boots' \in [Boots -> Transaction]
<1>1. \A c \in Boots : boots'[c] = IF c = b THEN new ELSE boots[c]
  BY DEF TypeOK
<1>2. OneInstalls'
  BY <1>1 DEF OneInstalls
<1> QED
  BY <1>2 DEF TypeOK, RowsKept, Transaction

\* A first install ends.
LEMMA BootEndsStep ==
    ASSUME TypeOK, OneInstalls, NEW b \in Boots, UNCHANGED <<rows, admins>>, BootEnds(b)
    PROVE  OneInstalls' /\ RowsKept /\ boots' \in [Boots -> Transaction]
<1> DEFINE new == [pc |-> "ended", added |-> {}]
<1>1. new \in Transaction /\ new.pc \notin Installing /\ new.pc # "commit"
  BY DEF Transaction, Ended, Installing
<1>2. boots' = [boots EXCEPT ![b] = new]
  BY DEF BootEnds
<1> HIDE DEF new
<1> QED
  BY <1>1, <1>2, BootMoves

\* A first install that has the lock goes on, or one takes it.
LEMMA BootGoesStep ==
    ASSUME TypeOK, OneInstalls, NEW b \in Boots, UNCHANGED <<rows, admins>>,
           NEW pc \in Installing, BootGoes(b, pc), admins = {},
           \A c \in Boots \ {b} : boots[c].pc \notin Installing,
           pc = "commit" => rows[<<"company", CodeOf[b]>>] = "right"
    PROVE  OneInstalls' /\ RowsKept /\ boots' \in [Boots -> Transaction]
<1> DEFINE new == [boots[b] EXCEPT !.pc = pc]
<1>1. boots[b] \in Transaction
  BY DEF TypeOK, Transaction
<1>2. new \in Transaction /\ new.pc = pc
  BY <1>1 DEF Transaction
<1>3. boots' = [boots EXCEPT ![b] = new]
  BY DEF BootGoes
<1> HIDE DEF new
<1> QED
  BY <1>2, <1>3, BootMoves

\* An insert waits for the others', and fails on a row that is there.
LEMMA InsertStep ==
    ASSUME TypeOK, OneInstalls, NEW b \in Boots, NEW k \in Keys, NEW next \in Installing,
           Insert(b, k, next), admins = {}, \A c \in Boots \ {b} : boots[c].pc \notin Installing,
           next = "commit" => k = <<"company", CodeOf[b]>>
    PROVE  OneInstalls' /\ RowsKept /\ boots' \in [Boots -> Transaction]
<1>1. CASE rows[k] = "none"
  <2> DEFINE new == [pc |-> next, added |-> boots[b].added \cup {k}]
  <2>1. boots[b].added \in SUBSET Keys
    BY DEF TypeOK
  <2>2. new \in Transaction /\ new.pc = next /\ k \in new.added
    BY <2>1 DEF Transaction
  <2>3. boots' = [boots EXCEPT ![b] = new] /\ UNCHANGED <<rows, admins>>
    BY <1>1 DEF Insert
  <2> HIDE DEF new
  <2> QED
    BY <2>2, <2>3, BootMoves
<1>2. CASE rows[k] # "none"
  BY <1>2, BootEndsStep DEF Insert
<1> QED
  BY <1>1, <1>2

\* The commit: nobody else had the lock, so this is the first administrator.
LEMMA CommitAdminStep ==
    ASSUME TypeOK, OneInstalls, NEW b \in Boots, CommitAdmin(b)
    PROVE  OneInstalls' /\ RowsKept /\ boots' \in [Boots -> Transaction]
<1> DEFINE key == <<"company", CodeOf[b]>>
<1>1. CodeOf[b] \in Codes /\ key \in Keys /\ boots[b].pc = "commit" /\ "commit" \in Installing
  BY ProvisioningAssumption, CompanyKey DEF CommitAdmin, Installing
<1>2. admins = {} /\ \A c \in Boots \ {b} : boots[c].pc \notin Installing
  BY <1>1 DEF OneInstalls
<1>3. RowsKept /\ rows'[key] = "right"
  BY <1>1 DEF CommitAdmin, TypeOK, RowsKept, OneInstalls
<1>4. admins' = {[boot |-> b, company |-> CodeOf[b]]}
  BY <1>2 DEF CommitAdmin
<1>5. boots' \in [Boots -> Transaction] /\ \A c \in Boots : boots'[c].pc \notin Installing
  <2>1. [pc |-> "ended", added |-> {}] \in Transaction /\ "ended" \notin Installing
    BY DEF Transaction, Ended, Installing
  <2> QED
    BY <1>2, <2>1 DEF CommitAdmin, BootEnds, TypeOK, Transaction
<1>6. OneInstalls'
  BY <1>1, <1>3, <1>4, <1>5 DEF OneInstalls
<1> QED
  BY <1>3, <1>5, <1>6

\* Every step of a first install keeps the lock's promise.
LEMMA BootStepInv ==
    ASSUME TypeOK, OneInstalls, NEW b \in Boots, BootStep(b)
    PROVE  OneInstalls' /\ RowsKept /\ boots' \in [Boots -> Transaction]
<1>1. boots[b].pc \in Installing => admins = {} /\ \A c \in Boots \ {b} : boots[c].pc \notin Installing
  BY DEF OneInstalls
<1>2. CodeOf[b] \in Codes /\ <<"company", CodeOf[b]>> \in Keys /\ <<"currency", None>> \in Keys
  BY ProvisioningAssumption, CompanyKey DEF Keys
<1>3. CASE Begin(b)
  <2>1. CASE admins # {}
    BY <1>3, <2>1, BootEndsStep DEF Begin
  <2>2. CASE admins = {}
    <3>1. \A c \in Boots : boots[c].pc \notin Installing
      BY <1>3 DEF Begin, LockFree, Ended, Installing
    <3> QED
      BY <1>3, <2>2, <3>1, BootGoesStep DEF Begin, Installing
  <2> QED
    BY <2>1, <2>2
<1>4. CASE ListCurrencies(b)
  <2>1. boots[b].pc \in Installing /\ UNCHANGED <<rows, admins>>
    BY <1>4 DEF ListCurrencies, Installing
  <2>2. PICK pc \in Installing \ {"commit"} : BootGoes(b, pc)
    BY <1>4 DEF ListCurrencies, Installing
  <2> QED
    BY <1>1, <2>1, <2>2, BootGoesStep
<1>5. CASE InsertCurrency(b)
  BY <1>1, <1>2, <1>5, InsertStep DEF InsertCurrency, Installing
<1>6. CASE ListCompanies(b)
  <2>1. boots[b].pc \in Installing /\ UNCHANGED <<rows, admins>>
    BY <1>6 DEF ListCompanies, Installing
  <2>2. CASE BootEnds(b)
    BY <2>1, <2>2, BootEndsStep
  <2>3. CASE ~BootEnds(b)
    <3>1. PICK pc \in Installing :
             BootGoes(b, pc) /\ (pc = "commit" => rows[<<"company", CodeOf[b]>>] = "right")
      BY <1>6, <2>3 DEF ListCompanies, Installing
    <3> QED
      BY <1>1, <2>1, <3>1, BootGoesStep
  <2> QED
    BY <2>2, <2>3
<1>7. CASE InsertCompany(b)
  BY <1>1, <1>2, <1>7, InsertStep DEF InsertCompany, Installing
<1>8. CASE CommitAdmin(b)
  BY <1>8, CommitAdminStep
<1> QED
  BY <1>3, <1>4, <1>5, <1>6, <1>7, <1>8 DEF BootStep

--------------------------------------------------------------------------------
(* The jobs. *)

\* The scenarios of one job are not the other's.
LEMMA TagsApart ==
    ASSUME NEW j \in Jobs
    PROVE  /\ TagsOf(j) \subseteq Tags
           /\ \A i \in Jobs \ {j} : TagsOf(i) \cap TagsOf(j) = {}
BY ProvisioningAssumption DEF Jobs, TagsOf, Tags

\* The phases that make or move no order.
Rest == Phases \ {"create_order", "confirm", "ship"}

\* A job goes to a phase of P, and stays in its step when that moves an order.
Goes(j, P) ==
    \E run : /\ job' = [job EXCEPT ![j] = run] /\ IsRun(run)
             /\ run.at \in 0..LastStep(j) /\ run.phase \in P
             /\ run.phase \in Rest \/ run.at = job[j].at

LEMMA StoppedType ==
    ASSUME NEW outcome
    PROVE  IsRun(Stopped(outcome)) /\ Stopped(outcome).at = 0 /\ Stopped(outcome).phase = "look"
BY DEF Stopped, IsRun, Phases

LEMMA RunningType ==
    ASSUME NEW n, NEW c
    PROVE  IsRun(Running(n, c)) /\ Running(n, c).at = n /\ Running(n, c).phase = "look"
BY DEF Running, IsRun, Phases

LEMMA WithinScript ==
    ASSUME NEW j \in Jobs, Settled(j, job[j])
    PROVE  job[j].at \in 0..LastStep(j)
BY DEF Settled

\* A job under way is in one of its steps.
LEMMA UnderWay ==
    ASSUME NEW j \in Jobs, Settled(j, job[j]), job[j].at # 0
    PROVE  job[j].at \in 1..LastStep(j)
<1>1. job[j].at \in 0..LastStep(j)
  BY WithinScript
<1>2. LastStep(j) \in Nat
  BY Scripts
<1> QED
  BY <1>1, <1>2

\* It stops, goes on to its next step, or to another phase of the same step.
LEMMA StopGoes ==
    ASSUME NEW j \in Jobs, NEW outcome, job' = [job EXCEPT ![j] = Stopped(outcome)]
    PROVE  Goes(j, Rest)
<1>1. 0 \in 0..LastStep(j) /\ "look" \in Rest
  BY Scripts DEF Rest, Phases
<1> QED
  BY <1>1, StoppedType DEF Goes

LEMMA OnwardGoes ==
    ASSUME OrderedOnce, NEW j \in Jobs, job[j].at # 0, NEW c, OnwardIn(j, c)
    PROVE  Goes(j, Rest)
<1>1. LastStep(j) \in Nat
  BY Scripts
<1>2. job[j].at \in 0..LastStep(j)
  BY WithinScript DEF OrderedOnce
<1>3. CASE job[j].at = LastStep(j)
  BY <1>3, StopGoes DEF OnwardIn
<1>4. CASE job[j].at # LastStep(j)
  <2>1. PICK n \in 0..LastStep(j) : n = job[j].at + 1
    BY <1>1, <1>2, <1>4
  <2>2. PICK run : run = Running(n, c) /\ run.at = n /\ run.phase = "look" /\ IsRun(run)
    BY RunningType
  <2>3. job' = [job EXCEPT ![j] = run] /\ "look" \in Rest
    BY <1>4, <2>1, <2>2 DEF OnwardIn, Rest, Phases
  <2> QED
    BY <2>1, <2>2, <2>3 DEF Goes
<1> QED
  BY <1>3, <1>4

LEMMA PhaseGoes ==
    ASSUME TypeOK, OrderedOnce, NEW j \in Jobs, NEW p \in Phases, Phase(j, p)
    PROVE  Goes(j, {p})
<1> DEFINE new == [job[j] EXCEPT !.phase = p]
<1>1. IsRun(job[j]) /\ job[j].at \in 0..LastStep(j)
  BY WithinScript DEF TypeOK, OrderedOnce
<1>2. IsRun(new) /\ new.phase = p /\ new.at = job[j].at
  BY <1>1 DEF IsRun
<1>3. job' = [job EXCEPT ![j] = new]
  BY DEF Phase, TypeOK
<1> HIDE DEF new
<1> QED
  BY <1>1, <1>2, <1>3 DEF Goes

LEMMA PhaseWithGoes ==
    ASSUME TypeOK, OrderedOnce, NEW j \in Jobs, NEW p \in Phases, NEW saw,
           job' = [job EXCEPT ![j].phase = p, ![j].saw = saw]
    PROVE  Goes(j, {p})
<1> DEFINE new == [job[j] EXCEPT !.phase = p, !.saw = saw]
<1>1. IsRun(job[j]) /\ job[j].at \in 0..LastStep(j)
  BY WithinScript DEF TypeOK, OrderedOnce
<1>2. IsRun(new) /\ new.phase = p /\ new.at = job[j].at
  BY <1>1 DEF IsRun
<1>3. job' = [job EXCEPT ![j] = new]
  BY DEF TypeOK
<1> HIDE DEF new
<1> QED
  BY <1>1, <1>2, <1>3 DEF Goes

LEMMA GoesWider ==
    ASSUME NEW j \in Jobs, NEW P, NEW Q, P \subseteq Q, Goes(j, P)
    PROVE  Goes(j, Q)
BY DEF Goes

\* What of the invariant a step of the jobs keeps.
JobsKept ==
    /\ OrderedOnce'
    /\ job' = [j \in Jobs |-> job'[j]] /\ \A j \in Jobs : IsRun(job'[j])
    /\ docs' \in [Tags -> Documents]

\* The documents are as they were, and so is the other job.
LEMMA GoesStep ==
    ASSUME TypeOK, OrderedOnce, NEW j \in Jobs, NEW P, Goes(j, P), UNCHANGED docs,
           "create_order" \in P => docs[Arg(j)].status = "none",
           "confirm" \in P \/ "ship" \in P => docs[Arg(j)].status # "none"
    PROVE  JobsKept
<1>1. PICK run : /\ job' = [job EXCEPT ![j] = run] /\ IsRun(run)
                 /\ run.at \in 0..LastStep(j) /\ run.phase \in P
                 /\ run.phase \in Rest \/ run.at = job[j].at
  BY DEF Goes
<1>2. job' = [i \in Jobs |-> job'[i]] /\ job'[j] = run /\ \A i \in Jobs \ {j} : job'[i] = job[i]
  BY <1>1 DEF TypeOK
<1>3. Settled(j, run)
  BY <1>1 DEF Settled, Arg, Rest
<1>4. \A i \in Jobs : Settled(i, job'[i])
  BY <1>2, <1>3 DEF OrderedOnce
<1>5. OrderedOnce'
  BY <1>4 DEF OrderedOnce, Settled
<1> QED
  BY <1>1, <1>2, <1>5 DEF JobsKept, TypeOK

\* A scenario's documents change, and its order is there afterwards.
LEMMA DocsStep ==
    ASSUME TypeOK, OrderedOnce, NEW j \in Jobs, NEW t \in TagsOf(j), NEW d \in Documents, Single(d),
           docs' = [docs EXCEPT ![t] = d],
           NEW run, job' = [job EXCEPT ![j] = run], IsRun(run), Settled(j, run)'
    PROVE  JobsKept
<1>1. t \in Tags /\ \A i \in Jobs \ {j} : t \notin TagsOf(i)
  BY TagsApart
<1>2. docs' \in [Tags -> Documents] /\ docs'[t] = d /\ \A x \in Tags \ {t} : docs'[x] = docs[x]
  BY <1>1 DEF TypeOK
<1>3. job' = [i \in Jobs |-> job'[i]] /\ job'[j] = run /\ \A i \in Jobs \ {j} : job'[i] = job[i]
  BY DEF TypeOK
<1>4. \A x \in Tags : Single(docs'[x])
  BY <1>2 DEF OrderedOnce
<1>5. ASSUME NEW i \in Jobs \ {j} PROVE Settled(i, job[i])'
  <2>1. Settled(i, job[i])
    BY DEF OrderedOnce
  <2>2. ASSUME job[i].at # 0, Kind(i, job[i].at) = "order"
        PROVE  docs'[Object(i, job[i].at)] = docs[Object(i, job[i].at)]
    <3>1. Object(i, job[i].at) \in TagsOf(i)
      <4>1. job[i].at \in 1..LastStep(i)
        BY <2>1, <2>2, UnderWay
      <4> QED
        BY <2>2, <4>1, Scripts
    <3>2. Object(i, job[i].at) \in Tags
      BY <3>1, TagsApart
    <3> QED
      BY <1>1, <1>2, <3>1, <3>2
  <2> QED
    BY <1>3, <2>1, <2>2 DEF Settled
<1>6. \A i \in Jobs : Settled(i, job[i])'
  BY <1>3, <1>5
<1> QED
  BY <1>2, <1>3, <1>4, <1>6 DEF JobsKept, OrderedOnce, Single, TypeOK

\* A job moves the order it has in hand, or adds to its documents.
LEMMA OrderStep ==
    ASSUME TypeOK, OrderedOnce, NEW j \in Jobs, NEW phase0, At(j, "order", phase0),
           NEW P, Goes(j, P), "create_order" \notin P,
           NEW d \in Documents, Single(d), docs' = [docs EXCEPT ![Arg(j)] = d],
           P \subseteq Rest \/ d.status # "none"
    PROVE  JobsKept
<1>1. Arg(j) \in TagsOf(j) /\ Arg(j) \in Tags
  <2>1. job[j].at \in 1..LastStep(j)
    BY UnderWay DEF OrderedOnce, At
  <2> QED
    BY <2>1, Scripts, TagsApart DEF At, Arg
<1>2. PICK run : /\ job' = [job EXCEPT ![j] = run] /\ IsRun(run)
                 /\ run.at \in 0..LastStep(j) /\ run.phase \in P
                 /\ run.phase \in Rest \/ run.at = job[j].at
  BY DEF Goes
<1>3. docs'[Arg(j)] = d
  BY <1>1 DEF TypeOK
<1>4. Settled(j, run)'
  BY <1>2, <1>3 DEF Settled, Arg, Rest
<1> QED
  BY <1>1, <1>2, <1>4, DocsStep

\* Somebody else changes the invoices of a scenario, and not its order.
LEMMA OthersStep ==
    ASSUME TypeOK, OrderedOnce, NEW t \in Tags, NEW d \in Documents, Single(d),
           docs' = [docs EXCEPT ![t] = d], d.status = docs[t].status, UNCHANGED job
    PROVE  JobsKept
<1>1. docs' \in [Tags -> Documents] /\ docs'[t] = d /\ \A x \in Tags \ {t} : docs'[x] = docs[x]
  BY DEF TypeOK
<1>2. \A x \in Tags : Single(docs'[x])
  BY <1>1 DEF OrderedOnce
<1>3. ASSUME NEW i \in Jobs PROVE Settled(i, job[i])'
  <2>1. Settled(i, job[i])
    BY DEF OrderedOnce
  <2>2. ASSUME job[i].at # 0, Kind(i, job[i].at) = "order"
        PROVE  docs'[Object(i, job[i].at)].status = docs[Object(i, job[i].at)].status
    <3>1. job[i].at \in 1..LastStep(i)
      BY <2>1, <2>2, UnderWay
    <3>2. Object(i, job[i].at) \in Tags
      BY <2>2, <3>1, Scripts, TagsApart
    <3> QED
      BY <1>1, <3>2
  <2> QED
    BY <2>1, <2>2 DEF Settled
<1> QED
  BY <1>1, <1>2, <1>3 DEF JobsKept, OrderedOnce, Single, TypeOK

--------------------------------------------------------------------------------
(* The steps of the jobs. *)

\* A step that goes on, fails or changes phase, and touches no document.
LEMMA RestStep ==
    ASSUME TypeOK, OrderedOnce, NEW j \in Jobs, Goes(j, Rest), UNCHANGED docs
    PROVE  JobsKept
BY GoesStep DEF Rest

LEMMA RestPhase ==
    ASSUME TypeOK, OrderedOnce, NEW j \in Jobs, NEW p \in Rest, Phase(j, p)
    PROVE  Goes(j, Rest)
<1>1. p \in Phases /\ {p} \subseteq Rest
  BY DEF Rest
<1>2. Goes(j, {p})
  BY <1>1, PhaseGoes
<1> QED
  BY <1>1, <1>2, GoesWider

LEMMA RestPhaseWith ==
    ASSUME TypeOK, OrderedOnce, NEW j \in Jobs, NEW p \in Rest, NEW saw,
           job' = [job EXCEPT ![j].phase = p, ![j].saw = saw]
    PROVE  Goes(j, Rest)
<1>1. p \in Phases /\ {p} \subseteq Rest
  BY DEF Rest
<1>2. Goes(j, {p})
  BY <1>1, PhaseWithGoes
<1> QED
  BY <1>1, <1>2, GoesWider

LEMMA FailsGoes ==
    ASSUME NEW j \in Jobs, Fails(j)
    PROVE  Goes(j, Rest)
BY StopGoes DEF Fails

LEMMA RestPhases ==
    {"look", "create", "look_again", "adjust", "shipped", "find_invoice", "issue",
     "find_payment", "receive", "allocate"} \subseteq Rest
BY DEF Rest, Phases

\* Rows: found, made or found after all.
LEMMA RowSteps ==
    ASSUME TypeOK, OrderedOnce, NEW j \in Jobs, LookForRow(j) \/ CreateRow(j) \/ LookAgain(j)
    PROVE  JobsKept /\ RowsKept
<1>1. job[j].at # 0 /\ UNCHANGED docs
  BY DEF LookForRow, CreateRow, LookAgain, Create, At
<1>2. Goes(j, Rest)
  <2>1. Onward(j) \/ Fails(j) \/ \E p \in {"create", "look_again"} : Phase(j, p)
    BY DEF LookForRow, CreateRow, LookAgain, Create, Check, Conflicted
  <2> QED
    BY <1>1, <2>1, OnwardGoes, FailsGoes, RestPhase, RestPhases DEF Onward
<1>3. RowsKept
  <2>1. UNCHANGED rows \/ (rows[RowKey(j)] = "none" /\ rows' = [rows EXCEPT ![RowKey(j)] = "right"])
    BY DEF LookForRow, CreateRow, LookAgain, Create
  <2> QED
    BY <2>1, RowMade DEF TypeOK, RowsKept
<1> QED
  BY <1>1, <1>2, <1>3, RestStep

\* The company, and the login.
LEMMA CompanySteps ==
    ASSUME TypeOK, OrderedOnce, NEW j \in Jobs,
           LookForCompany(j) \/ CreateCompany(j) \/ LookAgainForCompany(j) \/ Login(j)
    PROVE  JobsKept /\ RowsKept
<1>1. job[j].at # 0 /\ UNCHANGED docs
  BY DEF LookForCompany, CreateCompany, LookAgainForCompany, Login, Create, At
<1>2. Goes(j, Rest)
  <2>1. (\E c : OnwardIn(j, c)) \/ Fails(j) \/ \E p \in {"create", "look_again"} : Phase(j, p)
    BY DEF LookForCompany, CreateCompany, LookAgainForCompany, Login, Create, Check, Conflicted
  <2> QED
    BY <1>1, <2>1, OnwardGoes, FailsGoes, RestPhase, RestPhases
<1>3. RowsKept
  <2> DEFINE key == <<"company", MainCode>>
  <2>1. UNCHANGED rows \/ (rows[key] = "none" /\ rows' = [rows EXCEPT ![key] = "right"])
    BY DEF LookForCompany, CreateCompany, LookAgainForCompany, Login, Create
  <2> QED
    BY <2>1, RowMade DEF TypeOK, RowsKept
<1> QED
  BY <1>1, <1>2, <1>3, RestStep

\* Stock.
LEMMA StockSteps ==
    ASSUME TypeOK, OrderedOnce, NEW j \in Jobs, LookAtStock(j) \/ Adjust(j) \/ CheckStock(j)
    PROVE  JobsKept /\ RowsKept
<1>1. job[j].at # 0 /\ UNCHANGED <<rows, docs>>
  BY DEF LookAtStock, Adjust, CheckStock, At
<1>2. Goes(j, Rest)
  <2>1. Onward(j) \/ Fails(j) \/ \E saw : job' = [job EXCEPT ![j].phase = "adjust", ![j].saw = saw]
    BY DEF LookAtStock, Adjust, CheckStock
  <2> QED
    BY <1>1, <2>1, OnwardGoes, FailsGoes, RestPhaseWith, RestPhases DEF Onward
<1> QED
  BY <1>1, <1>2, RestStep DEF TypeOK, RowsKept

\* The documents of the order in hand.
LEMMA InHand ==
    ASSUME TypeOK, OrderedOnce, NEW j \in Jobs, NEW p, At(j, "order", p)
    PROVE  /\ docs[Arg(j)] \in Documents /\ Single(docs[Arg(j)])
           /\ p = "create_order" => docs[Arg(j)].status = "none"
           /\ p \in {"confirm", "ship"} => docs[Arg(j)].status # "none"
<1>1. job[j].at # 0 /\ Kind(j, job[j].at) = "order" /\ job[j].phase = p
  BY DEF At
<1>2. Arg(j) \in Tags
  <2>1. job[j].at \in 1..LastStep(j)
    BY <1>1, UnderWay DEF OrderedOnce
  <2> QED
    BY <1>1, <2>1, Scripts, TagsApart DEF Arg
<1>3. Settled(j, job[j])
  BY DEF OrderedOnce
<1> QED
  BY <1>1, <1>2, <1>3 DEF TypeOK, OrderedOnce, Settled, Arg

\* After the shipment and after the invoice.
LEMMA AfterGoes ==
    ASSUME TypeOK, OrderedOnce, NEW j \in Jobs, job[j].at # 0,
           AfterShipping(j) \/ (\E i : AfterInvoice(j, i)) \/ Onward(j)
    PROVE  Goes(j, Rest)
<1>1. CASE Onward(j)
  BY <1>1, OnwardGoes DEF Onward
<1>2. CASE Phase(j, "find_invoice")
  BY <1>2, RestPhase, RestPhases
<1>3. ASSUME NEW i, job' = [job EXCEPT ![j].phase = "find_payment", ![j].saw = i]
      PROVE  Goes(j, Rest)
  BY <1>3, RestPhaseWith, RestPhases
<1> QED
  BY <1>1, <1>2, <1>3 DEF AfterShipping, AfterInvoice

\* Documents with a new order, and with a new invoice.
LEMMA Drafted ==
    ASSUME NEW d \in Documents, Single(d), d.status = "none",
           NEW new, new = [d EXCEPT !.orders = d.orders + 1, !.status = "draft"]
    PROVE  new \in Documents /\ Single(new) /\ new.status # "none"
<1> DEFINE e == [d EXCEPT !.orders = d.orders + 1]
<1>1. e \in Documents /\ e.orders = 1 /\ e.live = d.live /\ e.allocated = d.allocated
  BY DEF Documents, Single
<1>2. new = [e EXCEPT !.status = "draft"]
  OBVIOUS
<1> HIDE DEF e
<1> QED
  BY <1>1, <1>2 DEF Documents, Single

LEMMA Invoiced ==
    ASSUME NEW d \in Documents, Single(d), d.live = 0, NEW i \in Nat,
           NEW new, new = [d EXCEPT !.issued = i, !.live = i]
    PROVE  new \in Documents /\ Single(new) /\ new.status = d.status
<1> DEFINE e == [d EXCEPT !.issued = i]
<1>1. /\ e \in Documents /\ e.status = d.status
      /\ e.orders = d.orders /\ e.allocated = d.allocated
  BY DEF Documents
<1>2. new = [e EXCEPT !.live = i]
  OBVIOUS
<1> HIDE DEF e
<1> QED
  BY <1>1, <1>2 DEF Documents, Single

\* The order: looked for, made, confirmed and shipped.
LEMMA OrderSteps ==
    ASSUME TypeOK, OrderedOnce, NEW j \in Jobs,
           FindOrder(j) \/ CreateOrder(j) \/ Confirm(j) \/ Ship(j)
    PROVE  JobsKept
<1> DEFINE d == docs[Arg(j)]
<1>1. CASE FindOrder(j)
  <2>1. At(j, "order", "look") /\ job[j].at # 0 /\ UNCHANGED docs
    BY <1>1 DEF FindOrder, At
  <2>2. d \in Documents
    BY <2>1, InHand
  <2>3. CASE d.status = "shipped"
    <3>1. AfterShipping(j)
      BY <1>1, <2>3 DEF FindOrder, Resume
    <3> QED
      BY <2>1, <3>1, AfterGoes, RestStep
  <2>4. CASE d.status # "shipped"
    <3>1. PICK p \in {"create_order", "confirm", "ship"} :
             Phase(j, p) /\ ((p = "create_order") <=> (d.status = "none"))
      BY <1>1, <2>2, <2>4 DEF FindOrder, Resume, Documents
    <3>2. Goes(j, {p})
      BY <3>1, PhaseGoes DEF Phases
    <3> QED
      BY <2>1, <3>1, <3>2, GoesStep
  <2> QED
    BY <2>3, <2>4
<1>2. CASE CreateOrder(j)
  <2> DEFINE new == [d EXCEPT !.orders = d.orders + 1, !.status = "draft"]
  <2>1. At(j, "order", "create_order") /\ Phase(j, "confirm")
    BY <1>2 DEF CreateOrder
  <2>2. d \in Documents /\ Single(d) /\ d.status = "none"
    BY <2>1, InHand
  <2>3. new \in Documents /\ Single(new) /\ new.status # "none"
    BY <2>2, Drafted
  <2>4. docs' = [docs EXCEPT ![Arg(j)] = new]
    BY <1>2 DEF CreateOrder, TypeOK
  <2>5. Goes(j, {"confirm"})
    BY <2>1, PhaseGoes DEF Phases
  <2> HIDE DEF new
  <2> QED
    BY <2>1, <2>3, <2>4, <2>5, OrderStep
<1>3. CASE Confirm(j)
  <2> DEFINE new == [d EXCEPT !.status = "confirmed"]
  <2>1. At(j, "order", "confirm") /\ Phase(j, "ship")
    BY <1>3 DEF Confirm
  <2>2. d \in Documents /\ Single(d) /\ d.status # "none"
    BY <2>1, InHand
  <2>3. new \in Documents /\ Single(new) /\ new.status # "none"
    BY <2>2 DEF Documents, Single
  <2>4. docs' = [docs EXCEPT ![Arg(j)] = new]
    BY <1>3 DEF Confirm, TypeOK
  <2>5. Goes(j, {"ship"})
    BY <2>1, PhaseGoes DEF Phases
  <2> HIDE DEF new
  <2> QED
    BY <2>1, <2>3, <2>4, <2>5, OrderStep
<1>4. CASE Ship(j)
  <2> DEFINE new == [d EXCEPT !.status = "shipped"]
  <2>1. At(j, "order", "ship") /\ job[j].at # 0
    BY <1>4 DEF Ship, At
  <2>2. d \in Documents /\ Single(d) /\ d.status # "none"
    BY <2>1, InHand
  <2>3. CASE onHand[j] < Qty[Arg(j)]
    BY <1>4, <2>3, FailsGoes, RestStep DEF Ship
  <2>4. CASE ~(onHand[j] < Qty[Arg(j)])
    <3>1. new \in Documents /\ Single(new)
      BY <2>2 DEF Documents, Single
    <3>2. docs' = [docs EXCEPT ![Arg(j)] = new] /\ AfterShipping(j)
      BY <1>4, <2>4 DEF Ship, TypeOK
    <3>3. Goes(j, Rest) /\ "create_order" \notin Rest
      BY <2>1, <3>2, AfterGoes DEF Rest
    <3> HIDE DEF new
    <3> QED
      BY <2>1, <3>1, <3>2, <3>3, OrderStep
  <2> QED
    BY <2>3, <2>4
<1> QED
  BY <1>1, <1>2, <1>3, <1>4

\* The invoice and the payment.
LEMMA MoneySteps ==
    ASSUME TypeOK, OrderedOnce, NEW j \in Jobs,
           FindInvoice(j) \/ Issue(j) \/ FindPayment(j) \/ Receive(j) \/ Allocate(j)
    PROVE  JobsKept
<1> DEFINE d == docs[Arg(j)]
<1>1. CASE FindInvoice(j) \/ FindPayment(j)
  <2>1. job[j].at # 0 /\ UNCHANGED docs
    BY <1>1 DEF FindInvoice, FindPayment, At
  <2>2. (\E p \in {"issue", "allocate", "receive"} : Phase(j, p)) \/ \E i : AfterInvoice(j, i)
    BY <1>1 DEF FindInvoice, FindPayment
  <2>3. Goes(j, Rest)
    BY <2>1, <2>2, RestPhase, RestPhases, AfterGoes
  <2> QED
    BY <2>1, <2>3, RestStep
<1>2. CASE Issue(j)
  <2>1. At(j, "order", "issue") /\ job[j].at # 0
    BY <1>2 DEF Issue, At
  <2>2. d \in Documents /\ Single(d)
    BY <2>1, InHand
  <2>3. CASE d.live = 0
    <3>1. PICK i : /\ i = d.issued + 1 /\ AfterInvoice(j, i)
                   /\ docs' = [docs EXCEPT ![Arg(j)].issued = i, ![Arg(j)].live = i]
      BY <1>2, <2>3 DEF Issue
    <3> DEFINE new == [d EXCEPT !.issued = i, !.live = i]
    <3>2. new \in Documents /\ Single(new)
      <4>1. i \in Nat
        BY <2>2, <3>1 DEF Documents
      <4> QED
        BY <2>2, <2>3, <4>1, Invoiced
    <3>3. docs' = [docs EXCEPT ![Arg(j)] = new]
      BY <3>1 DEF TypeOK
    <3>4. Goes(j, Rest) /\ "create_order" \notin Rest
      BY <2>1, <3>1, AfterGoes DEF Rest
    <3> HIDE DEF new
    <3> QED
      BY <2>1, <3>2, <3>3, <3>4, OrderStep
  <2>4. CASE d.live # 0
    <3>1. UNCHANGED docs /\ (Fails(j) \/ \E i : AfterInvoice(j, i))
      BY <1>2, <2>4 DEF Issue
    <3> QED
      BY <2>1, <3>1, FailsGoes, AfterGoes, RestStep
  <2> QED
    BY <2>3, <2>4
<1>3. CASE Receive(j)
  <2> DEFINE new == [d EXCEPT !.paid = TRUE]
  <2>1. At(j, "order", "receive") /\ Phase(j, "allocate")
    BY <1>3 DEF Receive
  <2>2. d \in Documents /\ Single(d)
    BY <2>1, InHand
  <2>3. new \in Documents /\ Single(new)
    BY <2>2 DEF Documents, Single
  <2>4. docs' = [docs EXCEPT ![Arg(j)] = new]
    BY <1>3 DEF Receive, TypeOK
  <2>5. Goes(j, Rest) /\ "create_order" \notin Rest
    BY <2>1, RestPhase, RestPhases DEF Rest
  <2> HIDE DEF new
  <2> QED
    BY <2>1, <2>3, <2>4, <2>5, OrderStep
<1>4. CASE Allocate(j)
  <2> DEFINE new == [d EXCEPT !.allocated = job[j].saw]
  <2>1. At(j, "order", "allocate") /\ job[j].at # 0
    BY <1>4 DEF Allocate, At
  <2>2. d \in Documents /\ Single(d)
    BY <2>1, InHand
  <2>3. CASE UNCHANGED docs
    <3>1. Onward(j) \/ Fails(j)
      BY <1>4 DEF Allocate
    <3> QED
      BY <2>1, <2>3, <3>1, FailsGoes, AfterGoes, RestStep
  <2>4. CASE ~UNCHANGED docs
    <3>1. /\ d.allocated = 0 /\ d.live = job[j].saw /\ Onward(j)
          /\ docs' = [docs EXCEPT ![Arg(j)].allocated = job[j].saw]
      BY <1>4, <2>4 DEF Allocate
    <3>2. new \in Documents /\ Single(new)
      BY <2>2, <3>1 DEF Documents, Single
    <3>3. docs' = [docs EXCEPT ![Arg(j)] = new]
      BY <3>1 DEF TypeOK
    <3>4. Goes(j, Rest) /\ "create_order" \notin Rest
      BY <2>1, <3>1, AfterGoes DEF Rest
    <3> HIDE DEF new
    <3> QED
      BY <2>1, <3>2, <3>3, <3>4, OrderStep
  <2> QED
    BY <2>3, <2>4
<1> QED
  BY <1>1, <1>2, <1>3, <1>4

--------------------------------------------------------------------------------
(* The invariant. *)

LEMMA InitInv == Init => ProvisioningInv
<1> SUFFICES ASSUME Init
             PROVE  ProvisioningInv
  OBVIOUS
<1>1. TypeOK
  <2>1. /\ rows \in [Keys -> {"none", "right", "wrong"}]
        /\ boots \in [Boots -> [pc : Installing \cup Ended, added : SUBSET Keys]]
    BY DEF Init, Ended
  <2>2. job = [j \in Jobs |-> job[j]] /\ \A j \in Jobs : IsRun(job[j])
    BY StoppedType DEF Init
  <2>3. docs \in [Tags -> Documents]
    BY DEF Init, NoDocs, Documents
  <2> QED
    BY <2>1, <2>2, <2>3 DEF TypeOK
<1>2. OneInstalls
  BY DEF Init, OneInstalls, Installing
<1>3. OrderedOnce
  <2>1. \A j \in Jobs : Settled(j, job[j])
    <3> TAKE j \in Jobs
    <3>1. job[j].at = 0 /\ 0 \in 0..LastStep(j)
      BY Scripts, StoppedType DEF Init
    <3> QED
      BY <3>1 DEF Settled
  <2>2. \A t \in Tags : Single(docs[t])
    BY DEF Init, NoDocs, Single
  <2> QED
    BY <2>1, <2>2 DEF OrderedOnce
<1> QED
  BY <1>1, <1>2, <1>3 DEF ProvisioningInv

\* A step that leaves the first installs and the jobs' part alone.
LEMMA StepInv ==
    ASSUME TypeOK, OneInstalls', RowsKept, boots' \in [Boots -> Transaction], JobsKept
    PROVE  ProvisioningInv' /\ RowsKept
BY DEF ProvisioningInv, TypeOK, RowsKept, Transaction, JobsKept

LEMMA JobsAlone ==
    ASSUME TypeOK, OrderedOnce, UNCHANGED <<job, docs>>
    PROVE  JobsKept
BY DEF TypeOK, OrderedOnce, JobsKept, Settled

LEMMA RowsAlone ==
    ASSUME TypeOK, UNCHANGED rows
    PROVE  RowsKept
BY DEF TypeOK, RowsKept

\* Steps of the jobs and of everybody else: no first install moves.
LEMMA AloneInv ==
    ASSUME ProvisioningInv, UNCHANGED BootVars, RowsKept, JobsKept
    PROVE  ProvisioningInv' /\ RowsKept
<1>1. TypeOK /\ OneInstalls /\ UNCHANGED <<boots, admins>>
  BY DEF ProvisioningInv, BootVars
<1>2. boots' \in [Boots -> Transaction]
  BY <1>1 DEF TypeOK, Transaction
<1> QED
  BY <1>1, <1>2, BootsAlone, StepInv

\* Everybody else's hand in the invoices.
LEMMA MeddlingKeeps ==
    ASSUME TypeOK, OrderedOnce, NEW j \in Jobs, NEW t \in TagsOf(j), Meddle(j),
           IssueInvoice(j, t) \/ VoidInvoice(j, t)
    PROVE  JobsKept
<1> DEFINE d == docs[t]
<1>1. t \in Tags /\ d \in Documents /\ Single(d) /\ UNCHANGED job
  BY TagsApart DEF TypeOK, OrderedOnce, Meddle
<1>2. CASE IssueInvoice(j, t)
  <2>1. PICK i \in Nat : i = d.issued + 1
    BY <1>1 DEF Documents
  <2> DEFINE new == [d EXCEPT !.issued = i, !.live = i]
  <2>2. docs' = [docs EXCEPT ![t] = new] /\ d.live = 0
    BY <1>1, <1>2, <2>1 DEF IssueInvoice, TypeOK
  <2>3. new \in Documents /\ Single(new) /\ new.status = d.status
    BY <1>1, <2>1, <2>2, Invoiced
  <2> HIDE DEF new
  <2> QED
    BY <1>1, <2>2, <2>3, OthersStep
<1>3. CASE VoidInvoice(j, t)
  <2> DEFINE new == [d EXCEPT !.live = 0]
  <2>1. docs' = [docs EXCEPT ![t] = new] /\ d.allocated = 0
    BY <1>1, <1>3 DEF VoidInvoice, TypeOK
  <2>2. new \in Documents /\ Single(new) /\ new.status = d.status
    BY <1>1, <2>1 DEF Documents, Single
  <2> HIDE DEF new
  <2> QED
    BY <1>1, <2>1, <2>2, OthersStep
<1> QED
  BY <1>2, <1>3

LEMMA NextInv == ProvisioningInv /\ [Next]_vars => ProvisioningInv' /\ RowsKept
<1> SUFFICES ASSUME ProvisioningInv, [Next]_vars
             PROVE  ProvisioningInv' /\ RowsKept
  OBVIOUS
<1>1. TypeOK /\ OneInstalls /\ OrderedOnce
  BY DEF ProvisioningInv
<1>2. ASSUME NEW b \in Boots, BootStep(b)
      PROVE  ProvisioningInv' /\ RowsKept
  <2>1. JobsKept
    BY <1>1, <1>2, JobsAlone DEF BootStep, JobVars
  <2> QED
    BY <1>1, <1>2, <2>1, BootStepInv, StepInv
<1>3. ASSUME NEW b \in Boots, KillBoot(b)
      PROVE  ProvisioningInv' /\ RowsKept
  <2>1. BootEnds(b) /\ UNCHANGED <<rows, admins>> /\ JobsKept
    BY <1>1, <1>3, JobsAlone DEF KillBoot, JobVars
  <2> QED
    BY <1>1, <2>1, BootEndsStep, StepInv
<1>4. ASSUME NEW j \in Jobs, Start(j)
      PROVE  ProvisioningInv' /\ RowsKept
  <2>1. PICK run : run = Running(1, None) /\ IsRun(run) /\ run.at = 1 /\ run.phase = "look"
    BY RunningType
  <2>2. job' = [job EXCEPT ![j] = run] /\ UNCHANGED docs /\ UNCHANGED BootVars /\ UNCHANGED rows
    BY <1>4, <2>1 DEF Start
  <2>3. 1 \in 0..LastStep(j) /\ "look" \in Rest
    BY Scripts DEF Rest, Phases
  <2>4. Goes(j, Rest)
    BY <2>1, <2>2, <2>3 DEF Goes
  <2> QED
    BY <1>1, <2>2, <2>4, RestStep, RowsAlone, AloneInv
<1>5. ASSUME NEW j \in Jobs, JobStep(j)
      PROVE  ProvisioningInv' /\ RowsKept
  <2>1. UNCHANGED BootVars
    BY <1>5 DEF JobStep
  <2>2. JobsKept /\ RowsKept
    <3>1. CASE LookForRow(j) \/ CreateRow(j) \/ LookAgain(j)
      BY <1>1, <3>1, RowSteps
    <3>2. CASE LookForCompany(j) \/ CreateCompany(j) \/ LookAgainForCompany(j) \/ Login(j)
      BY <1>1, <3>2, CompanySteps
    <3>3. CASE LookAtStock(j) \/ Adjust(j) \/ CheckStock(j)
      BY <1>1, <3>3, StockSteps
    <3>4. CASE FindOrder(j) \/ CreateOrder(j) \/ Confirm(j) \/ Ship(j)
      <4>1. UNCHANGED rows
        BY <3>4 DEF FindOrder, CreateOrder, Confirm, Ship
      <4> QED
        BY <1>1, <3>4, <4>1, OrderSteps, RowsAlone
    <3>5. CASE FindInvoice(j) \/ Issue(j) \/ FindPayment(j) \/ Receive(j) \/ Allocate(j)
      <4>1. UNCHANGED rows
        BY <3>5 DEF FindInvoice, Issue, FindPayment, Receive, Allocate
      <4> QED
        BY <1>1, <3>5, <4>1, MoneySteps, RowsAlone
    <3> QED
      BY <1>5, <3>1, <3>2, <3>3, <3>4, <3>5 DEF JobStep
  <2> QED
    BY <2>1, <2>2, AloneInv
<1>6. ASSUME NEW j \in Jobs, KillJob(j)
      PROVE  ProvisioningInv' /\ RowsKept
  <2>1. /\ job' = [job EXCEPT ![j] = Stopped("none")]
        /\ UNCHANGED docs /\ UNCHANGED BootVars /\ UNCHANGED rows
    BY <1>6 DEF KillJob
  <2> QED
    BY <1>1, <2>1, StopGoes, RestStep, RowsAlone, AloneInv
<1>7. ASSUME NEW j \in Jobs, NEW d, MoveStock(j, d)
      PROVE  ProvisioningInv' /\ RowsKept
  <2>1. UNCHANGED <<job, docs>> /\ UNCHANGED BootVars /\ UNCHANGED rows
    BY <1>7 DEF MoveStock, Meddle
  <2> QED
    BY <1>1, <2>1, JobsAlone, RowsAlone, AloneInv
<1>8. ASSUME NEW j \in Jobs, NEW t \in TagsOf(j), IssueInvoice(j, t) \/ VoidInvoice(j, t)
      PROVE  ProvisioningInv' /\ RowsKept
  <2>1. Meddle(j) /\ UNCHANGED BootVars /\ UNCHANGED rows
    BY <1>8 DEF IssueInvoice, VoidInvoice, Meddle
  <2> QED
    BY <1>1, <1>8, <2>1, MeddlingKeeps, RowsAlone, AloneInv
<1>9. ASSUME NEW k \in Keys, NEW state \in {"right", "wrong"}, MakeRow(k, state)
      PROVE  ProvisioningInv' /\ RowsKept
  <2>1. /\ rows[k] = "none" /\ rows' = [rows EXCEPT ![k] = state]
        /\ UNCHANGED BootVars /\ UNCHANGED <<job, docs>>
    BY <1>9 DEF MakeRow, JobVars
  <2> QED
    BY <1>1, <2>1, RowMade, JobsAlone, AloneInv
<1>10. CASE UNCHANGED vars
  <2>1. UNCHANGED BootVars /\ UNCHANGED rows /\ UNCHANGED <<job, docs>>
    BY <1>10 DEF vars, BootVars
  <2> QED
    BY <1>1, <2>1, RowsAlone, JobsAlone, AloneInv
<1> QED
  BY <1>2, <1>3, <1>4, <1>5, <1>6, <1>7, <1>8, <1>9, <1>10 DEF Next

LEMMA InvImplies == ProvisioningInv => FirstAdminOnce /\ NeverDuplicated
<1> SUFFICES ASSUME ProvisioningInv
             PROVE  FirstAdminOnce /\ NeverDuplicated
  OBVIOUS
<1>1. TypeOK /\ OneInstalls /\ OrderedOnce
  BY DEF ProvisioningInv
<1>2. FirstAdminOnce
  <2>1. Cardinality(admins) <= 1
    <3>1. CASE admins = {}
      BY <3>1, FS_EmptySet
    <3>2. CASE admins # {}
      <4>1. PICK a \in admins : admins = {a}
        BY <1>1, <3>2 DEF OneInstalls
      <4>2. Cardinality({a}) = 1
        BY FS_Singleton
      <4> QED
        BY <4>1, <4>2
    <3> QED
      BY <3>1, <3>2
  <2> QED
    BY <1>1, <2>1 DEF OneInstalls, FirstAdminOnce
<1>3. NeverDuplicated
  BY <1>1 DEF OrderedOnce, Single, NeverDuplicated
<1> QED
  BY <1>2, <1>3

\* Along every behaviour of the commands alone, the advisory lock has one holder
\* (bootstrap_admin.py) and no job is about to make an order that is there.
THEOREM ProvisioningInductive == Spec => []ProvisioningInv
<1> QED
  BY InitInv, NextInv, PTL DEF Spec

--------------------------------------------------------------------------------
(* Where the steps of a script are. *)

\* The items of three sequences one after another.
Joined(p, q, r, a, b, c) ==
    /\ Len(p \o q \o r) = a + b + c
    /\ \A i \in 1..a : (p \o q \o r)[i] = p[i]
    /\ \A i \in 1..b : (p \o q \o r)[a + i] = q[i]
    /\ \A i \in 1..c : (p \o q \o r)[a + b + i] = r[i]

LEMMA ThreeInARow ==
    ASSUME NEW S, NEW p \in Seq(S), NEW q \in Seq(S), NEW r \in Seq(S),
           NEW a \in Nat, NEW b \in Nat, NEW c \in Nat, Len(p) = a, Len(q) = b, Len(r) = c
    PROVE  Joined(p, q, r, a, b, c)
<1> DEFINE pq == p \o q
<1>1. /\ pq \in Seq(S) /\ Len(pq) = Len(p) + Len(q)
      /\ \A i \in 1..Len(p) + Len(q) : pq[i] = IF i <= Len(p) THEN p[i] ELSE q[i - Len(p)]
  BY ConcatProperties, Zenon
<1> DEFINE all == pq \o r
<1>2. /\ Len(all) = Len(pq) + Len(r)
      /\ \A i \in 1..Len(pq) + Len(r) : all[i] = IF i <= Len(pq) THEN pq[i] ELSE r[i - Len(pq)]
  <2>1. pq \in Seq(S)
    BY <1>1
  <2> HIDE DEF pq
  <2> QED
    BY <2>1, ConcatProperties, Zenon
<1> HIDE DEF pq, all
<1>3. /\ Len(all) = a + b + c
      /\ \A i \in 1..a + b : all[i] = IF i <= a THEN p[i] ELSE q[i - a]
      /\ \A i \in 1..c : all[a + b + i] = r[i]
  <2>1. ASSUME NEW i \in 1..c PROVE all[a + b + i] = r[i]
    <3>1. a + b + i \in 1..(a + b) + c /\ ~(a + b + i <= a + b) /\ (a + b + i) - (a + b) = i
      OBVIOUS
    <3> QED
      BY <1>1, <1>2, <3>1
  <2>2. ASSUME NEW i \in 1..a + b PROVE all[i] = pq[i]
    <3>1. i \in 1..(a + b) + c /\ i <= a + b
      OBVIOUS
    <3> QED
      BY <1>1, <1>2, <3>1
  <2> QED
    BY <1>1, <1>2, <2>1, <2>2
<1>4. \A i \in 1..a : all[i] = p[i]
  BY <1>3
<1>5. ASSUME NEW i \in 1..b PROVE all[a + i] = q[i]
  <2>1. a + i \in 1..a + b /\ ~(a + i <= a) /\ (a + i) - a = i
    OBVIOUS
  <2> QED
    BY <1>3, <2>1
<1> QED
  BY <1>3, <1>4, <1>5 DEF all, pq, Joined

\* The demo's six steps, and the seed's six, its orders, and its check.
LEMMA DemoSteps ==
    /\ LastStep("demo") = 6
    /\ Kind("demo", 1) = "login"
    /\ Kind("demo", 2) = "row" /\ Object("demo", 2) = "period"
    /\ Kind("demo", 3) = "row" /\ Object("demo", 3) = "account"
    /\ Kind("demo", 4) = "row" /\ Object("demo", 4) = "demo_product"
    /\ Kind("demo", 5) = "stock"
    /\ Kind("demo", 6) = "order"
BY DEF Kind, Object, LastStep, Script, DemoScript

LEMMA SeedSteps ==
    /\ Len(SeedTags) \in Nat /\ LastStep("seed") = Len(SeedTags) + 7
    /\ Kind("seed", 1) = "row" /\ Object("seed", 1) = "currency"
    /\ Kind("seed", 2) = "company"
    /\ Kind("seed", 3) = "row" /\ Object("seed", 3) = "account"
    /\ Kind("seed", 4) = "row" /\ Object("seed", 4) = "period"
    /\ Kind("seed", 5) = "row" /\ Object("seed", 5) = "seed_product"
    /\ Kind("seed", 6) = "stock"
    /\ \A i \in 1..Len(SeedTags) :
          Kind("seed", 6 + i) = "order" /\ Object("seed", 6 + i) = SeedTags[i]
    /\ Kind("seed", Len(SeedTags) + 7) = "check"
<1> DEFINE S == Steps("seed")
           n == Len(SeedTags)
           first == << <<"row", "currency">>, <<"company", None>>, <<"row", "account">>,
                       <<"row", "period">>, <<"row", "seed_product">>, <<"stock", None>> >>
           orders == [i \in DOMAIN SeedTags |-> <<"order", SeedTags[i]>>]
           last == << <<"check", None>> >>
<1>1. n \in Nat /\ DOMAIN SeedTags = 1..n
  BY ProvisioningAssumption
<1>2. /\ <<"row", "currency">> \in S /\ <<"company", None>> \in S /\ <<"row", "account">> \in S
      /\ <<"row", "period">> \in S /\ <<"row", "seed_product">> \in S /\ <<"stock", None>> \in S
      /\ <<"check", None>> \in S
  BY DEF Steps, Plain
<1>3. \A i \in DOMAIN SeedTags : <<"order", SeedTags[i]>> \in S
  BY ProvisioningAssumption DEF Steps, TagsOf, Tags
<1>4. Script("seed") = first \o orders \o last
  BY DEF Script, SeedScript
<1>5. \A i \in 1..n : orders[i] = <<"order", SeedTags[i]>>
  BY <1>1
<1>6. last[1] = <<"check", None>>
  OBVIOUS
<1> HIDE DEF S
<1>7. first \in Seq(S) /\ Len(first) = 6
  BY <1>2, SixInARow
<1>8. last \in Seq(S) /\ Len(last) = 1
  BY <1>2, OneInARow
<1>9. orders \in Seq(S) /\ Len(orders) = n
  BY <1>1, <1>3
<1>10. /\ first[1] = <<"row", "currency">> /\ first[2] = <<"company", None>>
       /\ first[3] = <<"row", "account">> /\ first[4] = <<"row", "period">>
       /\ first[5] = <<"row", "seed_product">> /\ first[6] = <<"stock", None>>
  OBVIOUS
<1> HIDE DEF n, first, orders, last
<1>11. /\ Len(Script("seed")) = 6 + n + 1
       /\ \A i \in 1..6 : Script("seed")[i] = first[i]
       /\ \A i \in 1..n : Script("seed")[6 + i] = orders[i]
       /\ \A i \in 1..1 : Script("seed")[6 + n + i] = last[i]
  <2>1. PICK p \in Seq(S), q \in Seq(S), r \in Seq(S), m \in Nat :
           p = first /\ q = orders /\ r = last /\ Len(p) = 6 /\ Len(q) = m /\ Len(r) = 1 /\ m = n
    BY <1>1, <1>7, <1>8, <1>9
  <2>2. PICK a \in Nat, c \in Nat : a = 6 /\ c = 1
    OBVIOUS
  <2>3. Len(p) = a /\ Len(q) = m /\ Len(r) = c
    BY <2>1, <2>2
  <2>4. Joined(p, q, r, a, m, c)
    BY <2>3, ThreeInARow, Zenon
  <2>5. Script("seed") = p \o q \o r
    BY <1>4, <2>1
  <2> QED
    BY <2>1, <2>2, <2>4, <2>5 DEF Joined
<1>12. Len(Script("seed")) = n + 7 /\ Script("seed")[n + 7] = <<"check", None>>
  <2>1. 1 \in 1..1 /\ 6 + n + 1 = n + 7
    BY <1>1
  <2> QED
    BY <1>6, <1>11, <2>1
<1>13. \A i \in 1..6 : Script("seed")[i] = first[i]
  BY <1>11
<1>14. /\ Script("seed")[1] = <<"row", "currency">> /\ Script("seed")[2] = <<"company", None>>
       /\ Script("seed")[3] = <<"row", "account">> /\ Script("seed")[4] = <<"row", "period">>
       /\ Script("seed")[5] = <<"row", "seed_product">> /\ Script("seed")[6] = <<"stock", None>>
  BY <1>10, <1>13
<1>15. \A i \in 1..n : Script("seed")[6 + i] = <<"order", SeedTags[i]>>
  BY <1>5, <1>11
<1>16. /\ Kind("seed", 1) = "row" /\ Object("seed", 1) = "currency"
       /\ Kind("seed", 2) = "company"
       /\ Kind("seed", 3) = "row" /\ Object("seed", 3) = "account"
       /\ Kind("seed", 4) = "row" /\ Object("seed", 4) = "period"
       /\ Kind("seed", 5) = "row" /\ Object("seed", 5) = "seed_product"
       /\ Kind("seed", 6) = "stock"
  BY <1>14 DEF Kind, Object
<1>17. \A i \in 1..n : Kind("seed", 6 + i) = "order" /\ Object("seed", 6 + i) = SeedTags[i]
  BY <1>15 DEF Kind, Object
<1>18. LastStep("seed") = n + 7 /\ Kind("seed", n + 7) = "check"
  BY <1>12 DEF Kind, LastStep
<1> QED
  BY <1>1, <1>16, <1>17, <1>18 DEF n

\* What kind of step is where.
LEMMA StepAt ==
    ASSUME NEW j \in Jobs, NEW i \in 1..LastStep(j)
    PROVE  /\ Kind(j, i) \in {"row", "company", "login", "stock", "order", "check"}
           /\ Kind(j, i) = "row" =>
                 Object(j, i) = "currency" \/ (Object(j, i) \in TenantKinds /\ i > CompanyStep(j))
           /\ Kind(j, i) \in {"company", "login"} <=> i = CompanyStep(j)
           /\ Kind(j, i) = "stock" <=> i = StockStep(j)
           /\ Kind(j, i) \in {"order", "check"} <=> i > StockStep(j)
           /\ Kind(j, i) = "check" => j = "seed" /\ i = LastStep(j)
           /\ Kind(j, i) = "company" => j = "seed"
           /\ Kind(j, i) = "login" => j = "demo"
<1>1. CASE j = "demo"
  <2>1. i \in {1, 2, 3, 4, 5, 6}
    BY <1>1, DemoSteps
  <2> QED
    BY <1>1, <2>1, DemoSteps DEF CompanyStep, StockStep, TenantKinds
<1>2. CASE j = "seed"
  <2>1. Len(SeedTags) \in Nat /\ LastStep(j) = Len(SeedTags) + 7
    BY <1>2, SeedSteps
  <2>2. CASE i \in 1..6
    <3>1. i \in {1, 2, 3, 4, 5, 6}
      BY <2>2
    <3> QED
      BY <1>2, <2>1, <3>1, SeedSteps DEF CompanyStep, StockStep, TenantKinds
  <2>3. CASE i = Len(SeedTags) + 7
    <3>1. Kind(j, i) = "check" /\ i = LastStep(j) /\ i > 6
      BY <1>2, <2>1, <2>3, SeedSteps
    <3> QED
      BY <1>2, <2>1, <3>1 DEF CompanyStep, StockStep
  <2>4. CASE ~(i \in 1..6) /\ i # Len(SeedTags) + 7
    <3>1. i - 6 \in 1..Len(SeedTags) /\ 6 + (i - 6) = i /\ i > 6
      BY <2>1, <2>4
    <3>2. Kind(j, i) = "order"
      BY <1>2, <3>1, SeedSteps
    <3> QED
      BY <1>2, <3>1, <3>2 DEF CompanyStep, StockStep
  <2> QED
    BY <2>2, <2>3, <2>4
<1> QED
  BY <1>1, <1>2 DEF Jobs

\* The check comes after every order.
LEMMA AllPassed ==
    ASSUME NEW t \in TagsOf("seed")
    PROVE  \E i \in 1..(LastStep("seed") - 1) :
              Kind("seed", i) = "order" /\ Object("seed", i) = t
<1>1. PICK i \in DOMAIN SeedTags : SeedTags[i] = t
  BY DEF TagsOf, Tags
<1>2. Len(SeedTags) \in Nat /\ i \in 1..Len(SeedTags)
  BY ProvisioningAssumption
<1>3. 6 + i \in 1..(Len(SeedTags) + 7) - 1
  BY <1>2
<1> QED
  BY <1>1, <1>2, <1>3, SeedSteps

--------------------------------------------------------------------------------
(* The stock that a job wants. *)

LEMMA TagsFinite ==
    ASSUME NEW j \in Jobs
    PROVE  IsFiniteSet(TagsOf(j))
<1>1. SeedTags = [i \in 1..Len(SeedTags) |-> SeedTags[i]] /\ Len(SeedTags) \in Nat
  BY ProvisioningAssumption
<1>2. IsFiniteSet(1..Len(SeedTags))
  <2>1. 1 \in Int /\ Len(SeedTags) \in Int
    BY <1>1
  <2> QED
    BY <2>1, FS_Interval, Zenon
<1>3. IsFiniteSet({SeedTags[i] : i \in 1..Len(SeedTags)})
  BY <1>1, <1>2, ImageFinite
<1>4. DOMAIN SeedTags = 1..Len(SeedTags)
  BY ProvisioningAssumption
<1>5. IsFiniteSet(Tags)
  BY <1>3, <1>4, FS_AddElement DEF Tags
<1> QED
  BY <1>5, FS_Subset, TagsApart

ToShip(S) == SumFunction([t \in S |-> Qty[t]])

LEMMA ToShipNat ==
    ASSUME NEW S, S \subseteq Tags, IsFiniteSet(S)
    PROVE  ToShip(S) \in Nat
<1> DEFINE f == [t \in S |-> Qty[t]]
           g == [t \in {} |-> 0]
<1>1. f \in [S -> Nat] /\ f \in [S -> Int] /\ g \in [{} -> Nat] /\ {} \in SUBSET S
  BY ProvisioningAssumption
<1>2. Below(g, f, {}) /\ SumFunction(g) = 0
  BY SumEmpty DEF Below
<1> HIDE DEF f, g
<1>3. SumFunction(g) <= SumFunction(f) /\ SumFunction(f) \in Int
  BY <1>1, <1>2, SumAtMost, SumInt
<1> QED
  BY <1>2, <1>3 DEF ToShip, f

LEMMA ToShipWith ==
    ASSUME NEW S, S \subseteq Tags, IsFiniteSet(S), NEW t \in S
    PROVE  ToShip(S) = Qty[t] + ToShip(S \ {t})
<1> DEFINE f == [x \in S |-> Qty[x]]
<1>1. f \in [S -> Int]
  BY ProvisioningAssumption
<1>2. SumFunction(f) = f[t] + SumFunction(Part(f, S \ {t}))
  <2> HIDE DEF f
  <2> QED
    BY <1>1, SumSplit
<1>3. Part(f, S \ {t}) = [x \in S \ {t} |-> Qty[x]]
  BY DEF Part
<1> QED
  BY <1>2, <1>3 DEF ToShip

\* It wants no less than what is to be shipped.
LEMMA TargetNat ==
    ASSUME NEW j \in Jobs
    PROVE  /\ Target(j) \in Nat
           /\ Unshipped(j) = {} => Target(j) = Desired[j]
           /\ \A t \in Unshipped(j) :
                 Qty[t] \in Nat /\ Target(j) = Qty[t] + Desired[j] + ToShip(Unshipped(j) \ {t})
                 /\ ToShip(Unshipped(j) \ {t}) \in Nat
<1>1. Unshipped(j) \subseteq Tags /\ IsFiniteSet(Unshipped(j))
  BY TagsFinite, TagsApart, FS_Subset DEF Unshipped
<1>2. Desired[j] \in Nat /\ Target(j) = Desired[j] + ToShip(Unshipped(j)) /\ ToShip(Unshipped(j)) \in Nat
  BY <1>1, ToShipNat, ProvisioningAssumption DEF Target, ToShip
<1>3. ToShip({}) = 0
  BY SumEmpty DEF ToShip
<1>4. ASSUME NEW t \in Unshipped(j)
      PROVE  /\ Qty[t] \in Nat /\ ToShip(Unshipped(j) \ {t}) \in Nat
             /\ Target(j) = Qty[t] + Desired[j] + ToShip(Unshipped(j) \ {t})
  <2>1. Qty[t] \in Nat
    BY <1>1, ProvisioningAssumption
  <2>2. Unshipped(j) \ {t} \subseteq Tags /\ IsFiniteSet(Unshipped(j) \ {t})
    BY <1>1, FS_Subset
  <2>3. ToShip(Unshipped(j) \ {t}) \in Nat
    BY <2>2, ToShipNat
  <2>4. ToShip(Unshipped(j)) = Qty[t] + ToShip(Unshipped(j) \ {t})
    BY <1>1, ToShipWith
  <2> QED
    BY <1>2, <2>1, <2>3, <2>4
<1> QED
  BY <1>2, <1>3, <1>4

\* It is the same as long as the same orders are still to ship.
LEMMA TargetKept ==
    ASSUME NEW j \in Jobs, \A t \in TagsOf(j) : (docs'[t].status = "shipped") <=> (docs[t].status = "shipped")
    PROVE  Target(j)' = Target(j)
<1>1. Unshipped(j)' = Unshipped(j)
  BY DEF Unshipped, TagsOf, Tags
<1> QED
  BY <1>1 DEF Target

--------------------------------------------------------------------------------
(* Why a job fails. *)

Cause(j) == IF j = "seed" THEN Obstacle ELSE Wrong \/ admins = {}

\* A step of job j keeps what it relies on, and fails for a cause.
Sound(j) ==
    /\ Reliable(j, job[j])'
    /\ job[j].at # 0 /\ job'[j].outcome = "failed" => meddled[j] \/ Cause(j)

LEMMA CodesAreThere ==
    MainCode \in Codes
BY ProvisioningAssumption DEF MainCode

\* Where a job under way is.
LEMMA AtStep ==
    ASSUME CauseInv, NEW j \in Jobs, job[j].at # 0
    PROVE  /\ job[j].at \in 1..LastStep(j) /\ LastStep(j) \in Nat /\ job[j].at \in Nat
           /\ Placed(j, job[j]) /\ Met(j, job[j]) /\ Stocked(j, job[j]) /\ Believes(j, job[j])
           /\ IsRun(job[j])
<1>1. job[j].at \in 1..LastStep(j) /\ LastStep(j) \in Nat
  BY UnderWay, Scripts DEF CauseInv, ProvisioningInv, OrderedOnce
<1>2. job[j].at \in Nat
  BY <1>1
<1> QED
  BY <1>1, <1>2 DEF CauseInv, Reliable, ProvisioningInv, TypeOK

\* The row that it is about has a key.
LEMMA RowKeyIsKey ==
    ASSUME CauseInv, NEW j \in Jobs, job[j].at # 0, Kind(j, job[j].at) = "row"
    PROVE  KeyAt(j, job[j]) \in Keys
<1>1. job[j].at \in 1..LastStep(j) /\ Placed(j, job[j])
  BY AtStep
<1>2. \/ Object(j, job[j].at) = "currency"
      \/ Object(j, job[j].at) \in TenantKinds /\ job[j].at > CompanyStep(j)
  BY <1>1, StepAt
<1>3. CASE Object(j, job[j].at) = "currency"
  BY <1>3 DEF KeyAt, Keys
<1>4. CASE Object(j, job[j].at) # "currency"
  <2>1. job[j].company \in Codes
    BY <1>1, <1>2, <1>4 DEF Placed
  <2> QED
    BY <1>2, <1>4, <2>1 DEF KeyAt, Keys
<1> QED
  BY <1>3, <1>4

\* The order in hand is one of the job's.
LEMMA ArgIsTag ==
    ASSUME CauseInv, NEW j \in Jobs, job[j].at # 0, Kind(j, job[j].at) = "order"
    PROVE  Arg(j) \in TagsOf(j) /\ Arg(j) \in Tags
<1>1. job[j].at \in 1..LastStep(j)
  BY AtStep
<1> QED
  BY <1>1, Scripts, TagsApart DEF Arg

\* What is shipped stays so.
StillShipped(j) ==
    \A t \in TagsOf(j) : docs[t].status = "shipped" => docs'[t].status = "shipped"

LEMMA PlacedOn ==
    ASSUME NEW j \in Jobs, NEW run, run.at \in 1..LastStep(j), Placed(j, run), StillShipped(j)
    PROVE  Placed(j, run)'
<1>1. LastStep(j) \in Nat
  BY Scripts
<1>2. ASSUME NEW i \in 1..(run.at - 1), Kind(j, i) = "order"
      PROVE  docs'[Object(j, i)].status = "shipped"
  <2>1. i \in 1..LastStep(j)
    BY <1>1
  <2>2. Object(j, i) \in TagsOf(j)
    BY <1>2, <2>1, Scripts
  <2> QED
    BY <1>2, <2>2 DEF Placed, StillShipped
<1> QED
  BY <1>2 DEF Placed

\* A job that nobody moves, and whose documents and stock stay as they are unless
\* somebody is noted to have touched them.
LEMMA Undisturbed ==
    ASSUME CauseInv, NEW j \in Jobs, job'[j] = job[j], RowsKept,
           \A t \in TagsOf(j) : docs'[t].status = docs[t].status,
           job[j].at # 0 /\ ~meddled'[j] =>
              /\ ~meddled[j] /\ onHand'[j] = onHand[j]
              /\ \A t \in TagsOf(j) : docs'[t].live = docs[t].live
    PROVE  Sound(j)
<1> SUFFICES ASSUME job[j].at # 0
             PROVE  Sound(j)
  BY DEF Reliable, Sound
<1> DEFINE run == job[j]
<1>1. /\ run.at \in 1..LastStep(j) /\ Placed(j, run) /\ Met(j, run)
      /\ Stocked(j, run) /\ Believes(j, run)
  BY AtStep
<1>2. Placed(j, run)'
  BY <1>1, PlacedOn DEF StillShipped
<1>3. Met(j, run)'
  <2>1. Kind(j, run.at) = "row" => KeyAt(j, run) \in Keys
    BY RowKeyIsKey
  <2>2. <<"company", MainCode>> \in Keys
    BY CodesAreThere, CompanyKey
  <2>3. \A k \in Keys : rows[k] # "none" => rows'[k] # "none"
    BY DEF RowsKept
  <2> QED
    BY <1>1, <2>1, <2>2, <2>3 DEF Met, KeyAt
<1>4. Target(j)' = Target(j)
  BY TargetKept
<1>5. Stocked(j, run)'
  BY <1>1, <1>4 DEF Stocked
<1>6. Believes(j, run)'
  <2> SUFFICES ASSUME Kind(j, run.at) = "order" PROVE Believes(j, run)'
    BY DEF Believes
  <2>1. Object(j, run.at) \in TagsOf(j)
    BY ArgIsTag DEF Arg
  <2> QED
    BY <1>1, <2>1 DEF Believes
<1>7. job'[j].outcome # "failed"
  BY <1>1 DEF Placed
<1> QED
  BY <1>2, <1>3, <1>5, <1>6, <1>7 DEF Reliable, Sound

\* It fails.
LEMMA FailsSound ==
    ASSUME CauseInv, NEW j \in Jobs, Fails(j), meddled[j] \/ Cause(j)
    PROVE  Sound(j)
<1>1. job'[j] = Stopped("failed")
  BY DEF Fails, CauseInv, ProvisioningInv, TypeOK
<1>2. job'[j].at = 0
  BY <1>1, StoppedType
<1> QED
  BY <1>2 DEF Sound, Reliable

\* It goes on to the next step, with the one in hand done.
LEMMA OnwardSound ==
    ASSUME CauseInv, NEW j \in Jobs, job[j].at # 0, NEW c, OnwardIn(j, c), StillShipped(j),
           Kind(j, job[j].at) = "order" => docs'[Arg(j)].status = "shipped",
           job[j].at >= CompanyStep(j) => c \in Codes,
           ~meddled'[j] /\ job[j].at >= StockStep(j) => onHand'[j] = Target(j)'
    PROVE  Sound(j)
<1>1. /\ job[j].at \in 1..LastStep(j) /\ LastStep(j) \in Nat /\ job[j].at \in Nat
      /\ Placed(j, job[j])
  BY AtStep
<1>2. CASE job[j].at = LastStep(j)
  <2>1. job'[j] = Stopped("done")
    BY <1>2 DEF OnwardIn, CauseInv, ProvisioningInv, TypeOK
  <2>2. job'[j].at = 0 /\ job'[j].outcome # "failed"
    BY <2>1 DEF Stopped
  <2> QED
    BY <2>2 DEF Sound, Reliable
<1>3. CASE job[j].at # LastStep(j)
  <2>1. job'[j] = Running(job[j].at + 1, c)
    BY <1>3 DEF OnwardIn, CauseInv, ProvisioningInv, TypeOK
  <2>2. PICK run : /\ run = job'[j] /\ run.at = job[j].at + 1 /\ run.phase = "look"
                   /\ run.company = c /\ run.outcome = "none"
    BY <2>1 DEF Running
  <2>3. Placed(j, job[j])'
    <3>1. ASSUME NEW i \in 1..(run.at - 1), Kind(j, i) = "order"
          PROVE  docs'[Object(j, i)].status = "shipped"
      <4>1. CASE i = job[j].at
        BY <3>1, <4>1 DEF Arg
      <4>2. CASE i # job[j].at
        <5>1. i \in 1..(job[j].at - 1) /\ i \in 1..LastStep(j)
          BY <1>1, <2>2, <4>2
        <5>2. docs[Object(j, i)].status = "shipped" /\ Object(j, i) \in TagsOf(j)
          BY <1>1, <3>1, <5>1, Scripts DEF Placed
        <5> QED
          BY <5>2 DEF StillShipped
      <4> QED
        BY <4>1, <4>2
    <3>2. run.at > CompanyStep(j) => run.company \in Codes
      BY <1>1, <2>2 DEF CompanyStep
    <3> QED
      BY <2>2, <3>1, <3>2 DEF Placed
  <2>4. Met(j, job[j])' /\ Believes(j, job[j])'
    BY <2>2 DEF Met, Believes
  <2>5. run.at > StockStep(j) => job[j].at >= StockStep(j)
    BY <1>1, <2>2 DEF StockStep
  <2>6. Stocked(j, job[j])'
    BY <2>2, <2>5 DEF Stocked
  <2> QED
    BY <2>2, <2>3, <2>4, <2>6 DEF Sound, Reliable
<1> QED
  BY <1>2, <1>3

\* The run in hand, in another phase.
IsPhase(run, old, p) ==
    /\ run.at = old.at /\ run.company = old.company /\ run.outcome = old.outcome
    /\ run.phase = p

LEMMA PhaseRun ==
    ASSUME CauseInv, NEW j \in Jobs, job[j].at # 0, NEW p, Phase(j, p)
    PROVE  IsPhase(job'[j], job[j], p) /\ job'[j].saw = job[j].saw
<1>1. PICK old, run : old = job[j] /\ run = job'[j] /\ IsRun(old) /\ run = [old EXCEPT !.phase = p]
  BY AtStep DEF Phase, CauseInv, ProvisioningInv, TypeOK
<1> DEFINE f == [field \in {"at", "phase", "company", "saw", "outcome"} |-> old[field]]
<1>2. old = f
  BY <1>1 DEF IsRun
<1>3. /\ run.at = old.at /\ run.company = old.company /\ run.outcome = old.outcome
      /\ run.phase = p /\ run.saw = old.saw
  BY <1>1, <1>2
<1> QED
  BY <1>1, <1>3 DEF IsPhase

LEMMA PhaseRunWith ==
    ASSUME CauseInv, NEW j \in Jobs, job[j].at # 0, NEW p, NEW saw,
           job' = [job EXCEPT ![j].phase = p, ![j].saw = saw]
    PROVE  IsPhase(job'[j], job[j], p) /\ job'[j].saw = saw
<1>1. PICK old, run :
         /\ old = job[j] /\ run = job'[j] /\ IsRun(old)
         /\ run = [old EXCEPT !.phase = p, !.saw = saw]
  BY AtStep DEF CauseInv, ProvisioningInv, TypeOK
<1> DEFINE f == [field \in {"at", "phase", "company", "saw", "outcome"} |-> old[field]]
<1>2. old = f
  BY <1>1 DEF IsRun
<1>3. /\ run.at = old.at /\ run.company = old.company /\ run.outcome = old.outcome
      /\ run.phase = p /\ run.saw = saw
  BY <1>1, <1>2
<1> QED
  BY <1>1, <1>3 DEF IsPhase

\* It goes to another phase of the step in hand.
LEMMA PhaseKeeps ==
    ASSUME CauseInv, NEW j \in Jobs, job[j].at # 0, NEW p, IsPhase(job'[j], job[j], p),
           StillShipped(j), Met(j, job[j])', Stocked(j, job[j])', Believes(j, job[j])'
    PROVE  Sound(j)
<1>1. job[j].at \in 1..LastStep(j) /\ Placed(j, job[j])
  BY AtStep
<1>2. PICK run : run = job'[j] /\ IsPhase(run, job[j], p)
  OBVIOUS
<1>3. Placed(j, job[j])'
  <2>1. Placed(j, run)
    BY <1>1, <1>2 DEF Placed, IsPhase
  <2>2. run.at \in 1..LastStep(j)
    BY <1>1, <1>2 DEF IsPhase
  <2>3. Placed(j, run)'
    BY <2>1, <2>2, PlacedOn
  <2> QED
    BY <1>2, <2>3 DEF Placed
<1>4. job'[j].outcome # "failed"
  BY <1>1 DEF Placed, IsPhase
<1> QED
  BY <1>3, <1>4 DEF Sound, Reliable

LEMMA PhaseSound ==
    ASSUME CauseInv, NEW j \in Jobs, job[j].at # 0, NEW p, IsPhase(job'[j], job[j], p),
           StillShipped(j), p # "look_again", p # "adjust",
           ~meddled'[j] /\ job[j].at > StockStep(j) => onHand'[j] = Target(j)',
           Believes(j, job[j])'
    PROVE  Sound(j)
<1>1. Met(j, job[j])' /\ Stocked(j, job[j])'
  BY DEF Met, Stocked, IsPhase
<1> QED
  BY <1>1, PhaseKeeps

LEMMA NoDocumentChanged ==
    ASSUME NEW j \in Jobs, UNCHANGED docs
    PROVE  StillShipped(j) /\ Target(j)' = Target(j)
BY TargetKept DEF StillShipped

\* A step before the stock: neither an order nor the count.
LEMMA Early ==
    ASSUME CauseInv, NEW j \in Jobs, job[j].at # 0,
           Kind(j, job[j].at) \in {"row", "company", "login"}
    PROVE  /\ ~(job[j].at >= StockStep(j)) /\ ~(job[j].at > StockStep(j))
           /\ Kind(j, job[j].at) = "row" /\ job[j].at >= CompanyStep(j) => job[j].company \in Codes
<1>1. job[j].at \in 1..LastStep(j) /\ job[j].at \in Nat /\ Placed(j, job[j])
  BY AtStep
<1>2. ~(job[j].at > StockStep(j)) /\ job[j].at # StockStep(j)
  BY <1>1, StepAt
<1>3. CompanyStep(j) \in Nat /\ StockStep(j) \in Nat
  BY DEF CompanyStep, StockStep
<1>4. Kind(j, job[j].at) = "row" => job[j].at # CompanyStep(j)
  BY <1>1, StepAt
<1>5. job[j].at > CompanyStep(j) => job[j].company \in Codes
  BY <1>1 DEF Placed
<1> QED
  BY <1>1, <1>2, <1>3, <1>4, <1>5

--------------------------------------------------------------------------------
(* The steps of a job are sound. *)

\* A row that is there and not right is somebody else's.
LEMMA OthersRow ==
    ASSUME CauseInv, NEW k \in Keys, rows[k] # "none", rows[k] # "right"
    PROVE  Wrong
BY DEF Wrong, CauseInv, ProvisioningInv, TypeOK

LEMMA WrongIsCause ==
    ASSUME Wrong, NEW j \in Jobs
    PROVE  Cause(j)
BY DEF Cause, Obstacle

\* A row that must be right.
LEMMA CheckSound ==
    ASSUME CauseInv, NEW j \in Jobs, job[j].at # 0, NEW k \in Keys, rows[k] # "none",
           NEW c, Check(j, k, OnwardIn(j, c)), UNCHANGED docs,
           Kind(j, job[j].at) \in {"row", "company"}, job[j].at >= CompanyStep(j) => c \in Codes
    PROVE  Sound(j)
<1>1. CASE rows[k] = "right"
  <2>1. OnwardIn(j, c)
    BY <1>1 DEF Check
  <2> QED
    BY <2>1, NoDocumentChanged, Early, OnwardSound
<1>2. CASE rows[k] # "right"
  <2>1. Fails(j) /\ Cause(j)
    BY <1>2, OthersRow, WrongIsCause DEF Check
  <2> QED
    BY <2>1, FailsSound
<1> QED
  BY <1>1, <1>2

\* A row that is to be made.
LEMMA CreateSound ==
    ASSUME CauseInv, NEW j \in Jobs, job[j].at # 0, NEW k \in Keys,
           NEW c, Create(j, k, OnwardIn(j, c)),
           \/ Kind(j, job[j].at) = "row" /\ k = KeyAt(j, job[j])
           \/ Kind(j, job[j].at) = "company" /\ k = <<"company", MainCode>>,
           job[j].at >= CompanyStep(j) => c \in Codes
    PROVE  Sound(j)
<1>1. UNCHANGED docs
  BY DEF Create
<1>2. CASE rows[k] = "none"
  <2>1. OnwardIn(j, c)
    BY <1>2 DEF Create
  <2> QED
    BY <1>1, <2>1, NoDocumentChanged, Early, OnwardSound
<1>3. CASE rows[k] # "none"
  <2>1. Phase(j, "look_again") /\ UNCHANGED rows
    BY <1>3 DEF Create, Conflicted
  <2>2. IsPhase(job'[j], job[j], "look_again")
    BY <2>1, PhaseRun
  <2>3. Met(j, job[j])'
    <3>1. Kind(j, job[j].at) = "row" => rows[KeyAt(j, job[j])] # "none"
      BY <1>3
    <3>2. Kind(j, job[j].at) = "company" => rows[<<"company", MainCode>>] # "none"
      BY <1>3
    <3>3. KeyAt(j, job[j])' = KeyAt(j, job[j])
      BY <2>2 DEF KeyAt, IsPhase
    <3>4. UNCHANGED MainCode
      BY DEF MainCode
    <3> QED
      BY <2>1, <2>2, <3>1, <3>2, <3>3 DEF Met, IsPhase, KeyAt
  <2>4. Stocked(j, job[j])' /\ Believes(j, job[j])'
    BY <2>2, Early DEF Stocked, Believes, IsPhase
  <2> QED
    BY <1>1, <2>2, <2>3, <2>4, NoDocumentChanged, PhaseKeeps
<1> QED
  BY <1>2, <1>3

LEMMA RowsSound ==
    ASSUME CauseInv, NEW j \in Jobs, LookForRow(j) \/ CreateRow(j) \/ LookAgain(j)
    PROVE  Sound(j)
<1>1. job[j].at # 0 /\ Kind(j, job[j].at) = "row" /\ UNCHANGED docs
  BY DEF LookForRow, CreateRow, LookAgain, Create, At
<1>2. RowKey(j) = KeyAt(j, job[j]) /\ RowKey(j) \in Keys
  BY <1>1, RowKeyIsKey DEF RowKey
<1>3. job[j].at >= CompanyStep(j) => job[j].company \in Codes
  BY <1>1, Early
<1>4. CASE LookForRow(j)
  <2>1. CASE rows[RowKey(j)] = "none"
    <3>1. Phase(j, "create")
      BY <1>4, <2>1 DEF LookForRow
    <3>2. IsPhase(job'[j], job[j], "create")
      BY <1>1, <3>1, PhaseRun
    <3>3. Believes(j, job[j])'
      BY <1>1, <3>2 DEF Believes, IsPhase
    <3> QED
      BY <1>1, <3>2, <3>3, NoDocumentChanged, Early, PhaseSound
  <2>2. CASE rows[RowKey(j)] # "none"
    <3>1. Check(j, RowKey(j), OnwardIn(j, job[j].company))
      BY <1>4, <2>2 DEF LookForRow, Onward, Check
    <3> QED
      BY <1>1, <1>2, <1>3, <2>2, <3>1, CheckSound
  <2> QED
    BY <2>1, <2>2
<1>5. CASE CreateRow(j)
  <2>1. Create(j, RowKey(j), OnwardIn(j, job[j].company))
    BY <1>5 DEF CreateRow, Onward, Create
  <2> QED
    BY <1>1, <1>2, <1>3, <2>1, CreateSound
<1>6. CASE LookAgain(j)
  <2>1. Check(j, RowKey(j), OnwardIn(j, job[j].company)) /\ job[j].phase = "look_again"
    BY <1>6 DEF LookAgain, Onward, Check, At
  <2>2. rows[RowKey(j)] # "none"
    BY <1>1, <1>2, <2>1, AtStep DEF Met
  <2> QED
    BY <1>1, <1>2, <1>3, <2>1, <2>2, CheckSound
<1> QED
  BY <1>4, <1>5, <1>6

LEMMA CompanySound ==
    ASSUME CauseInv, NEW j \in Jobs,
           LookForCompany(j) \/ CreateCompany(j) \/ LookAgainForCompany(j)
    PROVE  Sound(j)
<1>1. job[j].at # 0 /\ Kind(j, job[j].at) = "company" /\ UNCHANGED docs
  BY DEF LookForCompany, CreateCompany, LookAgainForCompany, Create, At
<1>2. j = "seed"
  BY <1>1, AtStep, StepAt
<1>3. MainCode \in Codes /\ <<"company", MainCode>> \in Keys
  BY CodesAreThere, CompanyKey
<1>4. CASE LookForCompany(j)
  <2>1. CASE Existing = {}
    <3>1. IsPhase(job'[j], job[j], "create")
      BY <1>1, <1>4, <2>1, PhaseRun DEF LookForCompany
    <3>2. Believes(j, job[j])'
      BY <1>1, <3>1 DEF Believes, IsPhase
    <3> QED
      BY <1>1, <3>1, <3>2, NoDocumentChanged, Early, PhaseSound
  <2>2. CASE Existing # {} /\ \E c \in Suitable : rows[<<"company", c>>] = "right"
    <3>1. PICK c \in Suitable : OnwardIn(j, c)
      BY <1>4, <2>2 DEF LookForCompany
    <3>2. c \in Codes
      BY DEF Suitable, Existing
    <3> QED
      BY <1>1, <3>1, <3>2, NoDocumentChanged, Early, OnwardSound
  <2>3. CASE Existing # {} /\ ~\E c \in Suitable : rows[<<"company", c>>] = "right"
    <3>1. Fails(j)
      BY <1>4, <2>3 DEF LookForCompany
    <3>2. CASE Suitable = {}
      BY <1>2, <2>3, <3>1, <3>2, FailsSound DEF Cause, Obstacle
    <3>3. CASE Suitable # {}
      <4>1. PICK c \in Codes : c \in Suitable /\ rows[<<"company", c>>] # "none"
        BY <3>3 DEF Suitable, Existing
      <4>2. Wrong
        BY <2>3, <4>1, CompanyKey, OthersRow
      <4> QED
        BY <3>1, <4>2, WrongIsCause, FailsSound
    <3> QED
      BY <3>2, <3>3
  <2> QED
    BY <2>1, <2>2, <2>3
<1>5. CASE CreateCompany(j)
  BY <1>1, <1>3, <1>5, CreateSound DEF CreateCompany
<1>6. CASE LookAgainForCompany(j)
  <2>1. Check(j, <<"company", MainCode>>, OnwardIn(j, MainCode)) /\ job[j].phase = "look_again"
    BY <1>6 DEF LookAgainForCompany, At
  <2>2. rows[<<"company", MainCode>>] # "none"
    BY <1>1, <2>1, AtStep DEF Met
  <2> QED
    BY <1>1, <1>3, <2>1, <2>2, CheckSound
<1> QED
  BY <1>4, <1>5, <1>6

\* The demo has nobody to log in as.
LEMMA LoginSound ==
    ASSUME CauseInv, NEW j \in Jobs, Login(j)
    PROVE  Sound(j)
<1>1. job[j].at # 0 /\ Kind(j, job[j].at) = "login" /\ UNCHANGED docs
  BY DEF Login, At
<1>2. j = "demo"
  BY <1>1, AtStep, StepAt
<1>3. CASE admins = {}
  <2>1. Fails(j) /\ Cause(j)
    BY <1>2, <1>3 DEF Login, Cause
  <2> QED
    BY <2>1, FailsSound
<1>4. CASE admins # {}
  <2>1. PICK a \in admins : OnwardIn(j, a.company)
    BY <1>4 DEF Login
  <2>2. a.company \in Codes
    BY DEF CauseInv, ProvisioningInv, OneInstalls
  <2> QED
    BY <1>1, <2>1, <2>2, NoDocumentChanged, Early, OnwardSound
<1> QED
  BY <1>3, <1>4

\* A job that is past its company has one.
LEMMA HasCompany ==
    ASSUME CauseInv, NEW j \in Jobs, job[j].at # 0,
           Kind(j, job[j].at) \in {"stock", "order", "check"}
    PROVE  /\ job[j].company \in Codes
           /\ Kind(j, job[j].at) \in {"order", "check"} <=> job[j].at > StockStep(j)
           /\ Kind(j, job[j].at) = "order" => Kind(j, job[j].at) # "check"
<1>1. job[j].at \in 1..LastStep(j) /\ job[j].at \in Nat /\ Placed(j, job[j])
  BY AtStep
<1>2. /\ Kind(j, job[j].at) = "stock" <=> job[j].at = StockStep(j)
      /\ Kind(j, job[j].at) \in {"order", "check"} <=> job[j].at > StockStep(j)
  BY <1>1, StepAt
<1>3. job[j].at > CompanyStep(j)
  BY <1>1, <1>2 DEF CompanyStep, StockStep
<1> QED
  BY <1>1, <1>2, <1>3 DEF Placed

\* What it still has to ship and wants is never less than nothing.
LEMMA StockSound ==
    ASSUME CauseInv, NEW j \in Jobs, UNCHANGED meddled, LookAtStock(j) \/ Adjust(j)
    PROVE  Sound(j)
<1>1. job[j].at # 0 /\ Kind(j, job[j].at) = "stock" /\ UNCHANGED docs
  BY DEF LookAtStock, Adjust, At
<1>2. job[j].company \in Codes
  BY <1>1, HasCompany
<1>3. /\ Target(j) \in Nat /\ Target(j)' = Target(j) /\ StillShipped(j) /\ onHand[j] \in Int
  BY <1>1, TargetNat, NoDocumentChanged DEF CauseInv
<1>4. CASE LookAtStock(j)
  <2>1. CASE onHand[j] = Target(j)
    <3>1. OnwardIn(j, job[j].company) /\ onHand'[j] = Target(j)'
      BY <1>3, <1>4, <2>1 DEF LookAtStock, Onward
    <3> QED
      BY <1>1, <1>2, <1>3, <3>1, OnwardSound
  <2>2. CASE onHand[j] # Target(j)
    <3> DEFINE saw == Target(j) - onHand[j]
    <3>1. job' = [job EXCEPT ![j].phase = "adjust", ![j].saw = saw] /\ onHand'[j] = onHand[j]
      BY <1>4, <2>2 DEF LookAtStock
    <3>2. IsPhase(job'[j], job[j], "adjust") /\ job'[j].saw = saw
      BY <1>1, <3>1, PhaseRunWith
    <3>3. saw \in Int /\ onHand[j] + saw = Target(j)
      BY <1>3
    <3> HIDE DEF saw
    <3>4. ~(job[j].at > StockStep(j))
      BY <1>1, HasCompany
    <3>5. Stocked(j, job[j])'
      BY <1>3, <3>1, <3>2, <3>3, <3>4 DEF Stocked, IsPhase
    <3>6. Met(j, job[j])' /\ Believes(j, job[j])'
      BY <1>1, <3>2 DEF Met, Believes, IsPhase
    <3> QED
      BY <1>1, <1>3, <3>2, <3>5, <3>6, PhaseKeeps
  <2> QED
    BY <2>1, <2>2
<1>5. CASE Adjust(j)
  <2>1. job[j].saw \in Int /\ (~meddled[j] => onHand[j] + job[j].saw = Target(j))
    BY <1>1, <1>5, AtStep DEF Stocked, Adjust, At
  <2>2. CASE onHand[j] + job[j].saw < 0
    <3>1. Fails(j) /\ meddled[j]
      BY <1>3, <1>5, <2>1, <2>2 DEF Adjust
    <3> QED
      BY <3>1, FailsSound
  <2>3. CASE ~(onHand[j] + job[j].saw < 0)
    <3>1. OnwardIn(j, job[j].company) /\ onHand' = [onHand EXCEPT ![j] = onHand[j] + job[j].saw]
      BY <1>5, <2>3 DEF Adjust, Onward
    <3>2. onHand'[j] = onHand[j] + job[j].saw
      BY <3>1 DEF CauseInv
    <3>3. ~meddled'[j] => onHand'[j] = Target(j)'
      BY <1>3, <2>1, <3>2
    <3> QED
      BY <1>1, <1>2, <1>3, <3>1, <3>3, OnwardSound
  <2> QED
    BY <2>2, <2>3
<1> QED
  BY <1>4, <1>5

\* At its check the seed has shipped every order.
LEMMA CheckStockSound ==
    ASSUME CauseInv, NEW j \in Jobs, UNCHANGED meddled, CheckStock(j)
    PROVE  Sound(j)
<1>1. job[j].at # 0 /\ Kind(j, job[j].at) = "check" /\ UNCHANGED <<docs, onHand>>
  BY DEF CheckStock, At
<1>2. job[j].company \in Codes /\ job[j].at > StockStep(j) /\ Kind(j, job[j].at) # "order"
  BY <1>1, HasCompany
<1>3. j = "seed" /\ job[j].at = LastStep(j) /\ Placed(j, job[j])
  BY <1>1, AtStep, StepAt
<1>4. Unshipped(j) = {}
  <2>1. ASSUME NEW t \in TagsOf(j) PROVE docs[t].status = "shipped"
    <3>1. PICK i \in 1..(LastStep("seed") - 1) : Kind("seed", i) = "order" /\ Object("seed", i) = t
      BY <1>3, AllPassed
    <3> QED
      BY <1>3, <3>1 DEF Placed
  <2> QED
    BY <2>1 DEF Unshipped
<1>5. Target(j) = Desired[j] /\ Target(j)' = Target(j) /\ StillShipped(j)
  BY <1>1, <1>4, TargetNat, NoDocumentChanged
<1>6. ~meddled[j] => onHand[j] = Target(j)
  BY <1>1, <1>2, AtStep DEF Stocked
<1>7. CASE onHand[j] = Desired[j]
  <2>1. OnwardIn(j, job[j].company)
    BY <1>7 DEF CheckStock, Onward
  <2> QED
    BY <1>1, <1>2, <1>5, <1>7, <2>1, OnwardSound
<1>8. CASE onHand[j] # Desired[j]
  <2>1. Fails(j) /\ meddled[j]
    BY <1>5, <1>6, <1>8 DEF CheckStock
  <2> QED
    BY <2>1, FailsSound
<1> QED
  BY <1>7, <1>8

\* What holds of the order in hand.
LEMMA OrderInHand ==
    ASSUME CauseInv, NEW j \in Jobs, NEW p, At(j, "order", p)
    PROVE  /\ job[j].at # 0 /\ Kind(j, job[j].at) = "order" /\ job[j].phase = p
           /\ Arg(j) \in TagsOf(j) /\ Arg(j) \in Tags /\ docs[Arg(j)] \in Documents
           /\ job[j].company \in Codes
           /\ ~meddled[j] => onHand[j] = Target(j)
           /\ p \in {"create_order", "confirm", "ship"} => docs[Arg(j)].status # "shipped"
           /\ p \in {"find_invoice", "issue", "find_payment", "receive", "allocate"} =>
                 docs[Arg(j)].status = "shipped"
           /\ p = "issue" /\ ~meddled[j] => docs[Arg(j)].live = 0
           /\ p \in {"find_payment", "receive", "allocate"} /\ ~meddled[j] =>
                 docs[Arg(j)].live = job[j].saw
<1>1. job[j].at # 0 /\ Kind(j, job[j].at) = "order" /\ job[j].phase = p
  BY DEF At
<1>2. Arg(j) \in TagsOf(j) /\ Arg(j) \in Tags /\ docs[Arg(j)] \in Documents
  BY <1>1, ArgIsTag DEF CauseInv, ProvisioningInv, TypeOK
<1>3. job[j].company \in Codes /\ job[j].at > StockStep(j)
  BY <1>1, HasCompany
<1>4. Stocked(j, job[j]) /\ Believes(j, job[j])
  BY <1>1, AtStep
<1>5. ~meddled[j] => onHand[j] = Target(j)
  BY <1>3, <1>4 DEF Stocked
<1> QED
  BY <1>1, <1>2, <1>3, <1>4, <1>5 DEF Believes, Arg

\* The documents of the order in hand change, and it is no less shipped.
LEMMA Documented ==
    ASSUME CauseInv, NEW j \in Jobs, NEW p, At(j, "order", p), NEW d,
           docs' = [docs EXCEPT ![Arg(j)] = d], d.status = "shipped" <=> docs[Arg(j)].status = "shipped"
    PROVE  StillShipped(j) /\ Target(j)' = Target(j) /\ docs'[Arg(j)] = d
<1>1. Arg(j) \in Tags
  BY OrderInHand
<1>2. docs'[Arg(j)] = d /\ \A t \in Tags \ {Arg(j)} : docs'[t] = docs[t]
  BY <1>1 DEF CauseInv, ProvisioningInv, TypeOK
<1>3. \A t \in TagsOf(j) : (docs'[t].status = "shipped") <=> (docs[t].status = "shipped")
  BY <1>2, TagsApart
<1> QED
  BY <1>2, <1>3, TargetKept DEF StillShipped

\* The job goes to another phase of its order, with the stock that it wants.
LEMMA OrderPhase ==
    ASSUME CauseInv, NEW j \in Jobs, NEW p, At(j, "order", p), NEW q,
           IsPhase(job'[j], job[j], q), q # "look_again", q # "adjust", StillShipped(j),
           ~meddled'[j] => onHand'[j] = Target(j)',
           q \in {"create_order", "confirm", "ship"} => docs'[Arg(j)].status # "shipped",
           q \in {"find_invoice", "issue", "find_payment", "receive", "allocate"} =>
              docs'[Arg(j)].status = "shipped",
           q = "issue" /\ ~meddled'[j] => docs'[Arg(j)].live = 0,
           q \in {"find_payment", "receive", "allocate"} /\ ~meddled'[j] =>
              docs'[Arg(j)].live = job'[j].saw
    PROVE  Sound(j)
<1>1. job[j].at # 0
  BY OrderInHand
<1>2. Object(j, job'[j].at) = Arg(j) /\ job'[j].phase = q
  BY DEF IsPhase, Arg
<1>3. Believes(j, job[j])'
  BY <1>2 DEF Believes
<1> QED
  BY <1>1, <1>3, PhaseSound

\* It goes on to its next step once the order in hand is shipped.
LEMMA OrderDone ==
    ASSUME CauseInv, NEW j \in Jobs, NEW p, At(j, "order", p), Onward(j), StillShipped(j),
           docs'[Arg(j)].status = "shipped", ~meddled'[j] => onHand'[j] = Target(j)'
    PROVE  Sound(j)
<1>1. job[j].at # 0 /\ job[j].company \in Codes
  BY OrderInHand
<1> QED
  BY <1>1, OnwardSound DEF Onward

\* After the shipment and after the invoice.
LEMMA AfterSound ==
    ASSUME CauseInv, NEW j \in Jobs, NEW p, At(j, "order", p), StillShipped(j),
           docs'[Arg(j)].status = "shipped", ~meddled'[j] => onHand'[j] = Target(j)',
           AfterShipping(j) \/ AfterInvoice(j, docs'[Arg(j)].live)
    PROVE  Sound(j)
<1>1. CASE Onward(j)
  BY <1>1, OrderDone
<1>2. CASE Phase(j, "find_invoice")
  <2>1. job[j].at # 0
    BY OrderInHand
  <2>2. IsPhase(job'[j], job[j], "find_invoice")
    BY <1>2, <2>1, PhaseRun
  <2> QED
    BY <2>2, OrderPhase
<1>3. CASE job' = [job EXCEPT ![j].phase = "find_payment", ![j].saw = docs'[Arg(j)].live]
  <2>1. job[j].at # 0
    BY OrderInHand
  <2>2. PICK i : i = docs'[Arg(j)].live /\ job' = [job EXCEPT ![j].phase = "find_payment", ![j].saw = i]
    BY <1>3
  <2>3. IsPhase(job'[j], job[j], "find_payment") /\ job'[j].saw = i
    BY <2>1, <2>2, PhaseRunWith
  <2> QED
    BY <2>2, <2>3, OrderPhase
<1> QED
  BY <1>1, <1>2, <1>3 DEF AfterShipping, AfterInvoice

LEMMA FindOrderSound ==
    ASSUME CauseInv, NEW j \in Jobs, UNCHANGED <<onHand, meddled>>, FindOrder(j)
    PROVE  Sound(j)
<1>1. At(j, "order", "look") /\ job[j].at # 0 /\ UNCHANGED docs
  BY DEF FindOrder, At
<1>2. StillShipped(j) /\ Target(j)' = Target(j) /\ (~meddled'[j] => onHand'[j] = Target(j)')
  BY <1>1, NoDocumentChanged, OrderInHand
<1>3. docs[Arg(j)] \in Documents
  BY <1>1, OrderInHand
<1>4. CASE docs[Arg(j)].status = "shipped"
  <2>1. AfterShipping(j)
    BY <1>4 DEF FindOrder, Resume
  <2> QED
    BY <1>1, <1>2, <1>4, <2>1, AfterSound
<1>5. CASE docs[Arg(j)].status # "shipped"
  <2>1. PICK q \in {"create_order", "confirm", "ship"} : Phase(j, q)
    BY <1>3, <1>5 DEF FindOrder, Resume, Documents
  <2>2. IsPhase(job'[j], job[j], q)
    BY <1>1, <2>1, PhaseRun
  <2> QED
    BY <1>1, <1>2, <1>5, <2>2, OrderPhase
<1> QED
  BY <1>4, <1>5

LEMMA CreateOrderSound ==
    ASSUME CauseInv, NEW j \in Jobs, UNCHANGED <<onHand, meddled>>, CreateOrder(j) \/ Confirm(j)
    PROVE  Sound(j)
<1>1. PICK p \in {"create_order", "confirm"}, q \in {"confirm", "ship"} :
         At(j, "order", p) /\ Phase(j, q)
  BY DEF CreateOrder, Confirm
<1>2. /\ job[j].at # 0 /\ docs[Arg(j)] \in Documents /\ docs[Arg(j)].status # "shipped"
      /\ ~meddled[j] => onHand[j] = Target(j)
  BY <1>1, OrderInHand
<1>3. PICK d : docs' = [docs EXCEPT ![Arg(j)] = d] /\ d.status # "shipped"
  <2> DEFINE old == docs[Arg(j)]
             new == [old EXCEPT !.orders = old.orders + 1, !.status = "draft"]
             next == [old EXCEPT !.status = "confirmed"]
  <2>1. new.status = "draft" /\ next.status = "confirmed"
    BY <1>2 DEF Documents
  <2>2. docs' = [docs EXCEPT ![Arg(j)] = new] \/ docs' = [docs EXCEPT ![Arg(j)] = next]
    BY DEF CreateOrder, Confirm, CauseInv, ProvisioningInv, TypeOK
  <2> HIDE DEF new, next
  <2> QED
    BY <2>1, <2>2
<1>4. StillShipped(j) /\ Target(j)' = Target(j) /\ docs'[Arg(j)] = d
  BY <1>1, <1>2, <1>3, Documented
<1>5. IsPhase(job'[j], job[j], q)
  BY <1>1, <1>2, PhaseRun
<1> QED
  BY <1>1, <1>2, <1>3, <1>4, <1>5, OrderPhase

\* A shipment takes from the stock what it takes from the orders to ship.
LEMMA ShipSound ==
    ASSUME CauseInv, NEW j \in Jobs, UNCHANGED meddled, Ship(j)
    PROVE  Sound(j)
<1> DEFINE t == Arg(j)
           new == [docs[t] EXCEPT !.status = "shipped"]
<1>1. At(j, "order", "ship")
  BY DEF Ship
<1>2. /\ job[j].at # 0 /\ t \in TagsOf(j) /\ t \in Tags /\ docs[t] \in Documents
      /\ docs[t].status # "shipped" /\ (~meddled[j] => onHand[j] = Target(j))
  BY <1>1, OrderInHand
<1>3. t \in Unshipped(j)
  BY <1>2 DEF Unshipped
<1>4. /\ Qty[t] \in Nat /\ Target(j) = Qty[t] + Desired[j] + ToShip(Unshipped(j) \ {t})
      /\ ToShip(Unshipped(j) \ {t}) \in Nat /\ Desired[j] \in Nat
  BY <1>3, TargetNat, ProvisioningAssumption
<1>5. CASE onHand[j] < Qty[t]
  <2>1. Fails(j) /\ meddled[j]
    BY <1>2, <1>4, <1>5 DEF Ship
  <2> QED
    BY <2>1, FailsSound
<1>6. CASE ~(onHand[j] < Qty[t])
  <2>1. /\ docs' = [docs EXCEPT ![t] = new] /\ onHand' = [onHand EXCEPT ![j] = onHand[j] - Qty[t]]
        /\ AfterShipping(j)
    BY <1>6 DEF Ship, CauseInv, ProvisioningInv, TypeOK
  <2>2. new.status = "shipped"
    BY <1>2 DEF Documents
  <2> HIDE DEF new
  <2>3. docs'[t].status = "shipped" /\ \A x \in Tags \ {t} : docs'[x] = docs[x]
    BY <1>2, <2>1, <2>2 DEF CauseInv, ProvisioningInv, TypeOK
  <2>4. StillShipped(j)
    BY <2>3, TagsApart DEF StillShipped
  <2>5. Unshipped(j)' = Unshipped(j) \ {t}
    <3>1. \A x \in TagsOf(j) : (docs'[x].status # "shipped") <=> (docs[x].status # "shipped" /\ x # t)
      BY <1>2, <2>3, TagsApart
    <3> QED
      BY <3>1 DEF Unshipped, TagsOf, Tags
  <2>6. Target(j)' = Desired[j] + ToShip(Unshipped(j) \ {t})
    BY <2>5 DEF Target, ToShip
  <2>7. onHand'[j] = onHand[j] - Qty[t] /\ onHand[j] \in Int
    BY <2>1 DEF CauseInv
  <2>8. ~meddled'[j] => onHand'[j] = Target(j)'
    BY <1>2, <1>4, <2>6, <2>7
  <2> QED
    BY <1>1, <2>1, <2>3, <2>4, <2>8, AfterSound
<1> QED
  BY <1>5, <1>6

\* An invoice is looked for and issued: the demo gives up on somebody else's.
LEMMA InvoiceSound ==
    ASSUME CauseInv, NEW j \in Jobs, UNCHANGED <<onHand, meddled>>, FindInvoice(j) \/ Issue(j)
    PROVE  Sound(j)
<1>1. PICK p \in {"find_invoice", "issue"} :
         At(j, "order", p) /\ (FindInvoice(j) => p = "find_invoice") /\ (Issue(j) => p = "issue")
  BY DEF FindInvoice, Issue, At
<1>2. /\ job[j].at # 0 /\ docs[Arg(j)] \in Documents /\ docs[Arg(j)].status = "shipped"
      /\ ~meddled[j] => onHand[j] = Target(j)
  BY <1>1, OrderInHand
<1>3. ASSUME UNCHANGED docs, AfterInvoice(j, docs[Arg(j)].live)
      PROVE  Sound(j)
  <2>1. docs'[Arg(j)] = docs[Arg(j)]
    BY <1>3, <1>1, OrderInHand, Documented
  <2>2. StillShipped(j) /\ Target(j)' = Target(j)
    BY <1>3, NoDocumentChanged
  <2> QED
    BY <1>1, <1>2, <1>3, <2>1, <2>2, AfterSound
<1>4. CASE FindInvoice(j)
  <2>1. UNCHANGED docs
    BY <1>4 DEF FindInvoice
  <2>2. CASE docs[Arg(j)].live = 0
    <3>1. Phase(j, "issue")
      BY <1>4, <2>2 DEF FindInvoice
    <3>2. IsPhase(job'[j], job[j], "issue")
      BY <1>2, <3>1, PhaseRun
    <3>3. StillShipped(j) /\ Target(j)' = Target(j)
      BY <2>1, NoDocumentChanged
    <3>4. docs'[Arg(j)] = docs[Arg(j)]
      BY <2>1
    <3> QED
      BY <1>1, <1>2, <2>2, <3>2, <3>3, <3>4, OrderPhase
  <2>3. CASE docs[Arg(j)].live # 0
    BY <1>3, <1>4, <2>1, <2>3 DEF FindInvoice
  <2> QED
    BY <2>2, <2>3
<1>5. CASE Issue(j)
  <2>1. CASE docs[Arg(j)].live = 0
    <3> DEFINE i == docs[Arg(j)].issued + 1
               new == [docs[Arg(j)] EXCEPT !.issued = i, !.live = i]
    <3>1. docs' = [docs EXCEPT ![Arg(j)] = new] /\ AfterInvoice(j, i)
      BY <1>5, <2>1 DEF Issue, CauseInv, ProvisioningInv, TypeOK
    <3>2. new.status = "shipped" /\ new.live = i
      BY <1>2 DEF Documents
    <3> HIDE DEF new, i
    <3>3. StillShipped(j) /\ Target(j)' = Target(j) /\ docs'[Arg(j)] = new
      BY <1>1, <1>2, <3>1, <3>2, Documented
    <3> QED
      BY <1>1, <1>2, <3>1, <3>2, <3>3, AfterSound
  <2>2. CASE docs[Arg(j)].live # 0
    <3>1. CASE j = "seed"
      BY <1>3, <1>5, <2>2, <3>1 DEF Issue
    <3>2. CASE j # "seed"
      <4>1. Fails(j)
        BY <1>5, <2>2, <3>2 DEF Issue
      <4>2. meddled[j]
        BY <1>1, <1>5, <2>2, OrderInHand
      <4> QED
        BY <4>1, <4>2, FailsSound
    <3> QED
      BY <3>1, <3>2
  <2> QED
    BY <2>1, <2>2
<1> QED
  BY <1>4, <1>5

\* A payment is looked for, received and allocated.
LEMMA PaymentSound ==
    ASSUME CauseInv, NEW j \in Jobs, UNCHANGED <<onHand, meddled>>,
           FindPayment(j) \/ Receive(j) \/ Allocate(j)
    PROVE  Sound(j)
<1>1. CASE FindPayment(j)
  <2>1. At(j, "order", "find_payment") /\ UNCHANGED docs
    BY <1>1 DEF FindPayment
  <2>2. PICK q \in {"allocate", "receive"} : Phase(j, q)
    BY <1>1 DEF FindPayment
  <2>3. /\ job[j].at # 0 /\ docs[Arg(j)].status = "shipped"
        /\ ~meddled[j] => onHand[j] = Target(j) /\ docs[Arg(j)].live = job[j].saw
    BY <2>1, OrderInHand
  <2>4. IsPhase(job'[j], job[j], q) /\ job'[j].saw = job[j].saw
    BY <2>2, <2>3, PhaseRun
  <2>5. StillShipped(j) /\ Target(j)' = Target(j) /\ docs'[Arg(j)] = docs[Arg(j)]
    BY <2>1, NoDocumentChanged
  <2> QED
    BY <2>1, <2>3, <2>4, <2>5, OrderPhase
<1>2. CASE Receive(j)
  <2> DEFINE new == [docs[Arg(j)] EXCEPT !.paid = TRUE]
  <2>1. At(j, "order", "receive") /\ Phase(j, "allocate")
    BY <1>2 DEF Receive
  <2>2. /\ job[j].at # 0 /\ docs[Arg(j)] \in Documents /\ docs[Arg(j)].status = "shipped"
        /\ ~meddled[j] => onHand[j] = Target(j) /\ docs[Arg(j)].live = job[j].saw
    BY <2>1, OrderInHand
  <2>3. docs' = [docs EXCEPT ![Arg(j)] = new]
    BY <1>2 DEF Receive, CauseInv, ProvisioningInv, TypeOK
  <2>4. new.status = docs[Arg(j)].status /\ new.live = docs[Arg(j)].live
    BY <2>2 DEF Documents
  <2> HIDE DEF new
  <2>5. StillShipped(j) /\ Target(j)' = Target(j) /\ docs'[Arg(j)] = new
    BY <2>1, <2>3, <2>4, Documented
  <2>6. IsPhase(job'[j], job[j], "allocate") /\ job'[j].saw = job[j].saw
    BY <2>1, <2>2, PhaseRun
  <2> QED
    BY <2>1, <2>2, <2>4, <2>5, <2>6, OrderPhase
<1>3. CASE Allocate(j)
  <2> DEFINE d == docs[Arg(j)]
             new == [d EXCEPT !.allocated = job[j].saw]
  <2>1. At(j, "order", "allocate")
    BY <1>3 DEF Allocate
  <2>2. /\ job[j].at # 0 /\ d \in Documents /\ d.status = "shipped" /\ Arg(j) \in Tags
        /\ ~meddled[j] => onHand[j] = Target(j) /\ d.live = job[j].saw
    BY <2>1, OrderInHand
  <2>3. Single(d)
    BY <2>2 DEF CauseInv, ProvisioningInv, OrderedOnce
  <2>4. new.status = "shipped"
    BY <2>2 DEF Documents
  <2>5. CASE d.allocated = job[j].saw \/ (d.allocated = 0 /\ d.live = job[j].saw)
    <3>1. Onward(j) /\ (UNCHANGED docs \/ docs' = [docs EXCEPT ![Arg(j)] = new])
      BY <1>3, <2>5 DEF Allocate, CauseInv, ProvisioningInv, TypeOK
    <3> HIDE DEF new, d
    <3>2. /\ StillShipped(j) /\ Target(j)' = Target(j)
          /\ docs'[Arg(j)].status = "shipped"
      BY <2>1, <2>2, <2>4, <3>1, NoDocumentChanged, Documented DEF d
    <3> QED
      BY <2>1, <2>2, <3>1, <3>2, OrderDone
  <2>6. CASE ~(d.allocated = job[j].saw \/ (d.allocated = 0 /\ d.live = job[j].saw))
    <3>1. Fails(j)
      BY <1>3, <2>6 DEF Allocate
    <3>2. meddled[j]
      BY <2>2, <2>3, <2>6 DEF Single
    <3> QED
      BY <3>1, <3>2, FailsSound
  <2> QED
    BY <2>5, <2>6
<1> QED
  BY <1>1, <1>2, <1>3

--------------------------------------------------------------------------------
(* Every step of every command. *)

\* A job leaves the other, its orders and its stock alone.
Alone(j) ==
    \A i \in Jobs \ {j} :
       job'[i] = job[i] /\ onHand'[i] = onHand[i] /\ \A t \in TagsOf(i) : docs'[t] = docs[t]

LEMMA OwnRun ==
    ASSUME CauseInv, NEW j \in Jobs,
           \/ \E p : Phase(j, p)
           \/ Fails(j)
           \/ \E c : OnwardIn(j, c)
           \/ \E p, saw : job' = [job EXCEPT ![j].phase = p, ![j].saw = saw]
    PROVE  \A i \in Jobs \ {j} : job'[i] = job[i]
BY DEF Phase, Fails, OnwardIn, CauseInv, ProvisioningInv, TypeOK

LEMMA OwnDocs ==
    ASSUME CauseInv, NEW j \in Jobs, NEW t \in TagsOf(j),
           \A x \in Tags \ {t} : docs'[x] = docs[x]
    PROVE  \A i \in Jobs \ {j} : \A x \in TagsOf(i) : docs'[x] = docs[x]
BY TagsApart

LEMMA OwnStock ==
    ASSUME CauseInv, NEW j \in Jobs, NEW n \in Int,
           UNCHANGED onHand \/ onHand' = [onHand EXCEPT ![j] = n]
    PROVE  onHand' \in [Jobs -> Int] /\ \A i \in Jobs \ {j} : onHand'[i] = onHand[i]
BY DEF CauseInv

LEMMA JobAlone ==
    ASSUME CauseInv, NEW j \in Jobs, JobStep(j)
    PROVE  Alone(j) /\ onHand' \in [Jobs -> Int]
<1>1. \A i \in Jobs \ {j} : job'[i] = job[i]
  <2>1. \/ \E p : Phase(j, p)
        \/ Fails(j)
        \/ \E c : OnwardIn(j, c)
        \/ \E p, saw : job' = [job EXCEPT ![j].phase = p, ![j].saw = saw]
    <3>1. CASE LookForRow(j) \/ CreateRow(j) \/ LookAgain(j)
      BY <3>1 DEF LookForRow, CreateRow, LookAgain, Create, Check, Conflicted, Onward
    <3>2. CASE LookForCompany(j) \/ CreateCompany(j) \/ LookAgainForCompany(j) \/ Login(j)
      BY <3>2 DEF LookForCompany, CreateCompany, LookAgainForCompany, Login, Create, Check, Conflicted
    <3>3. CASE LookAtStock(j) \/ Adjust(j) \/ CheckStock(j)
      BY <3>3 DEF LookAtStock, Adjust, CheckStock, Onward
    <3>4. CASE FindOrder(j) \/ CreateOrder(j) \/ Confirm(j) \/ Ship(j)
      BY <3>4 DEF FindOrder, CreateOrder, Confirm, Ship, AfterShipping, Onward
    <3>5. CASE FindInvoice(j) \/ Issue(j) \/ FindPayment(j) \/ Receive(j) \/ Allocate(j)
      BY <3>5 DEF FindInvoice, Issue, FindPayment, Receive, Allocate, AfterInvoice, Onward
    <3> QED
      BY <3>1, <3>2, <3>3, <3>4, <3>5 DEF JobStep
  <2> QED
    BY <2>1, OwnRun
<1>2. \A i \in Jobs \ {j} : \A x \in TagsOf(i) : docs'[x] = docs[x]
  <2>1. CASE UNCHANGED docs
    BY <2>1
  <2>2. CASE ~UNCHANGED docs
    <3>1. CreateOrder(j) \/ Confirm(j) \/ Ship(j) \/ Issue(j) \/ Receive(j) \/ Allocate(j)
      BY <2>2 DEF JobStep, LookForRow, CreateRow, LookAgain, Create, LookForCompany, CreateCompany,
           LookAgainForCompany, Login, LookAtStock, Adjust, CheckStock, FindOrder, FindInvoice,
           FindPayment
    <3>2. job[j].at # 0 /\ Kind(j, job[j].at) = "order"
      BY <3>1 DEF CreateOrder, Confirm, Ship, Issue, Receive, Allocate, At
    <3>3. Arg(j) \in TagsOf(j) /\ Arg(j) \in Tags
      BY <3>2, ArgIsTag
    <3>4. \A x \in Tags \ {Arg(j)} : docs'[x] = docs[x]
      <4>1. CASE CreateOrder(j) \/ Confirm(j) \/ Ship(j)
        BY <2>2, <4>1 DEF CreateOrder, Confirm, Ship, CauseInv, ProvisioningInv, TypeOK
      <4>2. CASE Issue(j) \/ Receive(j) \/ Allocate(j)
        BY <2>2, <4>2 DEF Issue, Receive, Allocate, CauseInv, ProvisioningInv, TypeOK
      <4> QED
        BY <3>1, <4>1, <4>2
    <3> QED
      BY <3>3, <3>4, OwnDocs
  <2> QED
    BY <2>1, <2>2
<1>3. onHand' \in [Jobs -> Int] /\ \A i \in Jobs \ {j} : onHand'[i] = onHand[i]
  <2>1. onHand[j] \in Int
    BY DEF CauseInv
  <2>2. CASE Adjust(j)
    <3>1. job[j].saw \in Int
      BY <2>2, AtStep DEF Stocked, Adjust, At
    <3>2. UNCHANGED onHand \/ onHand' = [onHand EXCEPT ![j] = onHand[j] + job[j].saw]
      BY <2>2 DEF Adjust
    <3>3. PICK n \in Int : n = onHand[j] + job[j].saw
      BY <2>1, <3>1
    <3> QED
      BY <3>2, <3>3, OwnStock
  <2>3. CASE Ship(j)
    <3>1. Arg(j) \in Tags
      BY <2>3, OrderInHand DEF Ship
    <3>2. PICK n \in Int : n = onHand[j] - Qty[Arg(j)]
      BY <2>1, <3>1, ProvisioningAssumption
    <3>3. UNCHANGED onHand \/ onHand' = [onHand EXCEPT ![j] = n]
      BY <2>3, <3>2 DEF Ship
    <3> QED
      BY <3>3, OwnStock
  <2>4. CASE ~Adjust(j) /\ ~Ship(j)
    <3>1. UNCHANGED onHand
      BY <2>4 DEF JobStep, LookForRow, CreateRow, LookAgain, Create, LookForCompany, CreateCompany,
           LookAgainForCompany, Login, LookAtStock, CheckStock, FindOrder, CreateOrder, Confirm,
           FindInvoice, Issue, FindPayment, Receive, Allocate
    <3> QED
      BY <3>1 DEF CauseInv
  <2> QED
    BY <2>2, <2>3, <2>4
<1> QED
  BY <1>1, <1>2, <1>3 DEF Alone

LEMMA JobStepSound ==
    ASSUME CauseInv, NEW j \in Jobs, JobStep(j)
    PROVE  Sound(j)
<1>1. UNCHANGED meddled
  BY DEF JobStep
<1>2. CASE LookForRow(j) \/ CreateRow(j) \/ LookAgain(j)
  BY <1>2, RowsSound
<1>3. CASE LookForCompany(j) \/ CreateCompany(j) \/ LookAgainForCompany(j)
  BY <1>3, CompanySound
<1>4. CASE Login(j)
  BY <1>4, LoginSound
<1>5. CASE LookAtStock(j) \/ Adjust(j)
  BY <1>1, <1>5, StockSound
<1>6. CASE CheckStock(j)
  BY <1>1, <1>6, CheckStockSound
<1>7. CASE FindOrder(j) \/ CreateOrder(j) \/ Confirm(j)
  <2>1. UNCHANGED onHand
    BY <1>7 DEF FindOrder, CreateOrder, Confirm
  <2> QED
    BY <1>1, <1>7, <2>1, FindOrderSound, CreateOrderSound
<1>8. CASE Ship(j)
  BY <1>1, <1>8, ShipSound
<1>9. CASE FindInvoice(j) \/ Issue(j) \/ FindPayment(j) \/ Receive(j) \/ Allocate(j)
  <2>1. UNCHANGED onHand
    BY <1>9 DEF FindInvoice, Issue, FindPayment, Receive, Allocate
  <2> QED
    BY <1>1, <1>9, <2>1, InvoiceSound, PaymentSound
<1> QED
  BY <1>2, <1>3, <1>4, <1>5, <1>6, <1>7, <1>8, <1>9 DEF JobStep

\* Nobody touches the job, its documents or its stock.
LEMMA LeftAlone ==
    ASSUME CauseInv, RowsKept, NEW j \in Jobs, job'[j] = job[j], meddled'[j] = meddled[j],
           onHand'[j] = onHand[j], \A t \in TagsOf(j) : docs'[t] = docs[t]
    PROVE  Sound(j)
BY Undisturbed

\* Everybody else's hand in a job's documents and stock.
LEMMA MeddlingSound ==
    ASSUME CauseInv, RowsKept, NEW j \in Jobs, Meddle(j),
           \/ \E d \in {-1, 1} : MoveStock(j, d)
           \/ \E t \in TagsOf(j) : IssueInvoice(j, t) \/ VoidInvoice(j, t)
    PROVE  /\ \A i \in Jobs : Sound(i)
           /\ onHand' \in [Jobs -> Int] /\ meddled' \in [Jobs -> BOOLEAN]
<1>1. UNCHANGED job /\ meddled' = [meddled EXCEPT ![j] = job[j].at # 0]
  BY DEF Meddle
<1>2. /\ meddled' \in [Jobs -> BOOLEAN] /\ (job[j].at # 0 => meddled'[j])
      /\ \A i \in Jobs \ {j} : meddled'[i] = meddled[i]
  BY <1>1 DEF CauseInv
<1>3. onHand' \in [Jobs -> Int] /\ \A i \in Jobs \ {j} : onHand'[i] = onHand[i]
  <2>1. CASE UNCHANGED onHand
    BY <2>1 DEF CauseInv
  <2>2. CASE ~UNCHANGED onHand
    <3>1. PICK d \in {-1, 1} : onHand' = [onHand EXCEPT ![j] = onHand[j] + d]
      BY <2>2 DEF MoveStock, IssueInvoice, VoidInvoice
    <3>2. PICK n \in Int : n = onHand[j] + d
      BY DEF CauseInv
    <3> QED
      BY <3>1, <3>2, OwnStock
  <2> QED
    BY <2>1, <2>2
<1>4. /\ \A i \in Jobs \ {j} : \A t \in TagsOf(i) : docs'[t] = docs[t]
      /\ \A t \in TagsOf(j) : docs'[t].status = docs[t].status
  <2>1. CASE UNCHANGED docs
    BY <2>1
  <2>2. CASE ~UNCHANGED docs
    <3>1. PICK t \in TagsOf(j) : IssueInvoice(j, t) \/ VoidInvoice(j, t)
      BY <2>2 DEF MoveStock
    <3>2. t \in Tags /\ docs[t] \in Documents
      BY TagsApart DEF CauseInv, ProvisioningInv, TypeOK
    <3>3. \A x \in Tags \ {t} : docs'[x] = docs[x]
      BY <3>1, <3>2 DEF IssueInvoice, VoidInvoice, CauseInv, ProvisioningInv, TypeOK
    <3>4. docs'[t].status = docs[t].status
      BY <3>1, <3>2 DEF IssueInvoice, VoidInvoice, CauseInv, ProvisioningInv, TypeOK, Documents
    <3> QED
      BY <3>3, <3>4, OwnDocs, TagsApart
  <2> QED
    BY <2>1, <2>2
<1>5. Sound(j)
  BY <1>1, <1>2, <1>4, Undisturbed
<1>6. \A i \in Jobs \ {j} : Sound(i)
  BY <1>1, <1>2, <1>3, <1>4, LeftAlone
<1> QED
  BY <1>2, <1>3, <1>5, <1>6

\* A run that begins or is killed relies on nothing.
LEMMA BeginsSound ==
    ASSUME CauseInv, NEW j \in Jobs, Start(j) \/ KillJob(j)
    PROVE  Sound(j)
<1>1. CASE Start(j)
  <2>1. job'[j] = Running(1, None) /\ job[j].at = 0
    BY <1>1 DEF Start, CauseInv, ProvisioningInv, TypeOK
  <2>2. job'[j].at = 1 /\ job'[j].phase = "look" /\ job'[j].outcome = "none"
    BY <2>1 DEF Running
  <2>3. ~(1 > CompanyStep(j)) /\ ~(1 > StockStep(j)) /\ 1..(1 - 1) = {}
    BY DEF CompanyStep, StockStep
  <2>4. Placed(j, job[j])' /\ Met(j, job[j])' /\ Stocked(j, job[j])' /\ Believes(j, job[j])'
    BY <2>2, <2>3 DEF Placed, Met, Stocked, Believes
  <2> QED
    BY <2>1, <2>4 DEF Sound, Reliable
<1>2. CASE KillJob(j)
  <2>1. job'[j] = Stopped("none")
    BY <1>2 DEF KillJob, CauseInv, ProvisioningInv, TypeOK
  <2>2. job'[j].at = 0 /\ job'[j].outcome = "none"
    BY <2>1 DEF Stopped
  <2> QED
    BY <2>2 DEF Sound, Reliable
<1> QED
  BY <1>1, <1>2

LEMMA CauseStep ==
    ASSUME CauseInv, [Next]_vars
    PROVE  CauseInv' /\ \A j \in Jobs : Sound(j)
<1>1. ProvisioningInv' /\ RowsKept
  BY NextInv DEF CauseInv
<1> DEFINE Kept == /\ onHand' \in [Jobs -> Int] /\ meddled' \in [Jobs -> BOOLEAN]
                   /\ \A j \in Jobs : Sound(j)
<1>2. ASSUME UNCHANGED <<job, docs, onHand, meddled>>
      PROVE  Kept
  BY <1>1, <1>2, LeftAlone DEF CauseInv
<1>3. ASSUME NEW b \in Boots, BootStep(b) \/ KillBoot(b)
      PROVE  Kept
  BY <1>2, <1>3 DEF BootStep, KillBoot, JobVars
<1>4. ASSUME NEW j \in Jobs, Start(j) \/ KillJob(j)
      PROVE  Kept
  <2>1. UNCHANGED <<docs, onHand>> /\ \A i \in Jobs \ {j} : job'[i] = job[i]
    BY <1>4 DEF Start, KillJob, CauseInv, ProvisioningInv, TypeOK
  <2>2. meddled' \in [Jobs -> BOOLEAN] /\ \A i \in Jobs \ {j} : meddled'[i] = meddled[i]
    BY <1>4 DEF Start, KillJob, CauseInv
  <2>3. \A i \in Jobs \ {j} : Sound(i)
    BY <1>1, <2>1, <2>2, LeftAlone
  <2> QED
    BY <1>4, <2>1, <2>2, <2>3, BeginsSound DEF CauseInv
<1>5. ASSUME NEW j \in Jobs, JobStep(j)
      PROVE  Kept
  <2>1. Alone(j) /\ onHand' \in [Jobs -> Int] /\ UNCHANGED meddled
    BY <1>5, JobAlone DEF JobStep
  <2>2. \A i \in Jobs \ {j} : Sound(i)
    BY <1>1, <2>1, LeftAlone DEF Alone
  <2> QED
    BY <1>5, <2>1, <2>2, JobStepSound DEF CauseInv
<1>6. ASSUME NEW j \in Jobs,
             \/ \E d \in {-1, 1} : MoveStock(j, d)
             \/ \E t \in TagsOf(j) : IssueInvoice(j, t) \/ VoidInvoice(j, t)
      PROVE  Kept
  <2>1. Meddle(j)
    BY <1>6 DEF MoveStock, IssueInvoice, VoidInvoice
  <2> QED
    BY <1>1, <1>6, <2>1, MeddlingSound
<1>7. ASSUME NEW k \in Keys, NEW state \in {"right", "wrong"}, MakeRow(k, state)
      PROVE  Kept
  BY <1>2, <1>7 DEF MakeRow, JobVars
<1>8. ASSUME UNCHANGED vars
      PROVE  Kept
  <2>1. UNCHANGED <<job, docs, onHand, meddled>>
    BY <1>8 DEF vars
  <2> QED
    BY <1>2, <2>1
<1>9. Kept
  <2> HIDE DEF Kept
  <2>1. ASSUME Next PROVE Kept
    BY <1>3, <1>4, <1>5, <1>6, <1>7, <2>1, Zenon DEF Next
  <2>2. Next \/ UNCHANGED vars
    OBVIOUS
  <2> QED
    BY <1>8, <2>1, <2>2
<1>10. \A j \in Jobs : Reliable(j, job[j])'
  BY <1>9 DEF Sound
<1>11. CauseInv'
  BY <1>1, <1>9, <1>10 DEF CauseInv
<1> QED
  BY <1>9, <1>11

LEMMA CauseInit == Init => CauseInv
<1> SUFFICES ASSUME Init
             PROVE  CauseInv
  OBVIOUS
<1>1. ProvisioningInv
  BY InitInv
<1>2. \A j \in Jobs : job[j].at = 0
  BY StoppedType DEF Init
<1>3. onHand \in [Jobs -> Int] /\ meddled \in [Jobs -> BOOLEAN]
  BY DEF Init
<1> QED
  BY <1>1, <1>2, <1>3 DEF CauseInv, Reliable

\* Along every behaviour of the commands alone, a run that nobody touches has the
\* stock, the documents and the rows that its next steps count on.
THEOREM CauseInductive == Spec => []CauseInv
<1>1. CauseInv /\ [Next]_vars => CauseInv'
  BY CauseStep
<1> QED
  BY <1>1, CauseInit, PTL DEF Spec

--------------------------------------------------------------------------------
(* The commands on a database that the migrations made. *)

LEMMA InstallInductive == InstallSpec => []ProvisioningInv
<1>1. InstallInit => ProvisioningInv
  BY InitInv DEF InstallInit
<1>2. ProvisioningInv /\ [InstallNext]_everything => ProvisioningInv'
  <2> SUFFICES ASSUME ProvisioningInv, [InstallNext]_everything
               PROVE  ProvisioningInv'
    OBVIOUS
  <2>1. [Next]_vars
    BY DEF InstallNext, Migrate, Deploy, Provision, everything
  <2> QED
    BY <2>1, NextInv
<1> QED
  BY <1>1, <1>2, PTL DEF InstallSpec

\* bootstrap_admin takes its advisory lock and counts the users under it
\* (bootstrap_admin.py): any number of first installs at once, each killed
\* anywhere, leave one administrator at most.
THEOREM OneAdministrator == InstallSpec => []FirstAdminOnce
BY InstallInductive, InvImplies, PTL

\* seed_demo and demo_o2c look for an order by its tag before they make it: killed
\* and run again any number of times they make none twice, and allocate a payment
\* to an invoice that is not voided under it.
THEOREM OrdersMadeOnce == InstallSpec => []NeverDuplicated
BY InstallInductive, InvImplies, PTL

LEMMA InstallCause == InstallSpec => []CauseInv
<1>1. InstallInit => CauseInv
  BY CauseInit DEF InstallInit
<1>2. CauseInv /\ [InstallNext]_everything => CauseInv'
  <2>1. [InstallNext]_everything => [Next]_vars
    BY DEF InstallNext, Migrate, Deploy, Provision, everything
  <2> QED
    BY <2>1, CauseStep
<1> QED
  BY <1>1, <1>2, PTL DEF InstallSpec

\* seed_demo and demo_o2c resume from whatever an earlier run left: whoever is
\* killed and whatever races they lose, a run fails only for a row, a company or a
\* hand in its documents that is somebody else's, or as there is no administrator.
THEOREM FailuresHaveCause == InstallSpec => FailsOnlyForCause
<1> DEFINE Justified == \A j \in Jobs : job[j].at # 0 /\ job'[j].outcome = "failed" =>
              meddled[j] \/ (IF j = "seed" THEN Obstacle ELSE Wrong \/ admins = {})
<1>1. CauseInv /\ [InstallNext]_everything => [Justified]_vars
  <2>1. [InstallNext]_everything => [Next]_vars
    BY DEF InstallNext, Migrate, Deploy, Provision, everything
  <2>2. CauseInv /\ [Next]_vars => Justified
    BY CauseStep DEF Sound, Cause
  <2> QED
    BY <2>1, <2>2
<1> QED
  BY <1>1, InstallCause, PTL DEF InstallSpec, FailsOnlyForCause

--------------------------------------------------------------------------------
(* The migrations: what the scripts may do, and what they leave of the past. *)

\* An operation that may stand in the script of any revision.
AnywhereOp(o) ==
    /\ o.op \notin {"preflight", "backfill"}
    /\ o.op = "drop" => o.what \notin {"outbox", "sales_orders", "shipped_at"}
Anywhere(s) == \E S : s \in Seq(S) /\ \A o \in S : AnywhereOp(o)

\* What makes or seeds something may stand anywhere, and most drops.
LEMMA CreatesAnywhere ==
    /\ \A t, refs : AnywhereOp(M!Table(t, refs))
    /\ \A x : AnywhereOp(M!Free(x))
    /\ \A x, t : AnywhereOp(M!Part(x, t))
    /\ \A x, t, f : AnywhereOp(M!Trigger(x, t, f))
BY DEF M!Table, M!Free, M!Part, M!Trigger, M!Create, AnywhereOp

LEMMA OthersAnywhere ==
    /\ \A x : x \notin {"outbox", "sales_orders", "shipped_at"} => AnywhereOp(M!Drop(x))
    /\ \A what : what \in {"label", "retire"} => AnywhereOp(M!Do(what))
    /\ \A codes : AnywhereOp(M!Seed(codes)) /\ AnywhereOp(M!Unseed(codes))
BY DEF M!Drop, M!Do, M!Seed, M!Unseed, AnywhereOp

\* The scripts, or parts of scripts, of which there is nothing to tell but that.
LEMMA ScriptsAnywhere ==
    /\ Anywhere(M!Upgrade0001Global) /\ Anywhere(M!Upgrade0001Tenant)
    /\ Anywhere(M!Upgrade0002Tables) /\ Anywhere(M!Upgrade0002Triggers)
    /\ Anywhere(M!Downgrade0002) /\ Anywhere(M!Upgrade0003)
    /\ Anywhere(M!Downgrade0003) /\ Anywhere(M!Upgrade0004)
    /\ Anywhere(M!Upgrade0005) /\ Anywhere(M!Downgrade0005)
    /\ Anywhere(M!Upgrade0006) /\ Anywhere(M!Downgrade0006)
    /\ Anywhere(M!Upgrade0007) /\ Anywhere(M!Downgrade0007)
    /\ Anywhere(M!Upgrade0008Invoices) /\ Anywhere(M!Upgrade0008Payments)
    /\ Anywhere(M!Upgrade0009) /\ Anywhere(M!Downgrade0009)
    /\ Anywhere(M!Upgrade0010) /\ Anywhere(M!Downgrade0010)
    /\ Anywhere(M!Upgrade0011) /\ Anywhere(M!Downgrade0011)
    /\ Anywhere(M!Upgrade0012) /\ Anywhere(M!Downgrade0012)
<1> USE CreatesAnywhere, OthersAnywhere DEF Anywhere
<1>1. Anywhere(M!Upgrade0001Global)
  <2> DEFINE s == M!Upgrade0001Global
             S == {s[i] : i \in 1..6}
  <2>1. s \in Seq(S) /\ \A o \in S : AnywhereOp(o)
    BY DEF M!Upgrade0001Global
  <2> QED
    BY <2>1
<1>2. Anywhere(M!Upgrade0001Tenant)
  <2> DEFINE s == M!Upgrade0001Tenant
             S == {s[i] : i \in 1..4}
  <2>1. s \in Seq(S) /\ \A o \in S : AnywhereOp(o)
    BY DEF M!Upgrade0001Tenant
  <2> QED
    BY <2>1
<1>3. Anywhere(M!Upgrade0002Tables)
  <2> DEFINE s == M!Upgrade0002Tables
             S == {s[i] : i \in 1..5}
  <2>1. s \in Seq(S) /\ \A o \in S : AnywhereOp(o)
    BY DEF M!Upgrade0002Tables
  <2> QED
    BY <2>1
<1>4. Anywhere(M!Upgrade0002Triggers)
  <2> DEFINE s == M!Upgrade0002Triggers
             S == {s[i] : i \in 1..5}
  <2>1. s \in Seq(S) /\ \A o \in S : AnywhereOp(o)
    BY DEF M!Upgrade0002Triggers
  <2> QED
    BY <2>1
<1>5. Anywhere(M!Downgrade0002)
  <2> DEFINE s == M!Downgrade0002
             S == {s[i] : i \in 1..10}
  <2>1. s \in Seq(S) /\ \A o \in S : AnywhereOp(o)
    BY DEF M!Downgrade0002
  <2> QED
    BY <2>1
<1>6. Anywhere(M!Upgrade0003)
  <2> DEFINE s == M!Upgrade0003
             S == {s[i] : i \in 1..1}
  <2>1. s \in Seq(S) /\ \A o \in S : AnywhereOp(o)
    BY DEF M!Upgrade0003
  <2> QED
    BY <2>1
<1>7. Anywhere(M!Downgrade0003)
  <2> DEFINE s == M!Downgrade0003
             S == {s[i] : i \in 1..1}
  <2>1. s \in Seq(S) /\ \A o \in S : AnywhereOp(o)
    BY DEF M!Downgrade0003
  <2> QED
    BY <2>1
<1>8. Anywhere(M!Upgrade0004)
  <2> DEFINE s == M!Upgrade0004
             S == {s[i] : i \in 1..4}
  <2>1. s \in Seq(S) /\ \A o \in S : AnywhereOp(o)
    BY DEF M!Upgrade0004
  <2> QED
    BY <2>1
<1>9. Anywhere(M!Upgrade0005)
  <2> DEFINE s == M!Upgrade0005
             S == {s[i] : i \in 1..8}
  <2>1. s \in Seq(S) /\ \A o \in S : AnywhereOp(o)
    BY DEF M!Upgrade0005
  <2> QED
    BY <2>1
<1>10. Anywhere(M!Downgrade0005)
  <2> DEFINE s == M!Downgrade0005
             S == {s[i] : i \in 1..6}
  <2>1. s \in Seq(S) /\ \A o \in S : AnywhereOp(o)
    BY DEF M!Downgrade0005
  <2> QED
    BY <2>1
<1>11. Anywhere(M!Upgrade0006)
  <2> DEFINE s == M!Upgrade0006
             S == {s[i] : i \in 1..1}
  <2>1. s \in Seq(S) /\ \A o \in S : AnywhereOp(o)
    BY DEF M!Upgrade0006
  <2> QED
    BY <2>1
<1>12. Anywhere(M!Downgrade0006)
  <2> DEFINE s == M!Downgrade0006
             S == {s[i] : i \in 1..1}
  <2>1. s \in Seq(S) /\ \A o \in S : AnywhereOp(o)
    BY DEF M!Downgrade0006
  <2> QED
    BY <2>1
<1>13. Anywhere(M!Upgrade0007)
  <2> DEFINE s == M!Upgrade0007
             S == {s[i] : i \in 1..1}
  <2>1. s \in Seq(S) /\ \A o \in S : AnywhereOp(o)
    BY DEF M!Upgrade0007
  <2> QED
    BY <2>1
<1>14. Anywhere(M!Downgrade0007)
  <2> DEFINE s == M!Downgrade0007
             S == {s[i] : i \in 1..1}
  <2>1. s \in Seq(S) /\ \A o \in S : AnywhereOp(o)
    BY DEF M!Downgrade0007
  <2> QED
    BY <2>1
<1>15. Anywhere(M!Upgrade0008Invoices)
  <2> DEFINE s == M!Upgrade0008Invoices
             S == {s[i] : i \in 1..6}
  <2>1. s \in Seq(S) /\ \A o \in S : AnywhereOp(o)
    BY DEF M!Upgrade0008Invoices
  <2> QED
    BY <2>1
<1>16. Anywhere(M!Upgrade0008Payments)
  <2> DEFINE s == M!Upgrade0008Payments
             S == {s[i] : i \in 1..5}
  <2>1. s \in Seq(S) /\ \A o \in S : AnywhereOp(o)
    BY DEF M!Upgrade0008Payments
  <2> QED
    BY <2>1
<1>17. Anywhere(M!Upgrade0009)
  <2> DEFINE s == M!Upgrade0009
             S == {s[i] : i \in 1..8}
  <2>1. s \in Seq(S) /\ \A o \in S : AnywhereOp(o)
    BY DEF M!Upgrade0009
  <2> QED
    BY <2>1
<1>18. Anywhere(M!Downgrade0009)
  <2> DEFINE s == M!Downgrade0009
             S == {s[i] : i \in 1..7}
  <2>1. s \in Seq(S) /\ \A o \in S : AnywhereOp(o)
    BY DEF M!Downgrade0009
  <2> QED
    BY <2>1
<1>19. Anywhere(M!Upgrade0010)
  <2> DEFINE s == M!Upgrade0010
             S == {s[i] : i \in 1..1}
  <2>1. s \in Seq(S) /\ \A o \in S : AnywhereOp(o)
    BY DEF M!Upgrade0010, M!Catalog0010
  <2> QED
    BY <2>1
<1>20. Anywhere(M!Downgrade0010)
  <2> DEFINE s == M!Downgrade0010
             S == {s[i] : i \in 1..1}
  <2>1. s \in Seq(S) /\ \A o \in S : AnywhereOp(o)
    BY DEF M!Downgrade0010, M!Catalog0010
  <2> QED
    BY <2>1
<1>21. Anywhere(M!Upgrade0011)
  <2> DEFINE s == M!Upgrade0011
             S == {s[i] : i \in 1..2}
  <2>1. s \in Seq(S) /\ \A o \in S : AnywhereOp(o)
    BY DEF M!Upgrade0011, M!Catalog0011
  <2> QED
    BY <2>1
<1>22. Anywhere(M!Downgrade0011)
  <2> DEFINE s == M!Downgrade0011
             S == {s[i] : i \in 1..2}
  <2>1. s \in Seq(S) /\ \A o \in S : AnywhereOp(o)
    BY DEF M!Downgrade0011, M!Catalog0011
  <2> QED
    BY <2>1
<1>23. Anywhere(M!Upgrade0012)
  <2> DEFINE s == M!Upgrade0012
             S == {s[i] : i \in 1..2}
  <2>1. s \in Seq(S) /\ \A o \in S : AnywhereOp(o)
    BY DEF M!Upgrade0012, M!Catalog0012
  <2> QED
    BY <2>1
<1>24. Anywhere(M!Downgrade0012)
  <2> DEFINE s == M!Downgrade0012
             S == {s[i] : i \in 1..2}
  <2>1. s \in Seq(S) /\ \A o \in S : AnywhereOp(o)
    BY DEF M!Downgrade0012, M!Catalog0012
  <2> QED
    BY <2>1
<1> QED
  BY <1>1, <1>2, <1>3, <1>4, <1>5, <1>6, <1>7, <1>8, <1>9, <1>10, <1>11, <1>12, <1>13, <1>14, <1>15, <1>16, <1>17, <1>18, <1>19, <1>20, <1>21, <1>22, <1>23, <1>24

LEMMA ConcatAnywhere ==
    ASSUME NEW p, NEW q, Anywhere(p), Anywhere(q)
    PROVE  Anywhere(p \o q)
<1>1. PICK S : p \in Seq(S) /\ \A o \in S : AnywhereOp(o)
  BY DEF Anywhere
<1>2. PICK T : q \in Seq(T) /\ \A o \in T : AnywhereOp(o)
  BY DEF Anywhere
<1>3. p \in Seq(S \cup T) /\ q \in Seq(S \cup T)
  BY <1>1, <1>2
<1>4. p \o q \in Seq(S \cup T)
  BY <1>3, ConcatProperties
<1>5. \A o \in S \cup T : AnywhereOp(o)
  BY <1>1, <1>2
<1> QED
  BY <1>4, <1>5 DEF Anywhere

\* A script that the revision may run.
ScriptOf(s, r) ==
    /\ M!IsScript(s)
    /\ \A i \in DOMAIN s :
          /\ M!MayDo(s[i], r)
          /\ s[i].op = "backfill" => i # 1 /\ s[i - 1].op = "preflight"

LEMMA AnywhereScript ==
    ASSUME NEW s, NEW r, Anywhere(s)
    PROVE  ScriptOf(s, r)
<1>1. PICK S : s \in Seq(S) /\ \A o \in S : AnywhereOp(o)
  BY DEF Anywhere
<1>2. s \in Seq({s[i] : i \in DOMAIN s})
  BY <1>1
<1>3. \A i \in DOMAIN s : s[i] \in S
  BY <1>1
<1> QED
  BY <1>1, <1>2, <1>3 DEF ScriptOf, M!IsScript, M!MayDo, AnywhereOp

\* And those that drop or fill in what the past is told from.
LEMMA Downgrade0001Script == ScriptOf(M!Downgrade0001, 0)
<1> DEFINE s == M!Downgrade0001
<1>1. s \in Seq({s[i] : i \in DOMAIN s})
  BY DEF M!Downgrade0001
<1>2. DOMAIN s = 1..10 /\ \A i \in 1..10 : s[i].op = "drop" /\ s[i].what \notin {"sales_orders", "shipped_at"}
  BY DEF M!Downgrade0001, M!Drop
<1> QED
  BY <1>1, <1>2 DEF ScriptOf, M!IsScript, M!MayDo

LEMMA Downgrade0004Script ==
    ScriptOf(M!Downgrade0004, 3) /\ \E i \in DOMAIN M!Downgrade0004 :
                                       M!Downgrade0004[i] = M!Drop("sales_orders")
<1> DEFINE s == M!Downgrade0004
<1>1. s \in Seq({s[i] : i \in DOMAIN s})
  BY DEF M!Downgrade0004
<1>2. DOMAIN s = 1..4 /\ \A i \in 1..4 : s[i].op = "drop" /\ s[i].what \notin {"outbox", "shipped_at"}
  BY DEF M!Downgrade0004, M!Drop
<1>3. s[2] = M!Drop("sales_orders")
  BY DEF M!Downgrade0004
<1> QED
  BY <1>1, <1>2, <1>3 DEF ScriptOf, M!IsScript, M!MayDo

LEMMA Downgrade0008Script == ScriptOf(M!Downgrade0008, 7)
<1> DEFINE s == M!Downgrade0008
<1>1. s \in Seq({s[i] : i \in DOMAIN s})
  BY DEF M!Downgrade0008
<1>2. DOMAIN s = 1..13 /\ \A i \in 1..13 : s[i].op = "drop" /\ s[i].what \notin {"outbox", "sales_orders"}
  BY DEF M!Downgrade0008, M!Drop
<1> QED
  BY <1>1, <1>2 DEF ScriptOf, M!IsScript, M!MayDo

LEMMA Upgrade0005Script ==
    ScriptOf(M!Upgrade0005, 5) /\ \E i \in DOMAIN M!Upgrade0005 : M!Upgrade0005[i].op = "retire"
<1>1. 8 \in DOMAIN M!Upgrade0005 /\ M!Upgrade0005[8].op = "retire"
  BY DEF M!Upgrade0005, M!Do
<1> QED
  BY <1>1, AnywhereScript, ScriptsAnywhere

LEMMA Upgrade0008Script ==
    LET s == M!Upgrade0008Shipping \o M!Upgrade0008Invoices \o M!Upgrade0008Payments
    IN ScriptOf(s, 8) /\ \E i \in DOMAIN s : s[i].op = "backfill"
<1> DEFINE first == M!Upgrade0008Shipping
           rest == M!Upgrade0008Invoices \o M!Upgrade0008Payments
           s == first \o M!Upgrade0008Invoices \o M!Upgrade0008Payments
<1>1. PICK S : rest \in Seq(S) /\ \A o \in S : AnywhereOp(o)
  BY ScriptsAnywhere, ConcatAnywhere DEF Anywhere
<1>2. /\ first \in Seq({first[i] : i \in 1..4}) /\ Len(first) = 4
      /\ first[1].op = "create" /\ first[2].op = "preflight"
      /\ first[3].op = "backfill" /\ first[4].op = "create"
  BY DEF M!Upgrade0008Shipping, M!Part, M!Create, M!Do
<1>3. s = first \o rest
  <2>1. PICK P : M!Upgrade0008Invoices \in Seq(P)
    BY ScriptsAnywhere DEF Anywhere
  <2>2. PICK Q : M!Upgrade0008Payments \in Seq(Q)
    BY ScriptsAnywhere DEF Anywhere
  <2> HIDE DEF first
  <2>3. QED
    BY <1>2, <2>1, <2>2, ConcatAssociative
<1> HIDE DEF s, first, rest
<1>4. /\ s \in Seq(S \cup {first[i] : i \in 1..4}) /\ Len(s) = 4 + Len(rest)
      /\ \A i \in 1..4 : s[i] = first[i]
      /\ \A i \in 5..Len(s) : s[i] = rest[i - 4]
  <2> DEFINE U == S \cup {first[i] : i \in 1..4}
  <2>1. first \in Seq(U) /\ rest \in Seq(U)
    BY <1>1, <1>2
  <2> HIDE DEF U
  <2>2. /\ first \o rest \in Seq(U) /\ Len(first \o rest) = 4 + Len(rest)
        /\ \A i \in 1..(4 + Len(rest)) : (first \o rest)[i] =
              IF i <= 4 THEN first[i] ELSE rest[i - 4]
    <3>1. /\ first \o rest \in Seq(U) /\ Len(first \o rest) = Len(first) + Len(rest)
          /\ \A i \in 1..(Len(first) + Len(rest)) : (first \o rest)[i] =
                IF i <= Len(first) THEN first[i] ELSE rest[i - Len(first)]
      BY <2>1, ConcatProperties, Zenon
    <3> QED
      BY <1>2, <3>1, Zenon
  <2>3. Len(rest) \in Nat
    BY <2>1
  <2> QED
    BY <1>3, <2>2, <2>3 DEF U
<1>5. \A i \in 5..Len(s) : s[i] \in S
  BY <1>1, <1>4
<1>6. M!IsScript(s)
  BY <1>4 DEF M!IsScript
<1>7. DOMAIN s = 1..Len(s) /\ Len(s) \in Nat /\ Len(rest) \in Nat
  BY <1>1, <1>4
<1>8. \A i \in DOMAIN s : M!MayDo(s[i], 8)
  BY <1>1, <1>2, <1>4, <1>5, <1>7 DEF M!MayDo, AnywhereOp
<1>9. \A i \in DOMAIN s : s[i].op = "backfill" => i = 3
  BY <1>1, <1>2, <1>4, <1>5, <1>7 DEF AnywhereOp
<1>10. 3 \in DOMAIN s /\ s[3].op = "backfill" /\ s[2].op = "preflight"
  BY <1>1, <1>2, <1>4, <1>7
<1> QED
  BY <1>6, <1>8, <1>9, <1>10 DEF ScriptOf, s, first

LEMMA ManyRevisions == M!LastRevision = 12
BY DEF M!LastRevision, M!Upgrade

LEMMA UpgradeScripts ==
    ASSUME NEW r \in 1..12
    PROVE  /\ ScriptOf(M!Upgrade[r], r)
           /\ r = 5 => \E i \in DOMAIN M!Upgrade[r] : M!Upgrade[r][i].op = "retire"
           /\ r = 8 => \E i \in DOMAIN M!Upgrade[r] : M!Upgrade[r][i].op = "backfill"
<1>1. CASE r = 5
  <2>1. M!Upgrade[5] = M!Upgrade0005
    BY DEF M!Upgrade
  <2> QED
    BY <1>1, <2>1, Upgrade0005Script
<1>2. CASE r = 8
  <2>1. M!Upgrade[8] = M!Upgrade0008Shipping \o M!Upgrade0008Invoices \o M!Upgrade0008Payments
    BY DEF M!Upgrade
  <2> QED
    BY <1>2, <2>1, Upgrade0008Script
<1>3. CASE r \notin {5, 8}
  <2>1. /\ M!Upgrade[1] = M!Upgrade0001Global \o M!Upgrade0001Tenant
        /\ M!Upgrade[2] = M!Upgrade0002Tables \o M!Upgrade0002Triggers
        /\ M!Upgrade[3] = M!Upgrade0003 /\ M!Upgrade[4] = M!Upgrade0004
        /\ M!Upgrade[6] = M!Upgrade0006 /\ M!Upgrade[7] = M!Upgrade0007
        /\ M!Upgrade[9] = M!Upgrade0009 /\ M!Upgrade[10] = M!Upgrade0010
        /\ M!Upgrade[11] = M!Upgrade0011 /\ M!Upgrade[12] = M!Upgrade0012
    BY DEF M!Upgrade
  <2>2. Anywhere(M!Upgrade[1]) /\ Anywhere(M!Upgrade[2])
    BY <2>1, ScriptsAnywhere, ConcatAnywhere
  <2>3. r \in {1, 2, 3, 4, 6, 7, 9, 10, 11, 12}
    BY <1>3
  <2>4. Anywhere(M!Upgrade[r])
    BY <2>1, <2>2, <2>3, ScriptsAnywhere
  <2> QED
    BY <1>3, <2>4, AnywhereScript
<1> QED
  BY <1>1, <1>2, <1>3

\* The downgrade from revision r + 1, which leaves the database at r.
LEMMA DowngradeScripts ==
    ASSUME NEW r \in 0..11
    PROVE  /\ ScriptOf(M!Downgrade[r + 1], r)
           /\ r = 3 => \E i \in DOMAIN M!Downgrade[r + 1] :
                          M!Downgrade[r + 1][i] = M!Drop("sales_orders")
<1>1. /\ M!Downgrade[1] = M!Downgrade0001 /\ M!Downgrade[2] = M!Downgrade0002
      /\ M!Downgrade[3] = M!Downgrade0003 /\ M!Downgrade[4] = M!Downgrade0004
      /\ M!Downgrade[5] = M!Downgrade0005 /\ M!Downgrade[6] = M!Downgrade0006
      /\ M!Downgrade[7] = M!Downgrade0007 /\ M!Downgrade[8] = M!Downgrade0008
      /\ M!Downgrade[9] = M!Downgrade0009 /\ M!Downgrade[10] = M!Downgrade0010
      /\ M!Downgrade[11] = M!Downgrade0011 /\ M!Downgrade[12] = M!Downgrade0012
  BY DEF M!Downgrade
<1>2. CASE r \in {0, 3, 7}
  <2>1. r = 0 \/ r = 3 \/ r = 7
    BY <1>2
  <2> QED
    BY <1>1, <2>1, Downgrade0001Script, Downgrade0004Script, Downgrade0008Script
<1>3. CASE r \notin {0, 3, 7}
  <2>1. r + 1 \in {2, 3, 5, 6, 7, 9, 10, 11, 12}
    BY <1>3
  <2>2. Anywhere(M!Downgrade[r + 1])
    BY <1>1, <2>1, ScriptsAnywhere
  <2> QED
    BY <1>3, <2>2, AnywhereScript
<1> QED
  BY <1>2, <1>3

\* An instance has operators of its own for the sizes of sets.
LEMMA SameSizes == \A S : M!IsFiniteSet(S) = IsFiniteSet(S) /\ M!Cardinality(S) = Cardinality(S)
<1>1. \A S : M!IsFiniteSet(S) = IsFiniteSet(S)
  BY DEF M!IsFiniteSet, IsFiniteSet
<1>2. \A S : M!Cardinality(S) = Cardinality(S)
  BY DEF M!Cardinality, Cardinality
<1> QED
  BY <1>1, <1>2

\* What an operation other than the filling in may change of the rows.
RowsAfter(d, o, e) ==
    /\ e.rev = d.rev
    /\ \/ e.orders = d.orders /\ e.shipped = d.shipped
       \/ /\ o.op = "drop" /\ o.what = "shipped_at" /\ e.orders = d.orders
          /\ \A x \in Orders : e.shipped[x] = None
       \/ \A x \in Orders : e.orders[x] = IF d.orders[x] = "none" THEN "none" ELSE "gone"
    /\ e.events = d.events \/ (o.op = "drop" /\ o.what = "outbox" /\ e.events = {})
    /\ e.synthetic = d.synthetic \/ e.synthetic \in {"none", "dispatched"}

LEMMA WithoutRowsAre ==
    ASSUME NEW d, M!DatabaseType(d), NEW o, o.op = "drop"
    PROVE  LET e == M!WithoutRows(d, o.what)
           IN /\ M!DatabaseType(e) /\ RowsAfter(d, o, e)
              /\ o.what = "sales_orders" => \A x \in Orders : e.orders[x] # "shipped"
<1> DEFINE e == M!WithoutRows(d, o.what)
<1> HIDE DEF e
<1>1. CASE o.what = "sales_orders"
  <2>1. e = [d EXCEPT !.orders = [x \in Orders |-> IF d.orders[x] = "none" THEN "none" ELSE "gone"],
                      !.shipped = [x \in Orders |-> None]]
    BY <1>1 DEF e, M!WithoutRows, M!DatabaseType
  <2>2. e = [rev |-> d.rev, schema |-> d.schema, label |-> d.label, codes |-> d.codes,
             orders |-> [x \in Orders |-> IF d.orders[x] = "none" THEN "none" ELSE "gone"],
             shipped |-> [x \in Orders |-> None], events |-> d.events, synthetic |-> d.synthetic]
    BY <2>1 DEF M!DatabaseType
  <2>3. M!DatabaseType(e)
    BY <2>2 DEF M!DatabaseType
  <2> QED
    BY <2>2, <2>3 DEF RowsAfter, e
<1>2. CASE o.what = "shipped_at"
  <2>1. e = [rev |-> d.rev, schema |-> d.schema, label |-> d.label, codes |-> d.codes,
             orders |-> d.orders, shipped |-> [x \in Orders |-> None], events |-> d.events,
             synthetic |-> d.synthetic]
    BY <1>2 DEF e, M!WithoutRows, M!DatabaseType
  <2>2. M!DatabaseType(e)
    BY <2>1 DEF M!DatabaseType
  <2> QED
    BY <1>2, <2>1, <2>2 DEF RowsAfter, e
<1>3. CASE o.what = "outbox"
  <2>1. e = [rev |-> d.rev, schema |-> d.schema, label |-> d.label, codes |-> d.codes,
             orders |-> d.orders, shipped |-> d.shipped, events |-> {}, synthetic |-> "none"]
    BY <1>3 DEF e, M!WithoutRows, M!DatabaseType
  <2>2. M!DatabaseType(e)
    BY <2>1, FS_EmptySet, SameSizes DEF M!DatabaseType
  <2> QED
    BY <1>3, <2>1, <2>2 DEF RowsAfter, e
<1>4. CASE o.what \notin {"sales_orders", "shipped_at", "outbox"}
  <2>1. /\ e.rev = d.rev /\ e.orders = d.orders /\ e.shipped = d.shipped
        /\ e.events = d.events /\ e.synthetic = d.synthetic
        /\ e = [rev |-> e.rev, schema |-> e.schema, label |-> e.label, codes |-> e.codes,
                orders |-> e.orders, shipped |-> e.shipped, events |-> e.events,
                synthetic |-> e.synthetic]
    BY <1>4 DEF e, M!WithoutRows, M!DatabaseType
  <2>2. M!DatabaseType(e)
    BY <2>1 DEF M!DatabaseType
  <2> QED
    BY <1>4, <2>1, <2>2 DEF RowsAfter, e
<1> QED
  BY <1>1, <1>2, <1>3, <1>4

LEMMA OtherOperation ==
    ASSUME NEW d, M!DatabaseType(d), NEW o, o.op # "backfill", NEW e \in M!After(d, o)
    PROVE  /\ M!DatabaseType(e) /\ RowsAfter(d, o, e)
           /\ o.op = "drop" /\ o.what = "sales_orders" => \A x \in Orders : e.orders[x] # "shipped"
           /\ o.op = "retire" => e.synthetic # "pending"
<1>1. CASE o.op = "drop"
  <2> DEFINE f == M!WithoutRows(d, o.what)
  <2>1. /\ M!DatabaseType(f) /\ RowsAfter(d, o, f)
        /\ o.what = "sales_orders" => \A x \in Orders : f.orders[x] # "shipped"
    BY <1>1, WithoutRowsAre
  <2>2. PICK schema : e = [f EXCEPT !.schema = schema]
    BY <1>1 DEF M!After
  <2> HIDE DEF f
  <2>3. e = [rev |-> f.rev, schema |-> schema, label |-> f.label, codes |-> f.codes,
             orders |-> f.orders, shipped |-> f.shipped, events |-> f.events,
             synthetic |-> f.synthetic]
    BY <2>1, <2>2 DEF M!DatabaseType
  <2>4. M!DatabaseType(e)
    BY <2>1, <2>3 DEF M!DatabaseType
  <2> QED
    BY <1>1, <2>1, <2>3, <2>4 DEF RowsAfter
<1>2. CASE o.op # "drop"
  <2>1. /\ e = [rev |-> d.rev, schema |-> e.schema, label |-> e.label, codes |-> e.codes,
                orders |-> d.orders, shipped |-> d.shipped, events |-> d.events,
                synthetic |-> e.synthetic]
        /\ e.synthetic = d.synthetic \/ e.synthetic \in {"none", "dispatched"}
        /\ o.op = "retire" => e.synthetic # "pending"
    <3>1. CASE o.op = "create"
      <4>1. PICK schema : e = [d EXCEPT !.schema = schema]
        BY <3>1 DEF M!After
      <4> QED
        BY <3>1, <4>1 DEF M!DatabaseType
    <3>2. CASE o.op = "label"
      <4>1. PICK label : e = [d EXCEPT !.label = label]
        BY <3>2 DEF M!After
      <4> QED
        BY <3>2, <4>1 DEF M!DatabaseType
    <3>3. CASE o.op = "retire"
      BY <3>3 DEF M!After, M!DatabaseType
    <3>4. CASE o.op \in {"seed", "unseed"}
      <4>1. PICK codes : e = [d EXCEPT !.codes = codes]
        BY <3>4 DEF M!After
      <4> QED
        BY <3>4, <4>1 DEF M!DatabaseType
    <3>5. CASE o.op \notin {"create", "label", "retire", "seed", "unseed"}
      <4>1. e = d
        BY <1>2, <3>5 DEF M!After
      <4> QED
        BY <3>5, <4>1 DEF M!DatabaseType
    <3> QED
      BY <3>1, <3>2, <3>3, <3>4, <3>5
  <2>2. M!DatabaseType(e)
    BY <2>1 DEF M!DatabaseType
  <2> QED
    BY <1>2, <2>1, <2>2 DEF RowsAfter
<1> QED
  BY <1>1, <1>2

\* "backfill" finds the true event of every order it fills in, as "preflight" has
\* found one event, and the true one is there if any is.
LEMMA FillingIn ==
    ASSUME NEW d, M!DatabaseType(d), M!OutboxTrue(d), M!Preflighted(d), NEW o, o.op = "backfill",
           NEW e \in M!After(d, o)
    PROVE  /\ M!DatabaseType(e) /\ M!OutboxTrue(e) /\ M!Unstamped(e) = {}
           /\ e.rev = d.rev /\ e.synthetic = d.synthetic /\ M!Shipped(e) = M!Shipped(d)
<1>1. e \in M!Backfilled(d)
  BY DEF M!After
<1>2. PICK g \in [Orders -> Moments \cup {None}] :
          /\ e = [d EXCEPT !.shipped = g]
          /\ \A x \in Orders : IF x \in M!Unstamped(d) /\ M!EventsOf(d, x) # {}
                               THEN \E v \in M!EventsOf(d, x) : g[x] = v.at
                               ELSE g[x] = d.shipped[x]
  BY <1>1 DEF M!Backfilled
<1>3. e = [rev |-> d.rev, schema |-> d.schema, label |-> d.label, codes |-> d.codes,
           orders |-> d.orders, shipped |-> g, events |-> d.events, synthetic |-> d.synthetic]
  BY <1>2 DEF M!DatabaseType
<1>4. M!DatabaseType(e)
  BY <1>2, <1>3 DEF M!DatabaseType
<1>5. M!Shipped(e) = M!Shipped(d)
  BY <1>3 DEF M!Shipped
<1>6. \A x \in M!Unstamped(d) : /\ M!EventsOf(d, x) # {}
                                /\ tampered <= 1 => g[x] = when[x]
  <2> SUFFICES ASSUME NEW x \in M!Unstamped(d)
               PROVE  /\ M!EventsOf(d, x) # {}
                      /\ tampered <= 1 => g[x] = when[x]
    OBVIOUS
  <2>1. x \in Orders /\ x \in M!Shipped(d) /\ Cardinality(M!EventsOf(d, x)) = 1
    BY SameSizes DEF M!Unstamped, M!Shipped, M!Preflighted
  <2>2. IsFiniteSet(M!EventsOf(d, x))
    <3>1. IsFiniteSet(d.events) /\ M!EventsOf(d, x) \subseteq d.events
      BY SameSizes DEF M!EventsOf, M!DatabaseType
    <3> QED
      BY <3>1, FS_Subset, Zenon
  <2>3. PICK v : M!EventsOf(d, x) = {v}
    BY <2>1, <2>2, FS_Singleton
  <2>4. tampered <= 1 => M!TrueEvent(x) \in M!EventsOf(d, x)
    BY <2>1, <2>3 DEF M!OutboxTrue, M!EventsOf, M!TrueEvent
  <2>5. tampered <= 1 => v = M!TrueEvent(x)
    BY <2>3, <2>4
  <2> QED
    BY <1>2, <2>1, <2>3, <2>5 DEF M!TrueEvent
<1>7. tampered <= 1 => \A x \in M!Shipped(d) : g[x] \in {None, when[x]}
  BY <1>2, <1>6 DEF M!Shipped, M!Unstamped, M!OutboxTrue
<1>8. M!Unstamped(e) = {}
  <2> SUFFICES ASSUME NEW x \in M!Shipped(d)
               PROVE  g[x] # None
    BY <1>3, <1>5 DEF M!Unstamped
  <2>1. CASE x \in M!Unstamped(d)
    <3>1. PICK v \in M!EventsOf(d, x) : g[x] = v.at
      BY <1>2, <1>6, <2>1 DEF M!Shipped
    <3>2. v.at \in Moments
      BY <3>1 DEF M!EventsOf, M!DatabaseType
    <3> QED
      BY <3>1, <3>2, MigrationsAssumption
  <2>2. CASE x \notin M!Unstamped(d)
    BY <1>2, <2>2 DEF M!Unstamped, M!Shipped
  <2> QED
    BY <2>1, <2>2
<1>9. M!OutboxTrue(e)
  BY <1>3, <1>5, <1>7 DEF M!OutboxTrue, M!EventsOf
<1> QED
  BY <1>3, <1>4, <1>5, <1>8, <1>9

\* What a database says of its past, through an operation that fills nothing in.
LEMMA OtherKeepsPast ==
    ASSUME NEW d, M!DatabaseType(d), M!OutboxTrue(d), NEW o, NEW e, M!DatabaseType(e),
           RowsAfter(d, o, e), o.op = "drop" /\ o.what = "outbox" => M!Shipped(d) = {}
    PROVE  M!OutboxTrue(e) /\ M!Shipped(e) \subseteq M!Shipped(d)
<1>1. \A x \in M!Shipped(e) : /\ x \in M!Shipped(d)
                              /\ e.shipped[x] \in {None, d.shipped[x]}
  BY DEF RowsAfter, M!Shipped, M!DatabaseType
<1>2. M!Shipped(e) # {} => e.events = d.events
  BY <1>1 DEF RowsAfter
<1>3. tampered <= 1 => \A x \in M!Shipped(e) :
          /\ when[x] \in Moments /\ e.shipped[x] \in {None, when[x]}
          /\ M!TrueEvent(x) \in e.events \/ (tampered # 0 /\ M!EventsOf(e, x) = {})
  BY <1>1, <1>2 DEF M!OutboxTrue, M!EventsOf
<1>4. \A v \in e.events : /\ v \in d.events /\ v.order \in Orders
                          /\ d.orders[v.order] \in {"shipped", "gone"}
                                => e.orders[v.order] \in {"shipped", "gone"}
  BY DEF RowsAfter, M!DatabaseType
<1> QED
  BY <1>1, <1>3, <1>4 DEF M!OutboxTrue

\* An operation that a command may do here, and what it leaves to do.
LEMMA OperationStep ==
    ASSUME NEW d, M!DatabaseType(d), M!OutboxTrue(d),
           NEW todo, M!IsScript(todo), todo # <<>>, M!Promised(d, todo), M!LooksFirst(d, todo),
           \A i \in DOMAIN todo : M!MayDo(todo[i], d.rev),
           M!Can(d, todo[1]), NEW e \in M!After(d, todo[1])
    PROVE  /\ M!DatabaseType(e) /\ M!OutboxTrue(e) /\ e.rev = d.rev
           /\ M!IsScript(Tail(todo)) /\ M!Promised(e, Tail(todo)) /\ M!LooksFirst(e, Tail(todo))
           /\ \A i \in DOMAIN Tail(todo) : M!MayDo(Tail(todo)[i], d.rev)
<1> DEFINE o == todo[1]
           rest == Tail(todo)
<1>1. PICK S : todo \in Seq(S)
  BY DEF M!IsScript
<1>2. /\ rest \in Seq(S) /\ Len(rest) = Len(todo) - 1 /\ Len(todo) \in Nat \ {0}
      /\ \A i \in 1..Len(rest) : rest[i] = todo[i + 1]
  BY <1>1
<1>3. DOMAIN rest = 1..Len(rest) /\ DOMAIN todo = 1..Len(todo) /\ 1 \in DOMAIN todo
  <2> HIDE DEF rest
  <2>1. DOMAIN rest = 1..Len(rest)
    BY <1>2
  <2>2. DOMAIN todo = 1..Len(todo)
    BY <1>1
  <2>3. 1 \in 1..Len(todo)
    BY <1>2
  <2> QED
    BY <2>1, <2>2, <2>3
<1> HIDE DEF rest
<1>4. M!IsScript(rest)
  BY <1>2 DEF M!IsScript
<1>5. \A i \in DOMAIN rest : M!MayDo(rest[i], d.rev)
  BY <1>2, <1>3
<1>6. \A i \in DOMAIN todo : i = 1 \/ (i - 1 \in DOMAIN rest /\ rest[i - 1] = todo[i])
  BY <1>2, <1>3
<1>7. M!MayDo(o, d.rev) /\ d.rev \in Nat
  BY <1>3, ManyRevisions DEF M!DatabaseType
<1>8. CASE o.op = "backfill"
  <2>1. M!Preflighted(d)
    BY <1>3, <1>8 DEF M!LooksFirst
  <2>2. /\ M!DatabaseType(e) /\ M!OutboxTrue(e) /\ M!Unstamped(e) = {}
        /\ e.rev = d.rev /\ e.synthetic = d.synthetic /\ M!Shipped(e) = M!Shipped(d)
    BY <1>8, <2>1, FillingIn
  <2>3. d.rev = 8
    BY <1>7, <1>8 DEF M!MayDo
  <2>4. M!Promised(e, rest)
    BY <1>6, <1>8, <2>2, <2>3 DEF M!Promised
  <2>5. M!LooksFirst(e, rest)
    <3> SUFFICES ASSUME NEW i \in DOMAIN rest, rest[i].op = "backfill"
                 PROVE  IF i = 1 THEN M!Preflighted(e) ELSE rest[i - 1].op = "preflight"
      BY DEF M!LooksFirst
    <3>1. PICK k \in DOMAIN todo : todo[k].op = "backfill" /\ k # 1 /\ k - 1 = i
      <4>1. /\ i + 1 \in DOMAIN todo /\ todo[i + 1].op = "backfill"
            /\ i + 1 # 1 /\ (i + 1) - 1 = i
        BY <1>2, <1>3
      <4> QED
        BY <4>1
    <3>2. todo[i].op = "preflight"
      BY <3>1 DEF M!LooksFirst
    <3>3. i # 1
      BY <1>8, <3>2
    <3> QED
      BY <1>2, <1>3, <3>2, <3>3
  <2> QED
    BY <1>4, <1>5, <2>2, <2>4, <2>5 DEF rest
<1>9. CASE o.op # "backfill"
  <2>1. /\ M!DatabaseType(e) /\ RowsAfter(d, o, e)
        /\ o.op = "drop" /\ o.what = "sales_orders" => \A x \in Orders : e.orders[x] # "shipped"
        /\ o.op = "retire" => e.synthetic # "pending"
    BY <1>9, OtherOperation
  <2>2. ASSUME o.op = "drop", o.what = "outbox"
        PROVE  M!Shipped(d) = {}
    <3>1. d.rev = 0
      BY <1>7, <2>2 DEF M!MayDo
    <3>2. \A i \in DOMAIN todo : todo[i] # M!Drop("sales_orders")
      BY <3>1 DEF M!MayDo, M!Drop
    <3> QED
      BY <3>1, <3>2 DEF M!Promised
  <2>3. M!OutboxTrue(e) /\ M!Shipped(e) \subseteq M!Shipped(d)
    BY <2>1, <2>2, OtherKeepsPast
  <2>4. e.rev = d.rev
    BY <2>1 DEF RowsAfter
  <2>5. M!Promised(e, rest)
    <3>1. ASSUME d.rev < 4, M!Shipped(e) # {}
          PROVE  \E i \in DOMAIN rest : rest[i] = M!Drop("sales_orders")
      <4>1. PICK i \in DOMAIN todo : todo[i] = M!Drop("sales_orders")
        BY <2>3, <3>1 DEF M!Promised
      <4>2. i # 1
        BY <2>1, <3>1, <4>1 DEF M!Drop, M!Shipped
      <4> QED
        BY <1>6, <4>1, <4>2
    <3>2. ASSUME d.rev >= 5, e.synthetic = "pending"
          PROVE  \E i \in DOMAIN rest : rest[i].op = "retire"
      <4>1. d.synthetic = "pending"
        BY <2>1, <3>2 DEF RowsAfter
      <4>2. PICK i \in DOMAIN todo : todo[i].op = "retire"
        BY <3>2, <4>1 DEF M!Promised
      <4>3. i # 1
        BY <2>1, <3>2, <4>2
      <4> QED
        BY <1>6, <4>2, <4>3
    <3>3. ASSUME d.rev >= 8, M!Unstamped(e) # {}
          PROVE  \E i \in DOMAIN rest : rest[i].op = "backfill"
      <4>1. ~(o.op = "drop" /\ o.what = "shipped_at")
        BY <1>7, <3>3 DEF M!MayDo
      <4>2. M!Unstamped(d) # {}
        BY <2>1, <3>3, <4>1 DEF RowsAfter, M!Unstamped, M!Shipped
      <4>3. PICK i \in DOMAIN todo : todo[i].op = "backfill"
        BY <3>3, <4>2 DEF M!Promised
      <4>4. i # 1
        BY <1>9, <4>3
      <4> QED
        BY <1>6, <4>3, <4>4
    <3> QED
      BY <2>4, <3>1, <3>2, <3>3 DEF M!Promised
  <2>6. M!LooksFirst(e, rest)
    <3> SUFFICES ASSUME NEW i \in DOMAIN rest, rest[i].op = "backfill"
                 PROVE  IF i = 1 THEN M!Preflighted(e) ELSE rest[i - 1].op = "preflight"
      BY DEF M!LooksFirst
    <3>1. PICK k \in DOMAIN todo : todo[k].op = "backfill" /\ k # 1 /\ k - 1 = i
      <4>1. /\ i + 1 \in DOMAIN todo /\ todo[i + 1].op = "backfill"
            /\ i + 1 # 1 /\ (i + 1) - 1 = i
        BY <1>2, <1>3
      <4> QED
        BY <4>1
    <3>2. todo[i].op = "preflight"
      BY <3>1 DEF M!LooksFirst
    <3>3. CASE i = 1
      <4>1. e = d
        BY <3>2, <3>3 DEF M!After
      <4>2. M!Preflighted(d)
        BY <3>2, <3>3 DEF M!Can, M!Preflighted
      <4> QED
        BY <3>3, <4>1, <4>2
    <3> QED
      BY <1>2, <1>3, <3>2, <3>3
  <2> QED
    BY <1>4, <1>5, <2>1, <2>3, <2>4, <2>5, <2>6 DEF rest
<1> QED
  BY <1>8, <1>9

\* HistoryInv, action by action.
LEMMA HistoryInit == M!Init => M!HistoryInv
<1> SUFFICES ASSUME M!Init
             PROVE  M!HistoryInv
  OBVIOUS
<1>1. /\ tampered = 0 /\ when = [o \in Orders |-> None] /\ txn = M!NoTxn
      /\ db = [rev |-> 0, schema |-> [x \in {} |-> {}], label |-> "none", codes |-> {},
               orders |-> [o \in Orders |-> "none"], shipped |-> [o \in Orders |-> None],
               events |-> {}, synthetic |-> "none"]
  BY DEF M!Init
<1>2. M!DatabaseType(db)
  BY <1>1, ManyRevisions, FS_EmptySet, SameSizes DEF M!DatabaseType
<1>3. M!Shipped(db) = {} /\ db.events = {}
  BY <1>1 DEF M!Shipped
<1>4. M!OutboxTrue(db)
  BY <1>3 DEF M!OutboxTrue
<1>5. M!Promised(db, <<>>)
  <2>1. db.rev = 0 /\ ~(0 >= 5) /\ ~(0 >= 8)
    BY <1>1
  <2> QED
    BY <1>3, <2>1 DEF M!Promised
<1>6. tampered \in 0..MaxTampering
  BY <1>1, MigrationsAssumption
<1>7. when \in [Orders -> Moments \cup {None}]
  BY <1>1
<1> QED
  BY <1>1, <1>2, <1>4, <1>5, <1>6, <1>7 DEF M!HistoryInv, M!Idle

LEMMA HistoryKeptFrom == M!HistoryInv /\ tampered <= 1 => M!HistoryKept
<1> SUFFICES ASSUME M!HistoryInv, tampered <= 1
             PROVE  M!HistoryKept
  OBVIOUS
<1>1. db.rev \in Nat /\ DOMAIN <<>> = {}
  BY ManyRevisions DEF M!HistoryInv, M!DatabaseType
<1>2. ASSUME db.rev >= 8, NEW o \in M!Shipped(db)
      PROVE  db.shipped[o] = when[o]
  <2>1. M!Unstamped(db) = {}
    BY <1>1, <1>2 DEF M!HistoryInv, M!Promised
  <2> QED
    BY <1>2, <2>1 DEF M!HistoryInv, M!OutboxTrue, M!Unstamped
<1>3. db.rev >= 5 => db.synthetic # "pending"
  BY <1>1 DEF M!HistoryInv, M!Promised
<1> QED
  BY <1>2, <1>3 DEF M!HistoryKept

\* A command that has begun, and not ended.
CommandUnderWay(t) ==
    /\ t = [db |-> t.db, goal |-> t.goal, todo |-> t.todo]
    /\ t.goal \in 0..M!LastRevision /\ M!IsScript(t.todo)
    /\ \A i \in DOMAIN t.todo : M!MayDo(t.todo[i], t.db.rev)
    /\ M!DatabaseType(t.db) /\ M!OutboxTrue(t.db)
    /\ M!Promised(t.db, t.todo) /\ M!LooksFirst(t.db, t.todo)

\* The steps of the command that leave the database, its past and its edits alone.
LEMMA CommandStep ==
    ASSUME M!HistoryInv, db' = db, tampered' = tampered, when' = when,
           txn' = M!NoTxn \/ CommandUnderWay(txn')
    PROVE  M!HistoryInv'
<1>1. /\ tampered' \in 0..MaxTampering /\ when' \in [Orders -> Moments \cup {None}]
      /\ M!DatabaseType(db)' /\ M!Promised(db, <<>>)'
  BY DEF M!HistoryInv, M!Promised, M!DatabaseType, M!Shipped, M!Unstamped
<1>2. M!OutboxTrue(db)'
  BY DEF M!HistoryInv, M!OutboxTrue, M!TrueEvent, M!EventsOf, M!Shipped
<1>3. CASE txn' = M!NoTxn
  BY <1>1, <1>2, <1>3 DEF M!HistoryInv, M!Idle, M!NoTxn
<1>4. CASE CommandUnderWay(txn')
  <2>1. M!OutboxTrue(txn.db)'
    BY <1>4 DEF CommandUnderWay, M!OutboxTrue, M!TrueEvent, M!EventsOf, M!Shipped
  <2>2. M!Promised(txn.db, txn.todo)' /\ M!LooksFirst(txn.db, txn.todo)'
    BY <1>4 DEF CommandUnderWay, M!Promised, M!LooksFirst, M!Preflighted, M!Unstamped, M!EventsOf, M!Shipped
  <2>3. /\ M!DatabaseType(txn.db)' /\ (txn.goal \in 0..M!LastRevision)'
        /\ M!IsScript(txn.todo)' /\ (\A i \in DOMAIN txn.todo : M!MayDo(txn.todo[i], txn.db.rev))'
        /\ (txn = [db |-> txn.db, goal |-> txn.goal, todo |-> txn.todo])'
    BY <1>4 DEF CommandUnderWay, M!DatabaseType
  <2> QED
    BY <1>1, <1>2, <2>1, <2>2, <2>3 DEF M!HistoryInv
<1> QED
  BY <1>3, <1>4

LEMMA HistoryBegin ==
    ASSUME M!HistoryInv, NEW goal \in 0..M!LastRevision, M!Begin(goal)
    PROVE  M!HistoryInv'
<1>1. /\ txn' = [db |-> db, goal |-> goal, todo |-> <<>>]
      /\ db' = db /\ tampered' = tampered /\ when' = when
  BY DEF M!Begin
<1>2. M!IsScript(<<>>) /\ DOMAIN <<>> = {}
  BY DEF M!IsScript
<1>3. CommandUnderWay(txn')
  BY <1>1, <1>2 DEF CommandUnderWay, M!HistoryInv, M!LooksFirst
<1> QED
  BY <1>1, <1>3, CommandStep

LEMMA HistoryNextRevision ==
    ASSUME M!HistoryInv, M!NextRevision
    PROVE  M!HistoryInv'
<1>1. /\ ~M!Idle /\ txn.todo = <<>> /\ txn.db.rev # txn.goal
      /\ db' = db /\ tampered' = tampered /\ when' = when
  BY DEF M!NextRevision
<1>2. CommandUnderWay(txn)
  BY <1>1 DEF M!HistoryInv, CommandUnderWay
<1> DEFINE d == txn.db
<1>3. /\ d.rev \in 0..12 /\ txn.goal \in 0..12 /\ DOMAIN txn.todo = {}
      /\ M!DatabaseType(d) /\ M!OutboxTrue(d) /\ M!Promised(d, <<>>)
  BY <1>1, <1>2, ManyRevisions DEF CommandUnderWay, M!DatabaseType
<1>4. CASE d.rev < txn.goal
  <2> DEFINE e == [d EXCEPT !.rev = d.rev + 1]
             todo == M!Upgrade[d.rev + 1]
  <2>1. txn' = [db |-> e, goal |-> txn.goal, todo |-> todo]
    BY <1>1, <1>2, <1>3, <1>4 DEF M!NextRevision, CommandUnderWay
  <2>2. e = [rev |-> d.rev + 1, schema |-> d.schema, label |-> d.label, codes |-> d.codes,
             orders |-> d.orders, shipped |-> d.shipped, events |-> d.events,
             synthetic |-> d.synthetic]
    BY <1>3 DEF M!DatabaseType
  <2>3. d.rev + 1 \in 1..12
    BY <1>3, <1>4
  <2>4. /\ ScriptOf(todo, d.rev + 1)
        /\ d.rev + 1 = 5 => \E i \in DOMAIN todo : todo[i].op = "retire"
        /\ d.rev + 1 = 8 => \E i \in DOMAIN todo : todo[i].op = "backfill"
    BY <2>3, UpgradeScripts
  <2> HIDE DEF e, todo
  <2>5. M!DatabaseType(e)
    BY <1>3, <2>2, <2>3, ManyRevisions DEF M!DatabaseType
  <2>6. M!OutboxTrue(e)
    BY <1>3, <2>2 DEF M!OutboxTrue, M!Shipped, M!EventsOf
  <2>7. M!Promised(e, todo)
    BY <1>3, <2>2, <2>4 DEF M!Promised, M!Shipped, M!Unstamped
  <2>8. M!LooksFirst(e, todo)
    BY <2>4 DEF ScriptOf, M!LooksFirst
  <2>9. CommandUnderWay(txn')
    BY <1>3, <2>1, <2>2, <2>4, <2>5, <2>6, <2>7, <2>8, ManyRevisions DEF CommandUnderWay, ScriptOf
  <2> QED
    BY <1>1, <2>9, CommandStep
<1>5. CASE d.rev > txn.goal
  <2> DEFINE e == [d EXCEPT !.rev = d.rev - 1]
             todo == M!Downgrade[d.rev]
  <2>1. txn' = [db |-> e, goal |-> txn.goal, todo |-> todo]
    <3>1. ~(d.rev < txn.goal)
      BY <1>3, <1>5
    <3>2. txn' = [txn EXCEPT !.db.rev = txn.db.rev - 1, !.todo = todo]
      BY <3>1 DEF M!NextRevision
    <3> QED
      BY <1>2, <3>2 DEF CommandUnderWay
  <2>2. e = [rev |-> d.rev - 1, schema |-> d.schema, label |-> d.label, codes |-> d.codes,
             orders |-> d.orders, shipped |-> d.shipped, events |-> d.events,
             synthetic |-> d.synthetic]
    BY <1>3 DEF M!DatabaseType
  <2>3. d.rev - 1 \in 0..11 /\ (d.rev - 1) + 1 = d.rev
    BY <1>3, <1>5
  <2>4. /\ ScriptOf(todo, d.rev - 1)
        /\ d.rev - 1 = 3 => \E i \in DOMAIN todo : todo[i] = M!Drop("sales_orders")
    BY <2>3, DowngradeScripts
  <2> HIDE DEF e, todo
  <2>5. M!DatabaseType(e)
    BY <1>3, <2>2, <2>3, ManyRevisions DEF M!DatabaseType
  <2>6. M!OutboxTrue(e)
    BY <1>3, <2>2 DEF M!OutboxTrue, M!Shipped, M!EventsOf
  <2>7. M!Promised(e, todo)
    BY <1>3, <2>2, <2>3, <2>4 DEF M!Promised, M!Shipped, M!Unstamped
  <2>8. M!LooksFirst(e, todo)
    BY <2>4 DEF ScriptOf, M!LooksFirst
  <2>9. CommandUnderWay(txn')
    BY <1>3, <2>1, <2>2, <2>4, <2>5, <2>6, <2>7, <2>8, ManyRevisions DEF CommandUnderWay, ScriptOf
  <2> QED
    BY <1>1, <2>9, CommandStep
<1> QED
  BY <1>1, <1>3, <1>4, <1>5

LEMMA HistoryOperation ==
    ASSUME M!HistoryInv, M!Operation
    PROVE  M!HistoryInv'
<1>1. /\ ~M!Idle /\ txn.todo # <<>> /\ M!Can(txn.db, txn.todo[1])
      /\ db' = db /\ tampered' = tampered /\ when' = when
  BY DEF M!Operation
<1>2. PICK e \in M!After(txn.db, txn.todo[1]) :
          txn' = [txn EXCEPT !.db = e, !.todo = Tail(txn.todo)]
  BY DEF M!Operation
<1>3. CommandUnderWay(txn)
  BY <1>1 DEF M!HistoryInv, CommandUnderWay
<1>4. txn' = [db |-> e, goal |-> txn.goal, todo |-> Tail(txn.todo)]
  BY <1>2, <1>3 DEF CommandUnderWay
<1>5. /\ M!DatabaseType(e) /\ M!OutboxTrue(e) /\ e.rev = txn.db.rev
      /\ M!IsScript(Tail(txn.todo)) /\ M!Promised(e, Tail(txn.todo))
      /\ M!LooksFirst(e, Tail(txn.todo))
      /\ \A i \in DOMAIN Tail(txn.todo) : M!MayDo(Tail(txn.todo)[i], txn.db.rev)
  BY <1>1, <1>3, OperationStep DEF CommandUnderWay
<1>6. CommandUnderWay(txn')
  BY <1>3, <1>4, <1>5 DEF CommandUnderWay
<1> QED
  BY <1>1, <1>6, CommandStep

LEMMA HistoryCommit ==
    ASSUME M!HistoryInv, M!Commit
    PROVE  M!HistoryInv'
<1>1. /\ ~M!Idle /\ txn.todo = <<>> /\ txn' = M!NoTxn /\ tampered' = tampered /\ when' = when
  BY DEF M!Commit
<1>2. PICK label : db' = [txn.db EXCEPT !.label = label]
  BY DEF M!Commit
<1>3. /\ M!DatabaseType(txn.db) /\ M!OutboxTrue(txn.db) /\ M!Promised(txn.db, <<>>)
      /\ tampered \in 0..MaxTampering /\ when \in [Orders -> Moments \cup {None}]
  BY <1>1 DEF M!HistoryInv
<1>4. db' = [rev |-> txn.db.rev, schema |-> txn.db.schema, label |-> label,
             codes |-> txn.db.codes, orders |-> txn.db.orders, shipped |-> txn.db.shipped,
             events |-> txn.db.events, synthetic |-> txn.db.synthetic]
  BY <1>2, <1>3 DEF M!DatabaseType
<1>5. M!DatabaseType(db)'
  BY <1>3, <1>4 DEF M!DatabaseType
<1>6. M!OutboxTrue(db)'
  BY <1>1, <1>3, <1>4 DEF M!OutboxTrue, M!TrueEvent, M!EventsOf, M!Shipped
<1>7. M!Promised(db, <<>>)'
  BY <1>3, <1>4 DEF M!Promised, M!Shipped, M!Unstamped
<1> QED
  BY <1>1, <1>3, <1>5, <1>6, <1>7 DEF M!HistoryInv, M!Idle, M!NoTxn

\* The steps of the program and of the operator, between commands.
LEMMA BetweenCommands ==
    ASSUME M!Idle, txn' = txn, tampered' \in 0..MaxTampering, when' \in [Orders -> Moments \cup {None}],
           M!DatabaseType(db)', M!OutboxTrue(db)', M!Promised(db, <<>>)'
    PROVE  M!HistoryInv'
BY DEF M!HistoryInv, M!Idle, M!NoTxn

LEMMA HistoryTakeOrder ==
    ASSUME M!HistoryInv, NEW o \in Orders, M!TakeOrder(o)
    PROVE  M!HistoryInv'
<1>1. /\ M!Idle /\ txn' = txn /\ tampered' = tampered /\ when' = when
      /\ db.orders[o] = "none" /\ db' = [db EXCEPT !.orders[o] = "confirmed"]
  BY DEF M!TakeOrder
<1>2. /\ M!DatabaseType(db) /\ M!OutboxTrue(db) /\ M!Promised(db, <<>>)
      /\ tampered \in 0..MaxTampering /\ when \in [Orders -> Moments \cup {None}]
  BY DEF M!HistoryInv
<1>3. db' = [rev |-> db.rev, schema |-> db.schema, label |-> db.label, codes |-> db.codes,
             orders |-> [db.orders EXCEPT ![o] = "confirmed"], shipped |-> db.shipped,
             events |-> db.events, synthetic |-> db.synthetic]
  BY <1>1, <1>2 DEF M!DatabaseType
<1>4. M!DatabaseType(db)'
  BY <1>2, <1>3 DEF M!DatabaseType
<1>5. M!Shipped(db)' = M!Shipped(db)
  BY <1>1, <1>2, <1>3 DEF M!Shipped, M!DatabaseType
<1>6. \A x \in Orders : db.orders[x] \in {"shipped", "gone"} => db'.orders[x] = db.orders[x]
  BY <1>1, <1>2, <1>3 DEF M!DatabaseType
<1>7. \A e \in db.events : e.order \in Orders
  BY <1>2 DEF M!DatabaseType
<1>8. M!OutboxTrue(db)'
  BY <1>1, <1>2, <1>3, <1>5, <1>6, <1>7 DEF M!OutboxTrue, M!TrueEvent, M!EventsOf
<1>9. M!Promised(db, <<>>)'
  BY <1>2, <1>3, <1>5 DEF M!Promised, M!Unstamped
<1> QED
  BY <1>1, <1>2, <1>4, <1>8, <1>9, BetweenCommands

LEMMA HistoryShipOrder ==
    ASSUME M!HistoryInv, NEW o \in Orders, NEW m \in Moments, M!ShipOrder(o, m)
    PROVE  M!HistoryInv'
<1> DEFINE v == [order |-> o, at |-> m]
           stamp == IF db.rev >= 8 THEN m ELSE None
<1>1. /\ M!Idle /\ txn' = txn /\ tampered' = tampered /\ when' = [when EXCEPT ![o] = m]
      /\ db.rev >= 5 /\ db.orders[o] = "confirmed"
      /\ db' = [db EXCEPT !.orders[o] = "shipped", !.events = db.events \cup {v},
                          !.shipped[o] = stamp]
  BY DEF M!ShipOrder
<1>2. /\ M!DatabaseType(db) /\ M!OutboxTrue(db) /\ M!Promised(db, <<>>)
      /\ tampered \in 0..MaxTampering /\ when \in [Orders -> Moments \cup {None}]
  BY DEF M!HistoryInv
<1>3. db' = [rev |-> db.rev, schema |-> db.schema, label |-> db.label, codes |-> db.codes,
             orders |-> [db.orders EXCEPT ![o] = "shipped"],
             shipped |-> [db.shipped EXCEPT ![o] = stamp],
             events |-> db.events \cup {v}, synthetic |-> db.synthetic]
  BY <1>1, <1>2 DEF M!DatabaseType
<1>4. v \in [order : Orders, at : Moments] /\ v.order = o /\ v.at = m
      /\ stamp \in Moments \cup {None}
  OBVIOUS
<1> HIDE DEF v, stamp
<1>5. M!DatabaseType(db)'
  <2>1. IsFiniteSet(db.events \cup {v})
    BY <1>2, FS_AddElement, SameSizes DEF M!DatabaseType
  <2>2. M!IsFiniteSet(db.events \cup {v})
    BY <2>1, SameSizes
  <2> QED
    BY <1>2, <1>3, <1>4, <2>2 DEF M!DatabaseType
<1>6. M!Shipped(db)' = M!Shipped(db) \cup {o} /\ o \notin M!Shipped(db)
  BY <1>1, <1>2, <1>3 DEF M!Shipped, M!DatabaseType
<1>7. v = M!TrueEvent(o)' /\ when'[o] = m
  BY <1>1, <1>2 DEF v, M!TrueEvent
<1>8. \A x \in Orders \ {o} : /\ when'[x] = when[x] /\ M!TrueEvent(x)' = M!TrueEvent(x)
                              /\ db'.shipped[x] = db.shipped[x] /\ db'.orders[x] = db.orders[x]
                              /\ M!EventsOf(db, x)' = M!EventsOf(db, x)
  BY <1>1, <1>2, <1>3, <1>4 DEF M!TrueEvent, M!EventsOf, M!DatabaseType
<1>9. db'.shipped[o] = stamp /\ stamp \in {None, when'[o]}
  BY <1>2, <1>3, <1>7 DEF M!DatabaseType, stamp
<1>10. M!OutboxTrue(db)'
  <2>1. ASSUME tampered' <= 1, NEW x \in M!Shipped(db)'
        PROVE  /\ when'[x] \in Moments /\ db'.shipped[x] \in {None, when'[x]}
               /\ \/ M!TrueEvent(x)' \in db'.events
                  \/ tampered' # 0 /\ M!EventsOf(db, x)' = {}
    <3>1. CASE x = o
      BY <1>3, <1>7, <1>9, <3>1
    <3>2. CASE x # o
      <4>1. x \in M!Shipped(db) /\ x \in Orders \ {o}
        BY <1>6, <3>2 DEF M!Shipped
      <4> QED
        BY <1>1, <1>2, <1>3, <1>8, <2>1, <4>1 DEF M!OutboxTrue
    <3> QED
      BY <3>1, <3>2
  <2>2. ASSUME tampered' = 0, NEW e \in db'.events
        PROVE  db'.orders[e.order] \in {"shipped", "gone"} /\ e = M!TrueEvent(e.order)'
    <3>1. CASE e = v
      BY <1>2, <1>3, <1>4, <1>7, <3>1 DEF M!DatabaseType
    <3>2. CASE e \in db.events
      <4>1. /\ e.order \in Orders /\ db.orders[e.order] \in {"shipped", "gone"}
            /\ e = M!TrueEvent(e.order)
        BY <1>1, <1>2, <2>2, <3>2 DEF M!OutboxTrue, M!DatabaseType
      <4>2. e.order # o
        BY <1>1, <4>1
      <4> QED
        BY <1>8, <4>1, <4>2
    <3> QED
      BY <1>3, <3>1, <3>2
  <2> QED
    BY <2>1, <2>2 DEF M!OutboxTrue
<1>11. M!Promised(db, <<>>)'
  <2>1. db'.rev = db.rev /\ db.rev \in Nat /\ ~(db.rev < 4) /\ db'.synthetic = db.synthetic
    BY <1>1, <1>2, <1>3, ManyRevisions DEF M!DatabaseType
  <2>2. ASSUME db.rev >= 8
        PROVE  M!Unstamped(db)' = {}
    <3>1. stamp # None
      BY <2>2, MigrationsAssumption DEF stamp
    <3>2. M!Unstamped(db) = {}
      BY <1>2, <2>2 DEF M!Promised
    <3> QED
      BY <1>6, <1>8, <1>9, <3>1, <3>2 DEF M!Unstamped, M!Shipped
  <2> QED
    BY <1>2, <2>1, <2>2 DEF M!Promised
<1> QED
  <2>1. when' \in [Orders -> Moments \cup {None}]
    BY <1>1, <1>2
  <2> QED
    BY <1>1, <1>2, <1>5, <1>10, <1>11, <2>1, BetweenCommands

LEMMA HistoryPublish ==
    ASSUME M!HistoryInv, NEW state, M!PublishSynthetic(state)
    PROVE  M!HistoryInv'
<1>1. /\ M!Idle /\ txn' = txn /\ tampered' = tampered /\ when' = when
      /\ db.rev \in 2..4 /\ db' = [db EXCEPT !.synthetic = state]
  BY DEF M!PublishSynthetic
<1>2. /\ M!DatabaseType(db) /\ M!OutboxTrue(db) /\ M!Promised(db, <<>>)
      /\ tampered \in 0..MaxTampering /\ when \in [Orders -> Moments \cup {None}]
  BY DEF M!HistoryInv
<1>3. db' = [rev |-> db.rev, schema |-> db.schema, label |-> db.label, codes |-> db.codes,
             orders |-> db.orders, shipped |-> db.shipped, events |-> db.events,
             synthetic |-> state]
  BY <1>1, <1>2 DEF M!DatabaseType
<1>4. M!DatabaseType(db)'
  BY <1>2, <1>3 DEF M!DatabaseType
<1>5. M!OutboxTrue(db)'
  BY <1>1, <1>2, <1>3 DEF M!OutboxTrue, M!TrueEvent, M!EventsOf, M!Shipped
<1>6. M!Promised(db, <<>>)'
  <2>1. ~(db.rev >= 5) /\ ~(db.rev >= 8)
    BY <1>1
  <2> QED
    BY <1>2, <1>3, <2>1 DEF M!Promised, M!Shipped
<1> QED
  BY <1>1, <1>2, <1>4, <1>5, <1>6, BetweenCommands

\* One edit: a false event may stand beside the true one, or the true one is gone.
LEMMA HistoryTamper ==
    ASSUME M!HistoryInv, NEW events, M!Tamper(events),
           \/ \E o \in Orders, m \in Moments : events = db.events \cup {[order |-> o, at |-> m]}
           \/ \E e \in db.events : events = db.events \ {e}
    PROVE  M!HistoryInv'
<1>1. /\ M!Idle /\ txn' = txn /\ tampered < MaxTampering /\ tampered' = tampered + 1
      /\ when' = when /\ db' = [db EXCEPT !.events = events]
  BY DEF M!Tamper
<1>2. /\ M!DatabaseType(db) /\ M!OutboxTrue(db) /\ M!Promised(db, <<>>)
      /\ tampered \in 0..MaxTampering /\ when \in [Orders -> Moments \cup {None}]
  BY DEF M!HistoryInv
<1>3. tampered' \in 0..MaxTampering /\ tampered' # 0 /\ (tampered' <= 1 => tampered = 0 /\ tampered' = 1)
  BY <1>1, <1>2, MigrationsAssumption
<1>4. db' = [rev |-> db.rev, schema |-> db.schema, label |-> db.label, codes |-> db.codes,
             orders |-> db.orders, shipped |-> db.shipped, events |-> events,
             synthetic |-> db.synthetic]
  BY <1>1, <1>2 DEF M!DatabaseType
<1>5. events \subseteq [order : Orders, at : Moments] /\ M!IsFiniteSet(events)
  <2>1. db.events \subseteq [order : Orders, at : Moments] /\ IsFiniteSet(db.events)
    BY <1>2, SameSizes DEF M!DatabaseType
  <2>2. CASE \E o \in Orders, m \in Moments : events = db.events \cup {[order |-> o, at |-> m]}
    <3>1. PICK o \in Orders, m \in Moments :
              events = db.events \cup {[order |-> o, at |-> m]}
      BY <2>2
    <3>2. IsFiniteSet(events)
      BY <2>1, <3>1, FS_AddElement, Zenon
    <3> QED
      BY <2>1, <3>1, <3>2, SameSizes
  <2>3. CASE \E e \in db.events : events = db.events \ {e}
    BY <2>1, <2>3, FS_RemoveElement, SameSizes
  <2> QED
    BY <2>2, <2>3
<1>6. M!DatabaseType(db)'
  BY <1>2, <1>4, <1>5 DEF M!DatabaseType
<1>7. M!Shipped(db)' = M!Shipped(db)
  BY <1>4 DEF M!Shipped
<1>8. ASSUME tampered' <= 1, NEW x \in M!Shipped(db)
      PROVE  M!TrueEvent(x) \in events \/ {e \in events : e.order = x} = {}
  <2>1. M!TrueEvent(x) \in db.events /\ tampered = 0
    BY <1>2, <1>3, <1>8 DEF M!OutboxTrue
  <2>2. CASE db.events \subseteq events
    BY <2>1, <2>2
  <2>3. CASE \E e \in db.events : events = db.events \ {e}
    <3>1. \A e \in db.events : e = M!TrueEvent(e.order)
      BY <1>2, <2>1 DEF M!OutboxTrue
    <3> QED
      BY <2>1, <2>3, <3>1
  <2> QED
    BY <2>2, <2>3
<1>9. M!OutboxTrue(db)'
  <2>1. ASSUME tampered' <= 1, NEW x \in M!Shipped(db)'
        PROVE  /\ when'[x] \in Moments /\ db'.shipped[x] \in {None, when'[x]}
               /\ \/ M!TrueEvent(x)' \in db'.events
                  \/ tampered' # 0 /\ M!EventsOf(db, x)' = {}
    <3>1. x \in M!Shipped(db) /\ M!EventsOf(db, x)' = {e \in events : e.order = x}
      BY <1>4, <1>7 DEF M!EventsOf
    <3>2. M!TrueEvent(x)' = M!TrueEvent(x) /\ when' = when /\ db'.shipped = db.shipped
      BY <1>1, <1>4 DEF M!TrueEvent
    <3>3. when[x] \in Moments /\ db.shipped[x] \in {None, when[x]}
      BY <1>2, <1>3, <2>1, <3>1 DEF M!OutboxTrue
    <3> QED
      BY <1>3, <1>4, <1>8, <2>1, <3>1, <3>2, <3>3
  <2> QED
    BY <1>3, <2>1 DEF M!OutboxTrue
<1>10. M!Promised(db, <<>>)'
  BY <1>2, <1>4, <1>7 DEF M!Promised, M!Unstamped
<1> QED
  BY <1>1, <1>2, <1>3, <1>6, <1>9, <1>10, BetweenCommands

LEMMA HistoryStep ==
    ASSUME M!HistoryInv, [M!Next]_migration
    PROVE  M!HistoryInv'
<1>1. ASSUME NEW goal \in 0..M!LastRevision, M!Begin(goal)
      PROVE  M!HistoryInv'
  BY <1>1, HistoryBegin
<1>2. CASE M!NextRevision
  BY <1>2, HistoryNextRevision
<1>3. CASE M!Operation
  BY <1>3, HistoryOperation
<1>4. CASE M!Fail
  BY <1>4, CommandStep DEF M!Fail
<1>5. CASE M!Crash
  BY <1>5, CommandStep DEF M!Crash
<1>6. CASE M!Commit
  BY <1>6, HistoryCommit
<1>7. ASSUME NEW o \in Orders, M!TakeOrder(o)
      PROVE  M!HistoryInv'
  BY <1>7, HistoryTakeOrder
<1>8. ASSUME NEW o \in Orders, NEW m \in Moments, M!ShipOrder(o, m)
      PROVE  M!HistoryInv'
  BY <1>8, HistoryShipOrder
<1>9. ASSUME NEW state \in {"pending", "dispatched"}, M!PublishSynthetic(state)
      PROVE  M!HistoryInv'
  BY <1>9, HistoryPublish
<1>10. ASSUME NEW o \in Orders, NEW m \in Moments,
              M!Tamper(db.events \cup {[order |-> o, at |-> m]})
       PROVE  M!HistoryInv'
  BY <1>10, HistoryTamper
<1>11. ASSUME NEW e \in db.events, M!Tamper(db.events \ {e})
       PROVE  M!HistoryInv'
  BY <1>11, HistoryTamper
<1>12. CASE UNCHANGED migration
  <2>1. db' = db /\ txn' = txn /\ tampered' = tampered /\ when' = when
    BY <1>12 DEF migration
  <2>2. CASE txn = M!NoTxn
    BY <2>1, <2>2, CommandStep
  <2>3. CASE CommandUnderWay(txn)
    BY <2>1, <2>3, CommandStep DEF CommandUnderWay, M!OutboxTrue, M!TrueEvent, M!EventsOf, M!Shipped,
       M!Promised, M!LooksFirst, M!Preflighted, M!Unstamped, M!DatabaseType
  <2> QED
    BY <2>2, <2>3 DEF M!HistoryInv, M!Idle, CommandUnderWay
<1> QED
  BY <1>1, <1>2, <1>3, <1>4, <1>5, <1>6, <1>7, <1>8, <1>9, <1>10, <1>11, <1>12 DEF M!Next

\* 0008 fills in the time of each shipment from the outbox, and refuses unless it
\* finds one event for each order: through any migrations, failures and crashes a
\* shipped order has its own time, and from 0005 on no synthetic event is left to a
\* replay. Two edits can put a false event in the place of the true one, which
\* 0008 cannot tell: the theorem is about the time before the second.
THEOREM HistoryOutlivesMigrations == InstallSpec => [](tampered <= 1 => HistoryKept)
<1>1. InstallInit => M!HistoryInv
  BY HistoryInit DEF InstallInit
<1>2. M!HistoryInv /\ [InstallNext]_everything => M!HistoryInv'
  <2>1. [InstallNext]_everything => [M!Next]_migration
    BY DEF InstallNext, Migrate, Deploy, Provision, everything
  <2> QED
    BY <2>1, HistoryStep
<1>3. M!HistoryInv => (tampered <= 1 => HistoryKept)
  BY HistoryKeptFrom DEF HistoryKept
<1> QED
  BY <1>1, <1>2, <1>3, PTL DEF InstallSpec

--------------------------------------------------------------------------------
(* The migrations: what the scripts do to the schema. *)

\* The objects that each script makes.
Objects0001Global ==
    {"currencies", "outbox", "uom", "companies", "exchange_rates", "uom_conversions"}
Objects0001Tenant == {"account_type", "accounts", "customers", "products"}
Objects0002Tables ==
    {"period_status", "accounting_periods", "ledger_sequences", "journal_entries",
     "journal_lines"}
Objects0002Triggers ==
    {"ledger_check_entry_balance", "trg_journal_lines_balance", "ledger_block_mutation",
     "trg_journal_entries_immutable", "trg_journal_lines_immutable"}
Objects0003 == {"uq_journal_entries_source"}
Objects0004 ==
    {"sales_sequences", "sales_order_status", "sales_orders", "sales_order_lines"}
Objects0005 ==
    {"standard_cost", "ck_products_standard_cost_nonneg", "stock_move_type", "stock_moves",
     "uq_stock_moves_source", "stock_summary"}
Objects0006 == {"ck_sales_orders_confirmed_has_snapshot"}
Objects0007 == {"unit_price_is_override"}
Objects0008Shipping == {"shipped_at", "ck_sales_orders_shipped_has_shipped_at"}
Objects0008Invoices ==
    {"is_control", "payment_terms_days", "ck_customers_payment_terms_days_range",
     "invoice_status", "invoices", "uq_invoices_order_live"}
Objects0008Payments ==
    {"payment_status", "payments", "payment_allocation_commands", "payment_allocations",
     "receivables_sequences"}
Objects0009 ==
    {"users", "uq_users_email_lower", "roles", "permissions", "role_permissions",
     "user_company_roles", "sessions"}
Objects0010 == {}
Objects0011 == {"company_plugins"}
Objects0012 == {"custom_field_definitions"}
Objects0001 == Objects0001Global \cup Objects0001Tenant
Objects0002 == Objects0002Tables \cup Objects0002Triggers
Objects0008 == Objects0008Shipping \cup Objects0008Invoices \cup Objects0008Payments

Objects ==
    << Objects0001, Objects0002, Objects0003, Objects0004, Objects0005, Objects0006,
       Objects0007, Objects0008, Objects0009, Objects0010, Objects0011, Objects0012 >>

\* The objects of the revisions up to one.
MadeUpTo(r) == UNION {Objects[q] : q \in 1..r}

\* Each object once, after what it needs, the check of 0008 after the filling in,
\* and the codes at once.
Tidy(s) ==
    \A i, j \in DOMAIN s : i <= j =>
        /\ s[i].op = "create" /\ s[j].op = "create" =>
              s[j].what \notin s[i].needs /\ (i # j => s[j].what # s[i].what)
        /\ s[i].op = "create" /\ s[i].what = "ck_sales_orders_shipped_has_shipped_at" =>
              s[j].op # "backfill"
        /\ s[i].op = "seed" /\ s[j].op = "seed" => i = j

\* A script that makes the objects N over the objects B, and nothing twice.
Makes(s, B, N) ==
    /\ M!What("create", s) = N /\ N \cap B = {}
    /\ \A i \in DOMAIN s :
          /\ s[i].op \notin {"drop", "unseed"}
          /\ s[i].op = "create" => /\ s[i].needs \subseteq B \cup N
                                   /\ s[i].of \in s[i].needs \cup {None}
    /\ Tidy(s)

\* The objects, revision by revision.
LEMMA MadeUpToAre ==
    /\ MadeUpTo(0) = {}
    /\ MadeUpTo(1) = Objects0001
    /\ MadeUpTo(2) = MadeUpTo(1) \cup Objects0002
    /\ MadeUpTo(3) = MadeUpTo(2) \cup Objects0003
    /\ MadeUpTo(4) = MadeUpTo(3) \cup Objects0004
    /\ MadeUpTo(5) = MadeUpTo(4) \cup Objects0005
    /\ MadeUpTo(6) = MadeUpTo(5) \cup Objects0006
    /\ MadeUpTo(7) = MadeUpTo(6) \cup Objects0007
    /\ MadeUpTo(8) = MadeUpTo(7) \cup Objects0008
    /\ MadeUpTo(9) = MadeUpTo(8) \cup Objects0009
    /\ MadeUpTo(10) = MadeUpTo(9) \cup Objects0010
    /\ MadeUpTo(11) = MadeUpTo(10) \cup Objects0011
    /\ MadeUpTo(12) = MadeUpTo(11) \cup Objects0012
BY DEF MadeUpTo, Objects

\* No object is made twice.
LEMMA ObjectsApart ==
    /\ Objects0001Global \cap Objects0001Tenant = {}
    /\ MadeUpTo(1) \cap Objects0002Tables = {}
    /\ (MadeUpTo(1) \cup Objects0002Tables) \cap Objects0002Triggers = {}
    /\ MadeUpTo(2) \cap Objects0003 = {}
    /\ MadeUpTo(3) \cap Objects0004 = {}
    /\ MadeUpTo(4) \cap Objects0005 = {}
    /\ MadeUpTo(5) \cap Objects0006 = {}
    /\ MadeUpTo(6) \cap Objects0007 = {}
    /\ MadeUpTo(7) \cap Objects0008Shipping = {}
    /\ (MadeUpTo(7) \cup Objects0008Shipping) \cap Objects0008Invoices = {}
    /\ (MadeUpTo(7) \cup Objects0008Shipping \cup Objects0008Invoices) \cap Objects0008Payments = {}
    /\ MadeUpTo(8) \cap Objects0009 = {}
    /\ MadeUpTo(9) \cap Objects0010 = {}
    /\ MadeUpTo(10) \cap Objects0011 = {}
    /\ MadeUpTo(11) \cap Objects0012 = {}
BY MadeUpToAre DEF Objects0001, Objects0001Global, Objects0001Tenant, Objects0002,
   Objects0002Tables, Objects0002Triggers, Objects0003, Objects0004,
   Objects0005, Objects0006, Objects0007, Objects0008, Objects0008Invoices,
   Objects0008Payments, Objects0008Shipping, Objects0009, Objects0010,
   Objects0011, Objects0012

\* What each script needs is made before it.
LEMMA ObjectsInPlace ==
    /\ {"companies", "currencies", "uom"} \subseteq Objects0001Global
    /\ {"accounts", "companies", "currencies"} \subseteq MadeUpTo(1)
    /\ {"journal_entries", "journal_lines"} \subseteq MadeUpTo(1) \cup Objects0002Tables
    /\ {"journal_entries"} \subseteq MadeUpTo(2)
    /\ {"companies", "currencies", "customers", "products", "uom"} \subseteq MadeUpTo(3)
    /\ {"companies", "products"} \subseteq MadeUpTo(4)
    /\ {"sales_orders"} \subseteq MadeUpTo(5)
    /\ {"sales_order_lines"} \subseteq MadeUpTo(6)
    /\ {"sales_orders"} \subseteq MadeUpTo(7)
    /\ {"accounts", "companies", "currencies", "customers", "sales_orders"}
          \subseteq MadeUpTo(7) \cup Objects0008Shipping
    /\ {"companies", "currencies", "customers", "invoices"}
          \subseteq MadeUpTo(7) \cup Objects0008Shipping \cup Objects0008Invoices
    /\ {"companies"} \subseteq MadeUpTo(8)
    /\ {"companies"} \subseteq MadeUpTo(10)
    /\ {"companies"} \subseteq MadeUpTo(11)
BY MadeUpToAre DEF Objects0001, Objects0001Global, Objects0001Tenant, Objects0002,
   Objects0002Tables, Objects0002Triggers, Objects0003, Objects0004,
   Objects0005, Objects0006, Objects0007, Objects0008, Objects0008Invoices,
   Objects0008Payments, Objects0008Shipping, Objects0009, Objects0010,
   Objects0011, Objects0012

LEMMA Upgrade0001GlobalMakes ==
    ASSUME NEW B, B \cap Objects0001Global = {}
    PROVE  Makes(M!Upgrade0001Global, B, Objects0001Global)
<1> DEFINE s == M!Upgrade0001Global
<1> USE DEF M!Upgrade0001Global, M!Table, M!Free, M!Part, M!Trigger, M!Create, M!Do, M!Seed
<1>1. M!What("create", s) = Objects0001Global
  BY DEF M!What, Objects0001Global
<1>2. \A i \in DOMAIN s :
          /\ s[i].op \notin {"drop", "unseed"}
          /\ s[i].op = "create" => /\ s[i].needs \subseteq B \cup Objects0001Global
                                   /\ s[i].of \in s[i].needs \cup {None}
  BY DEF Objects0001Global
<1>3. Tidy(s)
  <2>1. \A i, j \in DOMAIN s : i <= j =>
            (s[i].op = "create" /\ s[j].op = "create" => s[j].what \notin s[i].needs)
    OBVIOUS
  <2>2. \A i, j \in DOMAIN s : i <= j =>
            (s[i].op = "create" /\ s[j].op = "create" /\ i # j => s[j].what # s[i].what)
    OBVIOUS
  <2>3. \A i, j \in DOMAIN s : i <= j =>
            /\ s[i].op = "create" /\ s[i].what = "ck_sales_orders_shipped_has_shipped_at" =>
                  s[j].op # "backfill"
            /\ s[i].op = "seed" /\ s[j].op = "seed" => i = j
    OBVIOUS
  <2> QED
    BY <2>1, <2>2, <2>3 DEF Tidy
<1> QED
  BY <1>1, <1>2, <1>3 DEF Makes

LEMMA Upgrade0001TenantMakes ==
    ASSUME NEW B, B \cap Objects0001Tenant = {},
           {"companies", "currencies", "uom"} \subseteq B
    PROVE  Makes(M!Upgrade0001Tenant, B, Objects0001Tenant)
BY DEF Makes, Tidy, M!What, M!Upgrade0001Tenant, Objects0001Tenant, M!Table, M!Free, M!Part,
   M!Trigger, M!Create, M!Do, M!Seed

LEMMA Upgrade0002TablesMakes ==
    ASSUME NEW B, B \cap Objects0002Tables = {},
           {"accounts", "companies", "currencies"} \subseteq B
    PROVE  Makes(M!Upgrade0002Tables, B, Objects0002Tables)
BY DEF Makes, Tidy, M!What, M!Upgrade0002Tables, Objects0002Tables, M!Table, M!Free, M!Part,
   M!Trigger, M!Create, M!Do, M!Seed

LEMMA Upgrade0002TriggersMakes ==
    ASSUME NEW B, B \cap Objects0002Triggers = {},
           {"journal_entries", "journal_lines"} \subseteq B
    PROVE  Makes(M!Upgrade0002Triggers, B, Objects0002Triggers)
BY DEF Makes, Tidy, M!What, M!Upgrade0002Triggers, Objects0002Triggers, M!Table, M!Free, M!Part,
   M!Trigger, M!Create, M!Do, M!Seed

LEMMA Upgrade0003Makes ==
    ASSUME NEW B, B \cap Objects0003 = {},
           {"journal_entries"} \subseteq B
    PROVE  Makes(M!Upgrade0003, B, Objects0003)
BY DEF Makes, Tidy, M!What, M!Upgrade0003, Objects0003, M!Table, M!Free, M!Part, M!Trigger,
   M!Create, M!Do, M!Seed

LEMMA Upgrade0004Makes ==
    ASSUME NEW B, B \cap Objects0004 = {},
           {"companies", "currencies", "customers", "products", "uom"} \subseteq B
    PROVE  Makes(M!Upgrade0004, B, Objects0004)
BY DEF Makes, Tidy, M!What, M!Upgrade0004, Objects0004, M!Table, M!Free, M!Part, M!Trigger,
   M!Create, M!Do, M!Seed

LEMMA Upgrade0005Makes ==
    ASSUME NEW B, B \cap Objects0005 = {},
           {"companies", "products"} \subseteq B
    PROVE  Makes(M!Upgrade0005, B, Objects0005)
<1> DEFINE s == M!Upgrade0005
<1> USE DEF M!Upgrade0005, M!Table, M!Free, M!Part, M!Trigger, M!Create, M!Do, M!Seed
<1>1. M!What("create", s) = Objects0005
  BY DEF M!What, Objects0005
<1>2. \A i \in DOMAIN s :
          /\ s[i].op \notin {"drop", "unseed"}
          /\ s[i].op = "create" => /\ s[i].needs \subseteq B \cup Objects0005
                                   /\ s[i].of \in s[i].needs \cup {None}
  BY DEF Objects0005
<1>3. Tidy(s)
  <2>1. \A i, j \in DOMAIN s : i <= j =>
            (s[i].op = "create" /\ s[j].op = "create" => s[j].what \notin s[i].needs)
    OBVIOUS
  <2>2. \A i, j \in DOMAIN s : i <= j =>
            (s[i].op = "create" /\ s[j].op = "create" /\ i # j => s[j].what # s[i].what)
    OBVIOUS
  <2>3. \A i, j \in DOMAIN s : i <= j =>
            /\ s[i].op = "create" /\ s[i].what = "ck_sales_orders_shipped_has_shipped_at" =>
                  s[j].op # "backfill"
            /\ s[i].op = "seed" /\ s[j].op = "seed" => i = j
    OBVIOUS
  <2> QED
    BY <2>1, <2>2, <2>3 DEF Tidy
<1> QED
  BY <1>1, <1>2, <1>3 DEF Makes

LEMMA Upgrade0006Makes ==
    ASSUME NEW B, B \cap Objects0006 = {},
           {"sales_orders"} \subseteq B
    PROVE  Makes(M!Upgrade0006, B, Objects0006)
BY DEF Makes, Tidy, M!What, M!Upgrade0006, Objects0006, M!Table, M!Free, M!Part, M!Trigger,
   M!Create, M!Do, M!Seed

LEMMA Upgrade0007Makes ==
    ASSUME NEW B, B \cap Objects0007 = {},
           {"sales_order_lines"} \subseteq B
    PROVE  Makes(M!Upgrade0007, B, Objects0007)
BY DEF Makes, Tidy, M!What, M!Upgrade0007, Objects0007, M!Table, M!Free, M!Part, M!Trigger,
   M!Create, M!Do, M!Seed

LEMMA Upgrade0008ShippingMakes ==
    ASSUME NEW B, B \cap Objects0008Shipping = {},
           {"sales_orders"} \subseteq B
    PROVE  Makes(M!Upgrade0008Shipping, B, Objects0008Shipping)
BY DEF Makes, Tidy, M!What, M!Upgrade0008Shipping, Objects0008Shipping, M!Table, M!Free, M!Part,
   M!Trigger, M!Create, M!Do, M!Seed

LEMMA Upgrade0008InvoicesMakes ==
    ASSUME NEW B, B \cap Objects0008Invoices = {},
           {"accounts", "companies", "currencies", "customers", "sales_orders"} \subseteq B
    PROVE  Makes(M!Upgrade0008Invoices, B, Objects0008Invoices)
<1> DEFINE s == M!Upgrade0008Invoices
<1> USE DEF M!Upgrade0008Invoices, M!Table, M!Free, M!Part, M!Trigger, M!Create, M!Do, M!Seed
<1>1. M!What("create", s) = Objects0008Invoices
  BY DEF M!What, Objects0008Invoices
<1>2. \A i \in DOMAIN s :
          /\ s[i].op \notin {"drop", "unseed"}
          /\ s[i].op = "create" => /\ s[i].needs \subseteq B \cup Objects0008Invoices
                                   /\ s[i].of \in s[i].needs \cup {None}
  BY DEF Objects0008Invoices
<1>3. Tidy(s)
  <2>1. \A i, j \in DOMAIN s : i <= j =>
            (s[i].op = "create" /\ s[j].op = "create" => s[j].what \notin s[i].needs)
    OBVIOUS
  <2>2. \A i, j \in DOMAIN s : i <= j =>
            (s[i].op = "create" /\ s[j].op = "create" /\ i # j => s[j].what # s[i].what)
    OBVIOUS
  <2>3. \A i, j \in DOMAIN s : i <= j =>
            /\ s[i].op = "create" /\ s[i].what = "ck_sales_orders_shipped_has_shipped_at" =>
                  s[j].op # "backfill"
            /\ s[i].op = "seed" /\ s[j].op = "seed" => i = j
    OBVIOUS
  <2> QED
    BY <2>1, <2>2, <2>3 DEF Tidy
<1> QED
  BY <1>1, <1>2, <1>3 DEF Makes

LEMMA Upgrade0008PaymentsMakes ==
    ASSUME NEW B, B \cap Objects0008Payments = {},
           {"companies", "currencies", "customers", "invoices"} \subseteq B
    PROVE  Makes(M!Upgrade0008Payments, B, Objects0008Payments)
<1> DEFINE s == M!Upgrade0008Payments
<1> USE DEF M!Upgrade0008Payments, M!Table, M!Free, M!Part, M!Trigger, M!Create, M!Do, M!Seed
<1>1. M!What("create", s) = Objects0008Payments
  BY DEF M!What, Objects0008Payments
<1>2. \A i \in DOMAIN s :
          /\ s[i].op \notin {"drop", "unseed"}
          /\ s[i].op = "create" => /\ s[i].needs \subseteq B \cup Objects0008Payments
                                   /\ s[i].of \in s[i].needs \cup {None}
  BY DEF Objects0008Payments
<1>3. Tidy(s)
  <2>1. \A i, j \in DOMAIN s : i <= j =>
            (s[i].op = "create" /\ s[j].op = "create" => s[j].what \notin s[i].needs)
    OBVIOUS
  <2>2. \A i, j \in DOMAIN s : i <= j =>
            (s[i].op = "create" /\ s[j].op = "create" /\ i # j => s[j].what # s[i].what)
    OBVIOUS
  <2>3. \A i, j \in DOMAIN s : i <= j =>
            /\ s[i].op = "create" /\ s[i].what = "ck_sales_orders_shipped_has_shipped_at" =>
                  s[j].op # "backfill"
            /\ s[i].op = "seed" /\ s[j].op = "seed" => i = j
    OBVIOUS
  <2> QED
    BY <2>1, <2>2, <2>3 DEF Tidy
<1> QED
  BY <1>1, <1>2, <1>3 DEF Makes

LEMMA Upgrade0009Makes ==
    ASSUME NEW B, B \cap Objects0009 = {},
           {"companies"} \subseteq B
    PROVE  Makes(M!Upgrade0009, B, Objects0009)
<1> DEFINE s == M!Upgrade0009
<1> USE DEF M!Upgrade0009, M!Table, M!Free, M!Part, M!Trigger, M!Create, M!Do, M!Seed
<1>1. M!What("create", s) = Objects0009
  BY DEF M!What, Objects0009
<1>2. \A i \in DOMAIN s :
          /\ s[i].op \notin {"drop", "unseed"}
          /\ s[i].op = "create" => /\ s[i].needs \subseteq B \cup Objects0009
                                   /\ s[i].of \in s[i].needs \cup {None}
  BY DEF Objects0009
<1>3. Tidy(s)
  <2>1. \A i, j \in DOMAIN s : i <= j =>
            (s[i].op = "create" /\ s[j].op = "create" => s[j].what \notin s[i].needs)
    OBVIOUS
  <2>2. \A i, j \in DOMAIN s : i <= j =>
            (s[i].op = "create" /\ s[j].op = "create" /\ i # j => s[j].what # s[i].what)
    OBVIOUS
  <2>3. \A i, j \in DOMAIN s : i <= j =>
            /\ s[i].op = "create" /\ s[i].what = "ck_sales_orders_shipped_has_shipped_at" =>
                  s[j].op # "backfill"
            /\ s[i].op = "seed" /\ s[j].op = "seed" => i = j
    OBVIOUS
  <2> QED
    BY <2>1, <2>2, <2>3 DEF Tidy
<1> QED
  BY <1>1, <1>2, <1>3 DEF Makes

LEMMA Upgrade0010Makes ==
    ASSUME NEW B, B \cap Objects0010 = {}
    PROVE  Makes(M!Upgrade0010, B, Objects0010)
BY DEF Makes, Tidy, M!What, M!Upgrade0010, Objects0010, M!Table, M!Free, M!Part, M!Trigger,
   M!Create, M!Do, M!Seed, M!Catalog0010

LEMMA Upgrade0011Makes ==
    ASSUME NEW B, B \cap Objects0011 = {},
           {"companies"} \subseteq B
    PROVE  Makes(M!Upgrade0011, B, Objects0011)
BY DEF Makes, Tidy, M!What, M!Upgrade0011, Objects0011, M!Table, M!Free, M!Part, M!Trigger,
   M!Create, M!Do, M!Seed, M!Catalog0011

LEMMA Upgrade0012Makes ==
    ASSUME NEW B, B \cap Objects0012 = {},
           {"companies"} \subseteq B
    PROVE  Makes(M!Upgrade0012, B, Objects0012)
BY DEF Makes, Tidy, M!What, M!Upgrade0012, Objects0012, M!Table, M!Free, M!Part, M!Trigger,
   M!Create, M!Do, M!Seed, M!Catalog0012

\* One script after another, the second without codes and without a filling in.
LEMMA MakesTogether ==
    ASSUME NEW p, NEW q, NEW B, NEW N, NEW P,
           \E S : p \in Seq(S), \E S : q \in Seq(S),
           Makes(p, B, N), Makes(q, B \cup N, P),
           \A i \in DOMAIN q : q[i].op \notin {"backfill", "seed"}
    PROVE  Makes(p \o q, B, N \cup P)
<1> DEFINE s == p \o q
<1>0. PICK S, T : p \in Seq(S) /\ q \in Seq(T)
  OBVIOUS
<1>00. p \in Seq(S \cup T) /\ q \in Seq(S \cup T)
  BY <1>0
<1>1. /\ s \in Seq(S \cup T) /\ Len(s) = Len(p) + Len(q) /\ Len(p) \in Nat /\ Len(q) \in Nat
      /\ \A i \in 1..(Len(p) + Len(q)) : s[i] = IF i <= Len(p) THEN p[i] ELSE q[i - Len(p)]
  BY <1>00, ConcatProperties
<1>2. DOMAIN s = 1..(Len(p) + Len(q)) /\ DOMAIN p = 1..Len(p) /\ DOMAIN q = 1..Len(q)
  BY <1>1
<1>3. \A i \in DOMAIN p : i \in DOMAIN s /\ s[i] = p[i]
  BY <1>1, <1>2
<1>4. \A i \in DOMAIN q : i + Len(p) \in DOMAIN s /\ s[i + Len(p)] = q[i]
  BY <1>1, <1>2
<1>5. \A i \in DOMAIN s : \/ i \in DOMAIN p /\ s[i] = p[i]
                          \/ i \notin DOMAIN p /\ i - Len(p) \in DOMAIN q /\ s[i] = q[i - Len(p)]
  BY <1>1, <1>2
<1> HIDE DEF s
<1>6. M!What("create", s) = N \cup P
  <2>1. M!What("create", s) \subseteq M!What("create", p) \cup M!What("create", q)
    BY <1>5 DEF M!What
  <2>2. M!What("create", p) \subseteq M!What("create", s)
    BY <1>3 DEF M!What
  <2>3. M!What("create", q) \subseteq M!What("create", s)
    BY <1>4 DEF M!What
  <2> QED
    BY <2>1, <2>2, <2>3 DEF Makes
<1>7. (N \cup P) \cap B = {}
  BY DEF Makes
<1>8. \A i \in DOMAIN s :
          /\ s[i].op \notin {"drop", "unseed"}
          /\ s[i].op = "create" => /\ s[i].needs \subseteq B \cup (N \cup P)
                                   /\ s[i].of \in s[i].needs \cup {None}
  BY <1>5 DEF Makes
<1>9. Tidy(s)
  <2> SUFFICES ASSUME NEW i \in DOMAIN s, NEW j \in DOMAIN s, i <= j
               PROVE  /\ s[i].op = "create" /\ s[j].op = "create" =>
                            s[j].what \notin s[i].needs /\ (i # j => s[j].what # s[i].what)
                      /\ s[i].op = "create" /\ s[i].what = "ck_sales_orders_shipped_has_shipped_at"
                            => s[j].op # "backfill"
                      /\ s[i].op = "seed" /\ s[j].op = "seed" => i = j
    BY DEF Tidy
  <2>1. CASE i \in DOMAIN p /\ j \in DOMAIN p
    BY <1>3, <2>1 DEF Makes, Tidy
  <2>2. CASE i \in DOMAIN p /\ j \notin DOMAIN p
    <3>1. s[i] = p[i] /\ s[j] = q[j - Len(p)] /\ j - Len(p) \in DOMAIN q
      BY <1>3, <1>5, <2>2
    <3>2. s[i].op = "create" => s[i].needs \subseteq B \cup N /\ s[i].what \in N
      BY <2>2, <3>1 DEF Makes, M!What
    <3>3. s[j].op = "create" => s[j].what \in P
      BY <3>1 DEF Makes, M!What
    <3>4. P \cap (B \cup N) = {} /\ s[j].op \notin {"backfill", "seed"}
      BY <3>1 DEF Makes
    <3> QED
      BY <3>2, <3>3, <3>4
  <2>3. CASE i \notin DOMAIN p
    <3>1. j \notin DOMAIN p
      BY <1>2, <2>3
    <3>2. PICK k \in DOMAIN q, l \in DOMAIN q :
              s[i] = q[k] /\ s[j] = q[l] /\ k <= l /\ (i = j <=> k = l)
      <4>1. /\ i - Len(p) \in DOMAIN q /\ s[i] = q[i - Len(p)]
            /\ j - Len(p) \in DOMAIN q /\ s[j] = q[j - Len(p)]
        BY <1>5, <2>3, <3>1
      <4>2. i - Len(p) <= j - Len(p) /\ (i = j <=> i - Len(p) = j - Len(p))
        BY <1>1, <1>2
      <4> QED
        BY <4>1, <4>2
    <3> QED
      BY <3>2 DEF Makes, Tidy
  <2> QED
    BY <2>1, <2>2, <2>3
<1> QED
  BY <1>6, <1>7, <1>8, <1>9 DEF Makes, s

\* The parts of the script of 0008 are sequences.
LEMMA FirstPartsOf0008 ==
    /\ \E S : M!Upgrade0008Shipping \o M!Upgrade0008Invoices \in Seq(S)
    /\ (\E S : M!Upgrade0008Shipping \in Seq(S)) /\ (\E S : M!Upgrade0008Invoices \in Seq(S))
    /\ \E S : M!Upgrade0008Payments \in Seq(S)
<1> DEFINE first == M!Upgrade0008Shipping
           second == M!Upgrade0008Invoices
<1>1. first \in Seq({first[i] : i \in 1..4})
  BY DEF M!Upgrade0008Shipping
<1>2. PICK S, T : second \in Seq(S) /\ M!Upgrade0008Payments \in Seq(T)
  BY ScriptsAnywhere DEF Anywhere
<1> HIDE DEF first, second
<1>3. /\ second \in Seq(S \cup {first[i] : i \in 1..4})
      /\ first \in Seq(S \cup {first[i] : i \in 1..4})
  BY <1>1, <1>2
<1>4. first \o second \in Seq(S \cup {first[i] : i \in 1..4})
  BY <1>3, ConcatProperties
<1> QED
  BY <1>1, <1>2, <1>4 DEF first, second

\* Each upgrade makes its own objects over those of the revisions before it.
LEMMA UpgradeMakes ==
    ASSUME NEW r \in 1..12
    PROVE  Makes(M!Upgrade[r], MadeUpTo(r - 1), Objects[r])
<1>1. /\ Objects[1] = Objects0001 /\ Objects[2] = Objects0002 /\ Objects[3] = Objects0003
      /\ Objects[4] = Objects0004 /\ Objects[5] = Objects0005 /\ Objects[6] = Objects0006
      /\ Objects[7] = Objects0007 /\ Objects[8] = Objects0008 /\ Objects[9] = Objects0009
      /\ Objects[10] = Objects0010 /\ Objects[11] = Objects0011 /\ Objects[12] = Objects0012
  BY DEF Objects
<1>2. Makes(M!Upgrade0001Global \o M!Upgrade0001Tenant, MadeUpTo(0), Objects0001)
  <2>1. Makes(M!Upgrade0001Global, {}, Objects0001Global)
    BY Upgrade0001GlobalMakes
  <2>2. Makes(M!Upgrade0001Tenant, {} \cup Objects0001Global, Objects0001Tenant)
    BY ObjectsApart, ObjectsInPlace, Upgrade0001TenantMakes
  <2>3. \A i \in DOMAIN M!Upgrade0001Tenant :
            M!Upgrade0001Tenant[i].op \notin {"backfill", "seed"}
    BY DEF M!Upgrade0001Tenant, M!Free, M!Table, M!Create
  <2>4. (\E S : M!Upgrade0001Global \in Seq(S)) /\ \E S : M!Upgrade0001Tenant \in Seq(S)
    BY ScriptsAnywhere DEF Anywhere
  <2> QED
    BY <2>1, <2>2, <2>3, <2>4, MadeUpToAre, MakesTogether DEF Objects0001
<1>3. Makes(M!Upgrade0002Tables \o M!Upgrade0002Triggers, MadeUpTo(1), Objects0002)
  <2>1. Makes(M!Upgrade0002Tables, MadeUpTo(1), Objects0002Tables)
    BY ObjectsApart, ObjectsInPlace, Upgrade0002TablesMakes
  <2>2. Makes(M!Upgrade0002Triggers, MadeUpTo(1) \cup Objects0002Tables, Objects0002Triggers)
    BY ObjectsApart, ObjectsInPlace, Upgrade0002TriggersMakes
  <2>3. \A i \in DOMAIN M!Upgrade0002Triggers :
            M!Upgrade0002Triggers[i].op \notin {"backfill", "seed"}
    BY DEF M!Upgrade0002Triggers, M!Free, M!Trigger, M!Create
  <2>4. (\E S : M!Upgrade0002Tables \in Seq(S)) /\ \E S : M!Upgrade0002Triggers \in Seq(S)
    BY ScriptsAnywhere DEF Anywhere
  <2> QED
    BY <2>1, <2>2, <2>3, <2>4, MakesTogether DEF Objects0002
<1>4. Makes(M!Upgrade0008Shipping \o M!Upgrade0008Invoices \o M!Upgrade0008Payments,
            MadeUpTo(7), Objects0008)
  <2> DEFINE shipping == M!Upgrade0008Shipping
             invoices == M!Upgrade0008Invoices
             payments == M!Upgrade0008Payments
  <2>1. Makes(shipping, MadeUpTo(7), Objects0008Shipping)
    BY ObjectsApart, ObjectsInPlace, Upgrade0008ShippingMakes
  <2>2. Makes(invoices, MadeUpTo(7) \cup Objects0008Shipping, Objects0008Invoices)
    BY ObjectsApart, ObjectsInPlace, Upgrade0008InvoicesMakes
  <2>3. Makes(payments, MadeUpTo(7) \cup (Objects0008Shipping \cup Objects0008Invoices),
              Objects0008Payments)
    <3>1. MadeUpTo(7) \cup (Objects0008Shipping \cup Objects0008Invoices)
             = MadeUpTo(7) \cup Objects0008Shipping \cup Objects0008Invoices
      OBVIOUS
    <3>2. Makes(payments, MadeUpTo(7) \cup Objects0008Shipping \cup Objects0008Invoices,
                Objects0008Payments)
      BY ObjectsApart, ObjectsInPlace, Upgrade0008PaymentsMakes
    <3> QED
      BY <3>1, <3>2
  <2>4. \A i \in DOMAIN invoices : invoices[i].op \notin {"backfill", "seed"}
    BY DEF M!Upgrade0008Invoices, M!Free, M!Part, M!Table, M!Create
  <2>5. \A i \in DOMAIN payments : payments[i].op \notin {"backfill", "seed"}
    BY DEF M!Upgrade0008Payments, M!Free, M!Table, M!Create
  <2>6. /\ \E S : shipping \o invoices \in Seq(S)
        /\ (\E S : shipping \in Seq(S)) /\ (\E S : invoices \in Seq(S))
        /\ \E S : payments \in Seq(S)
    BY FirstPartsOf0008
  <2> HIDE DEF shipping, invoices, payments
  <2>8. Makes(shipping \o invoices, MadeUpTo(7), Objects0008Shipping \cup Objects0008Invoices)
    BY <2>1, <2>2, <2>4, <2>6, MakesTogether
  <2>9. Makes((shipping \o invoices) \o payments, MadeUpTo(7), Objects0008)
    BY <2>3, <2>5, <2>6, <2>8, MakesTogether DEF Objects0008
  <2> QED
    BY <2>9 DEF shipping, invoices, payments
<1>5. r = 1 \/ r = 2 \/ r = 3 \/ r = 4 \/ r = 5 \/ r = 6 \/ r = 7 \/ r = 8 \/ r = 9
      \/ r = 10 \/ r = 11 \/ r = 12
  OBVIOUS
<1>6. CASE r = 1
  BY <1>1, <1>2, <1>6 DEF M!Upgrade
<1>7. CASE r = 2
  BY <1>1, <1>3, <1>7 DEF M!Upgrade
<1>8. CASE r = 8
  BY <1>1, <1>4, <1>8 DEF M!Upgrade
<1>9. CASE r = 3
  <2>1. Makes(M!Upgrade0003, MadeUpTo(2), Objects0003)
    BY ObjectsApart, ObjectsInPlace, Upgrade0003Makes
  <2> QED
    BY <1>1, <1>9, <2>1 DEF M!Upgrade
<1>10. CASE r = 4
  <2>1. Makes(M!Upgrade0004, MadeUpTo(3), Objects0004)
    BY ObjectsApart, ObjectsInPlace, Upgrade0004Makes
  <2> QED
    BY <1>1, <1>10, <2>1 DEF M!Upgrade
<1>11. CASE r = 5
  <2>1. Makes(M!Upgrade0005, MadeUpTo(4), Objects0005)
    BY ObjectsApart, ObjectsInPlace, Upgrade0005Makes
  <2> QED
    BY <1>1, <1>11, <2>1 DEF M!Upgrade
<1>12. CASE r = 6
  <2>1. Makes(M!Upgrade0006, MadeUpTo(5), Objects0006)
    BY ObjectsApart, ObjectsInPlace, Upgrade0006Makes
  <2> QED
    BY <1>1, <1>12, <2>1 DEF M!Upgrade
<1>13. CASE r = 7
  <2>1. Makes(M!Upgrade0007, MadeUpTo(6), Objects0007)
    BY ObjectsApart, ObjectsInPlace, Upgrade0007Makes
  <2> QED
    BY <1>1, <1>13, <2>1 DEF M!Upgrade
<1>14. CASE r = 9
  <2>1. Makes(M!Upgrade0009, MadeUpTo(8), Objects0009)
    BY ObjectsApart, ObjectsInPlace, Upgrade0009Makes
  <2> QED
    BY <1>1, <1>14, <2>1 DEF M!Upgrade
<1>15. CASE r = 10
  <2>1. Makes(M!Upgrade0010, MadeUpTo(9), Objects0010)
    BY ObjectsApart, ObjectsInPlace, Upgrade0010Makes
  <2> QED
    BY <1>1, <1>15, <2>1 DEF M!Upgrade
<1>16. CASE r = 11
  <2>1. Makes(M!Upgrade0011, MadeUpTo(10), Objects0011)
    BY ObjectsApart, ObjectsInPlace, Upgrade0011Makes
  <2> QED
    BY <1>1, <1>16, <2>1 DEF M!Upgrade
<1>17. CASE r = 12
  <2>1. Makes(M!Upgrade0012, MadeUpTo(11), Objects0012)
    BY ObjectsApart, ObjectsInPlace, Upgrade0012Makes
  <2> QED
    BY <1>1, <1>17, <2>1 DEF M!Upgrade
<1> QED
  BY <1>5, <1>6, <1>7, <1>8, <1>9, <1>10, <1>11, <1>12, <1>13, <1>14, <1>15, <1>16, <1>17

\* The codes that each script seeds.
Seeded ==
    << {}, {}, {}, {}, {}, {}, {}, {}, {"session.manage"},
       M!Catalog0010, M!Catalog0011, M!Catalog0012 >>

SeededUpTo(r) == UNION {Seeded[q] : q \in 1..r}

\* The codes, revision by revision.
LEMMA SeededUpToAre ==
    /\ \A r \in 0..8 : SeededUpTo(r) = {}
    /\ SeededUpTo(9) = {"session.manage"}
    /\ SeededUpTo(10) = SeededUpTo(9) \cup M!Catalog0010
    /\ SeededUpTo(11) = SeededUpTo(10) \cup M!Catalog0011
    /\ SeededUpTo(12) = SeededUpTo(11) \cup M!Catalog0012
BY DEF SeededUpTo, Seeded

\* What a revision adds to the codes and the objects up to it, and that it is new.
LEMMA RevisionAdds ==
    ASSUME NEW r \in 1..12
    PROVE  /\ MadeUpTo(r) = MadeUpTo(r - 1) \cup Objects[r] /\ MadeUpTo(r - 1) \cap Objects[r] = {}
           /\ SeededUpTo(r) = SeededUpTo(r - 1) \cup Seeded[r]
           /\ SeededUpTo(r - 1) \cap Seeded[r] = {}
<1>1. 1..r = 1..(r - 1) \cup {r}
  OBVIOUS
<1>2. MadeUpTo(r) = MadeUpTo(r - 1) \cup Objects[r]
  BY <1>1 DEF MadeUpTo
<1>3. SeededUpTo(r) = SeededUpTo(r - 1) \cup Seeded[r]
  BY <1>1 DEF SeededUpTo
<1>4. MadeUpTo(r - 1) \cap Objects[r] = {}
  BY UpgradeMakes DEF Makes
<1>5. SeededUpTo(r - 1) \cap Seeded[r] = {}
  <2>1. r \in 1..8 \/ r = 9 \/ r = 10 \/ r = 11 \/ r = 12
    OBVIOUS
  <2>2. CASE r \in 1..8
    BY <2>2, SeededUpToAre
  <2>3. CASE r = 9
    BY <2>3, SeededUpToAre
  <2>4. CASE r \in 10..12
    BY <2>4, SeededUpToAre DEF Seeded, M!Catalog0010, M!Catalog0011, M!Catalog0012
  <2> QED
    BY <2>1, <2>2, <2>3, <2>4
<1> QED
  BY <1>2, <1>3, <1>4, <1>5

\* A later revision has what an earlier one added.
LEMMA UpToGrows ==
    ASSUME NEW r \in 0..12, NEW q \in 1..r
    PROVE  Objects[q] \subseteq MadeUpTo(r) /\ Seeded[q] \subseteq SeededUpTo(r)
BY DEF MadeUpTo, SeededUpTo

\* No object and no code belongs to two revisions.
LEMMA OneRevision ==
    ASSUME NEW q \in 1..12, NEW r \in 1..12, q # r
    PROVE  Objects[q] \cap Objects[r] = {}
<1>1. CASE q < r
  <2>1. r - 1 \in 0..12 /\ q \in 1..(r - 1)
    BY <1>1
  <2> QED
    BY <2>1, RevisionAdds, UpToGrows
<1>2. CASE r < q
  <2>1. q - 1 \in 0..12 /\ r \in 1..(q - 1)
    BY <1>2
  <2> QED
    BY <2>1, RevisionAdds, UpToGrows
<1> QED
  BY <1>1, <1>2

\* The operations of one script after another are those of both.
LEMMA OpsTogether ==
    ASSUME NEW p, NEW q, \E S : p \in Seq(S), \E S : q \in Seq(S)
    PROVE  \A i \in DOMAIN (p \o q) : \/ \E j \in DOMAIN p : (p \o q)[i] = p[j]
                                     \/ \E j \in DOMAIN q : (p \o q)[i] = q[j]
<1>1. PICK S, T : p \in Seq(S) /\ q \in Seq(T)
  OBVIOUS
<1>2. p \in Seq(S \cup T) /\ q \in Seq(S \cup T)
  BY <1>1
<1>3. /\ p \o q \in Seq(S \cup T) /\ Len(p \o q) = Len(p) + Len(q)
      /\ \A i \in 1..(Len(p) + Len(q)) : (p \o q)[i] = IF i <= Len(p) THEN p[i] ELSE q[i - Len(p)]
  BY <1>2, ConcatProperties
<1>4. /\ DOMAIN (p \o q) = 1..(Len(p) + Len(q)) /\ DOMAIN p = 1..Len(p) /\ DOMAIN q = 1..Len(q)
      /\ Len(p) \in Nat /\ Len(q) \in Nat
  BY <1>2, <1>3
<1> SUFFICES ASSUME NEW i \in DOMAIN (p \o q)
             PROVE  \/ \E j \in DOMAIN p : (p \o q)[i] = p[j]
                    \/ \E j \in DOMAIN q : (p \o q)[i] = q[j]
  OBVIOUS
<1>5. CASE i <= Len(p)
  BY <1>3, <1>4, <1>5
<1>6. CASE i > Len(p)
  <2>1. i - Len(p) \in DOMAIN q /\ (p \o q)[i] = q[i - Len(p)]
    BY <1>3, <1>4, <1>6
  <2> QED
    BY <2>1
<1> QED
  BY <1>4, <1>5, <1>6

\* Nothing that a later drop needs is dropped, as the objects of t are made.
Undoes(s, t) ==
    \A i, j \in DOMAIN s, k \in DOMAIN t :
        i <= j /\ s[i].op = "drop" /\ s[j].op = "drop" /\ t[k].op = "create"
            /\ s[j].what = t[k].what => s[i].what \notin t[k].needs

\* A script that drops the objects N, each once, and takes the codes C back.
Unmakes(s, N, C) ==
    /\ M!What("drop", s) = N /\ UNION M!What("unseed", s) = C
    /\ \A i \in DOMAIN s : s[i].op \in {"drop", "unseed"}
    /\ \A i, j \in DOMAIN s :
          /\ s[i].op = "drop" /\ s[j].op = "drop" /\ i # j => s[j].what # s[i].what
          /\ s[i].op = "unseed" /\ s[j].op = "unseed" => i = j

LEMMA Downgrade0001Unmakes == Unmakes(M!Downgrade0001, Objects0001, {})
BY DEF Unmakes, M!What, M!Downgrade0001, M!Drop, M!Unseed,
   Objects0001, Objects0001Global, Objects0001Tenant

LEMMA Downgrade0002Unmakes == Unmakes(M!Downgrade0002, Objects0002, {})
BY DEF Unmakes, M!What, M!Downgrade0002, M!Drop, M!Unseed,
   Objects0002, Objects0002Tables, Objects0002Triggers

LEMMA Downgrade0003Unmakes == Unmakes(M!Downgrade0003, Objects0003, {})
BY DEF Unmakes, M!What, M!Downgrade0003, M!Drop, M!Unseed,
   Objects0003

LEMMA Downgrade0004Unmakes == Unmakes(M!Downgrade0004, Objects0004, {})
BY DEF Unmakes, M!What, M!Downgrade0004, M!Drop, M!Unseed,
   Objects0004

LEMMA Downgrade0005Unmakes == Unmakes(M!Downgrade0005, Objects0005, {})
BY DEF Unmakes, M!What, M!Downgrade0005, M!Drop, M!Unseed,
   Objects0005

LEMMA Downgrade0006Unmakes == Unmakes(M!Downgrade0006, Objects0006, {})
BY DEF Unmakes, M!What, M!Downgrade0006, M!Drop, M!Unseed,
   Objects0006

LEMMA Downgrade0007Unmakes == Unmakes(M!Downgrade0007, Objects0007, {})
BY DEF Unmakes, M!What, M!Downgrade0007, M!Drop, M!Unseed,
   Objects0007

LEMMA Downgrade0008Unmakes == Unmakes(M!Downgrade0008, Objects0008, {})
BY DEF Unmakes, M!What, M!Downgrade0008, M!Drop, M!Unseed,
   Objects0008, Objects0008Shipping, Objects0008Invoices, Objects0008Payments

LEMMA Downgrade0009Unmakes == Unmakes(M!Downgrade0009, Objects0009, {})
BY DEF Unmakes, M!What, M!Downgrade0009, M!Drop, M!Unseed,
   Objects0009

LEMMA Downgrade0010Unmakes == Unmakes(M!Downgrade0010, Objects0010, M!Catalog0010)
BY DEF Unmakes, M!What, M!Downgrade0010, M!Drop, M!Unseed,
   Objects0010

LEMMA Downgrade0011Unmakes == Unmakes(M!Downgrade0011, Objects0011, M!Catalog0011)
BY DEF Unmakes, M!What, M!Downgrade0011, M!Drop, M!Unseed,
   Objects0011

LEMMA Downgrade0012Unmakes == Unmakes(M!Downgrade0012, Objects0012, M!Catalog0012)
BY DEF Unmakes, M!What, M!Downgrade0012, M!Drop, M!Unseed,
   Objects0012

\* Each downgrade drops in an order that undoes its upgrade, part by part.
LEMMA DowngradesUndo ==
    /\ Undoes(M!Downgrade0001, M!Upgrade0001Global)
    /\ Undoes(M!Downgrade0001, M!Upgrade0001Tenant)
    /\ Undoes(M!Downgrade0002, M!Upgrade0002Tables)
    /\ Undoes(M!Downgrade0002, M!Upgrade0002Triggers)
    /\ Undoes(M!Downgrade0003, M!Upgrade0003)
    /\ Undoes(M!Downgrade0004, M!Upgrade0004)
    /\ Undoes(M!Downgrade0005, M!Upgrade0005)
    /\ Undoes(M!Downgrade0006, M!Upgrade0006)
    /\ Undoes(M!Downgrade0007, M!Upgrade0007)
    /\ Undoes(M!Downgrade0008, M!Upgrade0008Shipping)
    /\ Undoes(M!Downgrade0008, M!Upgrade0008Invoices)
    /\ Undoes(M!Downgrade0008, M!Upgrade0008Payments)
    /\ Undoes(M!Downgrade0009, M!Upgrade0009)
    /\ Undoes(M!Downgrade0010, M!Upgrade0010)
    /\ Undoes(M!Downgrade0011, M!Upgrade0011)
    /\ Undoes(M!Downgrade0012, M!Upgrade0012)
<1>1. Undoes(M!Downgrade0001, M!Upgrade0001Global)
  BY DEF Undoes, M!Downgrade0001, M!Drop, M!Unseed, M!Upgrade0001Global, M!Table, M!Free, M!Part,
     M!Trigger, M!Create, M!Do, M!Seed
<1>2. Undoes(M!Downgrade0001, M!Upgrade0001Tenant)
  BY DEF Undoes, M!Downgrade0001, M!Drop, M!Unseed, M!Upgrade0001Tenant, M!Table, M!Free, M!Part,
     M!Trigger, M!Create, M!Do, M!Seed
<1>3. Undoes(M!Downgrade0002, M!Upgrade0002Tables)
  BY DEF Undoes, M!Downgrade0002, M!Drop, M!Unseed, M!Upgrade0002Tables, M!Table, M!Free, M!Part,
     M!Trigger, M!Create, M!Do, M!Seed
<1>4. Undoes(M!Downgrade0002, M!Upgrade0002Triggers)
  BY DEF Undoes, M!Downgrade0002, M!Drop, M!Unseed, M!Upgrade0002Triggers, M!Table, M!Free, M!Part,
     M!Trigger, M!Create, M!Do, M!Seed
<1>5. Undoes(M!Downgrade0003, M!Upgrade0003)
  BY DEF Undoes, M!Downgrade0003, M!Drop, M!Unseed, M!Upgrade0003, M!Table, M!Free, M!Part,
     M!Trigger, M!Create, M!Do, M!Seed
<1>6. Undoes(M!Downgrade0004, M!Upgrade0004)
  BY DEF Undoes, M!Downgrade0004, M!Drop, M!Unseed, M!Upgrade0004, M!Table, M!Free, M!Part,
     M!Trigger, M!Create, M!Do, M!Seed
<1>7. Undoes(M!Downgrade0005, M!Upgrade0005)
  BY DEF Undoes, M!Downgrade0005, M!Drop, M!Unseed, M!Upgrade0005, M!Table, M!Free, M!Part,
     M!Trigger, M!Create, M!Do, M!Seed
<1>8. Undoes(M!Downgrade0006, M!Upgrade0006)
  BY DEF Undoes, M!Downgrade0006, M!Drop, M!Unseed, M!Upgrade0006, M!Table, M!Free, M!Part,
     M!Trigger, M!Create, M!Do, M!Seed
<1>9. Undoes(M!Downgrade0007, M!Upgrade0007)
  BY DEF Undoes, M!Downgrade0007, M!Drop, M!Unseed, M!Upgrade0007, M!Table, M!Free, M!Part,
     M!Trigger, M!Create, M!Do, M!Seed
<1>10. Undoes(M!Downgrade0008, M!Upgrade0008Shipping)
  BY DEF Undoes, M!Downgrade0008, M!Drop, M!Unseed, M!Upgrade0008Shipping, M!Table, M!Free, M!Part,
     M!Trigger, M!Create, M!Do, M!Seed
<1>11. Undoes(M!Downgrade0008, M!Upgrade0008Invoices)
  BY DEF Undoes, M!Downgrade0008, M!Drop, M!Unseed, M!Upgrade0008Invoices, M!Table, M!Free, M!Part,
     M!Trigger, M!Create, M!Do, M!Seed
<1>12. Undoes(M!Downgrade0008, M!Upgrade0008Payments)
  BY DEF Undoes, M!Downgrade0008, M!Drop, M!Unseed, M!Upgrade0008Payments, M!Table, M!Free, M!Part,
     M!Trigger, M!Create, M!Do, M!Seed
<1>13. Undoes(M!Downgrade0009, M!Upgrade0009)
  BY DEF Undoes, M!Downgrade0009, M!Drop, M!Unseed, M!Upgrade0009, M!Table, M!Free, M!Part,
     M!Trigger, M!Create, M!Do, M!Seed
<1>14. Undoes(M!Downgrade0010, M!Upgrade0010)
  BY DEF Undoes, M!Downgrade0010, M!Drop, M!Unseed, M!Upgrade0010, M!Table, M!Free, M!Part,
     M!Trigger, M!Create, M!Do, M!Seed
<1>15. Undoes(M!Downgrade0011, M!Upgrade0011)
  BY DEF Undoes, M!Downgrade0011, M!Drop, M!Unseed, M!Upgrade0011, M!Table, M!Free, M!Part,
     M!Trigger, M!Create, M!Do, M!Seed
<1>16. Undoes(M!Downgrade0012, M!Upgrade0012)
  BY DEF Undoes, M!Downgrade0012, M!Drop, M!Unseed, M!Upgrade0012, M!Table, M!Free, M!Part,
     M!Trigger, M!Create, M!Do, M!Seed
<1> QED
  BY <1>1, <1>2, <1>3, <1>4, <1>5, <1>6, <1>7, <1>8, <1>9, <1>10, <1>11, <1>12, <1>13, <1>14,
     <1>15, <1>16

\* What undoes two scripts undoes the one after the other.
LEMMA UndoesBoth ==
    ASSUME NEW s, NEW p, NEW q, \E S : p \in Seq(S), \E S : q \in Seq(S),
           Undoes(s, p), Undoes(s, q)
    PROVE  Undoes(s, p \o q)
<1> DEFINE t == p \o q
<1>1. \A k \in DOMAIN t : \/ \E j \in DOMAIN p : t[k] = p[j]
                          \/ \E j \in DOMAIN q : t[k] = q[j]
  BY OpsTogether
<1> HIDE DEF t
<1> SUFFICES ASSUME NEW i \in DOMAIN s, NEW j \in DOMAIN s, NEW k \in DOMAIN t,
                    i <= j, s[i].op = "drop", s[j].op = "drop", t[k].op = "create",
                    s[j].what = t[k].what
             PROVE  s[i].what \notin t[k].needs
  BY DEF Undoes, t
<1>2. CASE \E l \in DOMAIN p : t[k] = p[l]
  BY <1>2 DEF Undoes
<1>3. CASE \E l \in DOMAIN q : t[k] = q[l]
  BY <1>3 DEF Undoes
<1> QED
  BY <1>1, <1>2, <1>3

\* Each downgrade drops what its upgrade made, and takes its codes back unless they
\* go with their table.
LEMMA DowngradeUnmakes ==
    ASSUME NEW r \in 1..12
    PROVE  /\ Unmakes(M!Downgrade[r], Objects[r], IF r = 9 THEN {} ELSE Seeded[r])
           /\ Undoes(M!Downgrade[r], M!Upgrade[r])
<1>1. r = 1 \/ r = 2 \/ r = 3 \/ r = 4 \/ r = 5 \/ r = 6 \/ r = 7 \/ r = 8 \/ r = 9
      \/ r = 10 \/ r = 11 \/ r = 12
  OBVIOUS
<1>2. Undoes(M!Downgrade0001, M!Upgrade0001Global \o M!Upgrade0001Tenant)
  <2>1. (\E S : M!Upgrade0001Global \in Seq(S)) /\ \E S : M!Upgrade0001Tenant \in Seq(S)
    BY ScriptsAnywhere DEF Anywhere
  <2> QED
    BY <2>1, DowngradesUndo, UndoesBoth
<1>3. Undoes(M!Downgrade0002, M!Upgrade0002Tables \o M!Upgrade0002Triggers)
  <2>1. (\E S : M!Upgrade0002Tables \in Seq(S)) /\ \E S : M!Upgrade0002Triggers \in Seq(S)
    BY ScriptsAnywhere DEF Anywhere
  <2> QED
    BY <2>1, DowngradesUndo, UndoesBoth
<1>4. Undoes(M!Downgrade0008,
             M!Upgrade0008Shipping \o M!Upgrade0008Invoices \o M!Upgrade0008Payments)
  <2> DEFINE shipping == M!Upgrade0008Shipping
             invoices == M!Upgrade0008Invoices
             payments == M!Upgrade0008Payments
  <2>1. /\ Undoes(M!Downgrade0008, shipping) /\ Undoes(M!Downgrade0008, invoices)
        /\ Undoes(M!Downgrade0008, payments)
    BY DowngradesUndo
  <2>2. \E S : shipping \o invoices \in Seq(S)
    BY FirstPartsOf0008
  <2>3. (\E S : shipping \in Seq(S)) /\ (\E S : invoices \in Seq(S))
        /\ \E S : payments \in Seq(S)
    BY FirstPartsOf0008
  <2> HIDE DEF shipping, invoices, payments
  <2>4. Undoes(M!Downgrade0008, shipping \o invoices)
    BY <2>1, <2>3, UndoesBoth
  <2>5. Undoes(M!Downgrade0008, (shipping \o invoices) \o payments)
    BY <2>1, <2>2, <2>3, <2>4, UndoesBoth
  <2> QED
    BY <2>5 DEF shipping, invoices, payments
<1>5. CASE r = 1
  BY <1>2, <1>5, Downgrade0001Unmakes DEF M!Downgrade, M!Upgrade, Objects, Seeded
<1>6. CASE r = 2
  BY <1>3, <1>6, Downgrade0002Unmakes DEF M!Downgrade, M!Upgrade, Objects, Seeded
<1>7. CASE r = 3
  BY DowngradesUndo, <1>7, Downgrade0003Unmakes DEF M!Downgrade, M!Upgrade, Objects, Seeded
<1>8. CASE r = 4
  BY DowngradesUndo, <1>8, Downgrade0004Unmakes DEF M!Downgrade, M!Upgrade, Objects, Seeded
<1>9. CASE r = 5
  BY DowngradesUndo, <1>9, Downgrade0005Unmakes DEF M!Downgrade, M!Upgrade, Objects, Seeded
<1>10. CASE r = 6
  BY DowngradesUndo, <1>10, Downgrade0006Unmakes DEF M!Downgrade, M!Upgrade, Objects, Seeded
<1>11. CASE r = 7
  BY DowngradesUndo, <1>11, Downgrade0007Unmakes DEF M!Downgrade, M!Upgrade, Objects, Seeded
<1>12. CASE r = 8
  BY <1>4, <1>12, Downgrade0008Unmakes DEF M!Downgrade, M!Upgrade, Objects, Seeded
<1>13. CASE r = 9
  BY DowngradesUndo, <1>13, Downgrade0009Unmakes DEF M!Downgrade, M!Upgrade, Objects, Seeded
<1>14. CASE r = 10
  BY DowngradesUndo, <1>14, Downgrade0010Unmakes DEF M!Downgrade, M!Upgrade, Objects, Seeded
<1>15. CASE r = 11
  BY DowngradesUndo, <1>15, Downgrade0011Unmakes DEF M!Downgrade, M!Upgrade, Objects, Seeded
<1>16. CASE r = 12
  BY DowngradesUndo, <1>16, Downgrade0012Unmakes DEF M!Downgrade, M!Upgrade, Objects, Seeded
<1> QED
  BY <1>1, <1>5, <1>6, <1>7, <1>8, <1>9, <1>10, <1>11, <1>12, <1>13, <1>14,
     <1>15, <1>16

\* What each upgrade seeds.
LEMMA UpgradeSeeds ==
    ASSUME NEW r \in 1..12
    PROVE  UNION M!What("seed", M!Upgrade[r]) = Seeded[r]
<1>1. r = 1 \/ r = 2 \/ r = 3 \/ r = 4 \/ r = 5 \/ r = 6 \/ r = 7 \/ r = 8 \/ r = 9
      \/ r = 10 \/ r = 11 \/ r = 12
  OBVIOUS
<1> USE DEF M!Table, M!Free, M!Part, M!Trigger, M!Create, M!Do, M!Seed
<1>2. CASE r = 1
  <2>1. (\E S : M!Upgrade0001Global \in Seq(S)) /\ \E S : M!Upgrade0001Tenant \in Seq(S)
    BY ScriptsAnywhere DEF Anywhere
  <2>2. /\ \A i \in DOMAIN M!Upgrade0001Global : M!Upgrade0001Global[i].op # "seed"
        /\ \A i \in DOMAIN M!Upgrade0001Tenant : M!Upgrade0001Tenant[i].op # "seed"
    BY DEF M!Upgrade0001Global, M!Upgrade0001Tenant
  <2>3. \A i \in DOMAIN M!Upgrade[r] : M!Upgrade[r][i].op # "seed"
    <3>1. M!Upgrade[r] = M!Upgrade0001Global \o M!Upgrade0001Tenant
      BY <1>2 DEF M!Upgrade
    <3> QED
      BY <2>1, <2>2, <3>1, OpsTogether
  <2> QED
    BY <1>2, <2>3 DEF M!What, Seeded
<1>3. CASE r = 2
  <2>1. (\E S : M!Upgrade0002Tables \in Seq(S)) /\ \E S : M!Upgrade0002Triggers \in Seq(S)
    BY ScriptsAnywhere DEF Anywhere
  <2>2. /\ \A i \in DOMAIN M!Upgrade0002Tables : M!Upgrade0002Tables[i].op # "seed"
        /\ \A i \in DOMAIN M!Upgrade0002Triggers : M!Upgrade0002Triggers[i].op # "seed"
    BY DEF M!Upgrade0002Tables, M!Upgrade0002Triggers
  <2>3. \A i \in DOMAIN M!Upgrade[r] : M!Upgrade[r][i].op # "seed"
    <3>1. M!Upgrade[r] = M!Upgrade0002Tables \o M!Upgrade0002Triggers
      BY <1>3 DEF M!Upgrade
    <3> QED
      BY <2>1, <2>2, <3>1, OpsTogether
  <2> QED
    BY <1>3, <2>3 DEF M!What, Seeded
<1>4. CASE r = 8
  <2> DEFINE shipping == M!Upgrade0008Shipping
             invoices == M!Upgrade0008Invoices
             payments == M!Upgrade0008Payments
  <2>1. /\ \E S : shipping \o invoices \in Seq(S)
        /\ (\E S : shipping \in Seq(S)) /\ (\E S : invoices \in Seq(S))
        /\ \E S : payments \in Seq(S)
    BY FirstPartsOf0008
  <2>2. /\ \A i \in DOMAIN shipping : shipping[i].op # "seed"
        /\ \A i \in DOMAIN invoices : invoices[i].op # "seed"
        /\ \A i \in DOMAIN payments : payments[i].op # "seed"
    BY DEF M!Upgrade0008Shipping, M!Upgrade0008Invoices, M!Upgrade0008Payments
  <2>3. M!Upgrade[r] = (shipping \o invoices) \o payments
    BY <1>4 DEF M!Upgrade
  <2> HIDE DEF shipping, invoices, payments
  <2>4. \A i \in DOMAIN (shipping \o invoices) : (shipping \o invoices)[i].op # "seed"
    BY <2>1, <2>2, OpsTogether
  <2>5. \A i \in DOMAIN M!Upgrade[r] : M!Upgrade[r][i].op # "seed"
    BY <2>1, <2>2, <2>3, <2>4, OpsTogether
  <2> QED
    BY <1>4, <2>5 DEF M!What, Seeded
<1>5. CASE r = 3
  <2>1. UNION M!What("seed", M!Upgrade0003) = Seeded[3]
    BY DEF M!What, Seeded, M!Upgrade0003
  <2> QED
    BY <1>5, <2>1 DEF M!Upgrade
<1>6. CASE r = 4
  <2>1. UNION M!What("seed", M!Upgrade0004) = Seeded[4]
    BY DEF M!What, Seeded, M!Upgrade0004
  <2> QED
    BY <1>6, <2>1 DEF M!Upgrade
<1>7. CASE r = 5
  <2>1. UNION M!What("seed", M!Upgrade0005) = Seeded[5]
    BY DEF M!What, Seeded, M!Upgrade0005
  <2> QED
    BY <1>7, <2>1 DEF M!Upgrade
<1>8. CASE r = 6
  <2>1. UNION M!What("seed", M!Upgrade0006) = Seeded[6]
    BY DEF M!What, Seeded, M!Upgrade0006
  <2> QED
    BY <1>8, <2>1 DEF M!Upgrade
<1>9. CASE r = 7
  <2>1. UNION M!What("seed", M!Upgrade0007) = Seeded[7]
    BY DEF M!What, Seeded, M!Upgrade0007
  <2> QED
    BY <1>9, <2>1 DEF M!Upgrade
<1>10. CASE r = 9
  <2>1. UNION M!What("seed", M!Upgrade0009) = Seeded[9]
    BY DEF M!What, Seeded, M!Upgrade0009
  <2> QED
    BY <1>10, <2>1 DEF M!Upgrade
<1>11. CASE r = 10
  <2>1. UNION M!What("seed", M!Upgrade0010) = Seeded[10]
    BY DEF M!What, Seeded, M!Upgrade0010, M!Catalog0010
  <2> QED
    BY <1>11, <2>1 DEF M!Upgrade
<1>12. CASE r = 11
  <2>1. UNION M!What("seed", M!Upgrade0011) = Seeded[11]
    BY DEF M!What, Seeded, M!Upgrade0011, M!Catalog0011
  <2> QED
    BY <1>12, <2>1 DEF M!Upgrade
<1>13. CASE r = 12
  <2>1. UNION M!What("seed", M!Upgrade0012) = Seeded[12]
    BY DEF M!What, Seeded, M!Upgrade0012, M!Catalog0012
  <2> QED
    BY <1>13, <2>1 DEF M!Upgrade
<1> QED
  BY <1>1, <1>2, <1>3, <1>4, <1>5, <1>6, <1>7, <1>8, <1>9, <1>10, <1>11, <1>12, <1>13

\* The operations of a kind are those of the scripts.
LEMMA OfKindIs ==
    ASSUME NEW op, NEW r \in 0..12, NEW o
    PROVE  o \in M!OfKind(op, r) <=>
              \E q \in 1..r : \E i \in DOMAIN M!Upgrade[q] :
                  M!Upgrade[q][i].op = op /\ o = M!Upgrade[q][i]
BY DEF M!OfKind

\* A script's places are numbers.
LEMMA UpgradePlaces ==
    ASSUME NEW q \in 1..12
    PROVE  DOMAIN M!Upgrade[q] \subseteq Int
<1>1. M!IsScript(M!Upgrade[q])
  BY UpgradeScripts DEF ScriptOf
<1> QED
  BY <1>1 DEF M!IsScript

\* No object has two operations that make it.
LEMMA OnlyMaker ==
    ASSUME NEW o \in M!OfKind("create", 12), NEW p \in M!OfKind("create", 12), o.what = p.what
    PROVE  o = p
<1>1. PICK q \in 1..12 : \E i \in DOMAIN M!Upgrade[q] : 
          M!Upgrade[q][i].op = "create" /\ o = M!Upgrade[q][i]
  BY OfKindIs
<1>1a. PICK i \in DOMAIN M!Upgrade[q] : M!Upgrade[q][i].op = "create" /\ o = M!Upgrade[q][i]
  BY <1>1
<1>2. PICK r \in 1..12 : \E j \in DOMAIN M!Upgrade[r] : 
          M!Upgrade[r][j].op = "create" /\ p = M!Upgrade[r][j]
  BY OfKindIs
<1>2a. PICK j \in DOMAIN M!Upgrade[r] : M!Upgrade[r][j].op = "create" /\ p = M!Upgrade[r][j]
  BY <1>2
<1>3. o.what \in Objects[q] /\ p.what \in Objects[r]
  BY <1>1a, <1>2a, UpgradeMakes DEF Makes, M!What
<1>4. q = r
  BY <1>3, OneRevision
<1>5. i = j
  <2>1. Tidy(M!Upgrade[q]) /\ i \in Int /\ j \in Int
    BY <1>4, UpgradeMakes, UpgradePlaces DEF Makes
  <2>2. i <= j \/ j <= i
    BY <2>1
  <2> QED
    BY <1>1a, <1>2a, <1>4, <2>1, <2>2 DEF Tidy
<1> QED
  BY <1>1a, <1>2a, <1>4, <1>5

\* The objects that the upgrades make, and the codes that they seed.
LEMMA MadeAre ==
    ASSUME NEW r \in 0..12
    PROVE  /\ {o.what : o \in M!OfKind("create", r)} = MadeUpTo(r)
           /\ UNION {o.what : o \in M!OfKind("seed", r)} = SeededUpTo(r)
           /\ M!OfKind("create", r) \subseteq M!OfKind("create", 12)
<1>1. \A q \in 1..r : q \in 1..12
  OBVIOUS
<1>2. {o.what : o \in M!OfKind("create", r)} = MadeUpTo(r)
  <2>1. ASSUME NEW o \in M!OfKind("create", r)
        PROVE  o.what \in MadeUpTo(r)
    <3>1. PICK q \in 1..r : \E i \in DOMAIN M!Upgrade[q] : 
              M!Upgrade[q][i].op = "create" /\ o = M!Upgrade[q][i]
      BY OfKindIs
    <3>1a. PICK i \in DOMAIN M!Upgrade[q] : M!Upgrade[q][i].op = "create" /\ o = M!Upgrade[q][i]
      BY <3>1
    <3>2. o.what \in Objects[q]
      BY <1>1, <3>1, <3>1a, UpgradeMakes DEF Makes, M!What
    <3> QED
      BY <3>2 DEF MadeUpTo
  <2>2. ASSUME NEW x \in MadeUpTo(r)
        PROVE  \E o \in M!OfKind("create", r) : x = o.what
    <3>1. PICK q \in 1..r : x \in Objects[q]
      BY DEF MadeUpTo
    <3>2. PICK i \in DOMAIN M!Upgrade[q] :
              M!Upgrade[q][i].op = "create" /\ x = M!Upgrade[q][i].what
      BY <1>1, <3>1, UpgradeMakes DEF Makes, M!What
    <3> QED
      BY <3>2, OfKindIs
  <2> QED
    BY <2>1, <2>2
<1>3. UNION {o.what : o \in M!OfKind("seed", r)} = SeededUpTo(r)
  <2>1. ASSUME NEW o \in M!OfKind("seed", r)
        PROVE  o.what \subseteq SeededUpTo(r)
    <3>1. PICK q \in 1..r : \E i \in DOMAIN M!Upgrade[q] : 
              M!Upgrade[q][i].op = "seed" /\ o = M!Upgrade[q][i]
      BY OfKindIs
    <3>1a. PICK i \in DOMAIN M!Upgrade[q] : M!Upgrade[q][i].op = "seed" /\ o = M!Upgrade[q][i]
      BY <3>1
    <3>2. o.what \subseteq UNION M!What("seed", M!Upgrade[q])
      BY <3>1, <3>1a DEF M!What
    <3> QED
      BY <1>1, <3>2, UpgradeSeeds DEF SeededUpTo
  <2>2. ASSUME NEW x \in SeededUpTo(r)
        PROVE  \E o \in M!OfKind("seed", r) : x \in o.what
    <3>1. PICK q \in 1..r : x \in UNION M!What("seed", M!Upgrade[q])
      BY <1>1, UpgradeSeeds DEF SeededUpTo
    <3>2. PICK i \in DOMAIN M!Upgrade[q] :
              M!Upgrade[q][i].op = "seed" /\ x \in M!Upgrade[q][i].what
      BY <3>1 DEF M!What
    <3> QED
      BY <3>2, OfKindIs
  <2> QED
    BY <2>1, <2>2
<1>4. M!OfKind("create", r) \subseteq M!OfKind("create", 12)
  BY <1>1, OfKindIs
<1> QED
  BY <1>2, <1>3, <1>4

\* An object of the last schema as the one operation that makes it describes it.
Made(x) ==
    LET o == CHOOSE o \in M!OfKind("create", 12) : o.what = x
    IN [needs |-> o.needs, of |-> o.of]

\* Fresh describes each object as the one operation that makes it.
LEMMA FreshAre ==
    ASSUME NEW r \in 0..12
    PROVE  /\ M!Fresh[r].schema = [x \in MadeUpTo(r) |-> Made(x)]
           /\ M!Fresh[r].codes = SeededUpTo(r)
<1> DEFINE of(x) == CHOOSE o \in M!OfKind("create", r) : o.what = x
<1>1. /\ M!Fresh[r].schema =
            [x \in MadeUpTo(r) |-> [needs |-> of(x).needs, of |-> of(x).of]]
      /\ M!Fresh[r].codes = SeededUpTo(r)
  BY ManyRevisions, MadeAre DEF M!Fresh
<1>2. ASSUME NEW x \in MadeUpTo(r)
      PROVE  [needs |-> of(x).needs, of |-> of(x).of] = Made(x)
  <2> DEFINE made == CHOOSE o \in M!OfKind("create", 12) : o.what = x
  <2>1. of(x) \in M!OfKind("create", r) /\ of(x).what = x
    BY MadeAre
  <2>2. of(x) \in M!OfKind("create", 12)
    BY <2>1, MadeAre
  <2>3. made \in M!OfKind("create", 12) /\ made.what = x
    BY <2>1, <2>2
  <2>4. of(x) = made
    BY <2>1, <2>2, <2>3, OnlyMaker
  <2> QED
    BY <2>4 DEF Made
<1> QED
  BY <1>1, <1>2

\* What a script's operations make is what the last schema has.
LEMMA MakerMakes ==
    ASSUME NEW q \in 1..12, NEW i \in DOMAIN M!Upgrade[q], M!Upgrade[q][i].op = "create"
    PROVE  LET o == M!Upgrade[q][i]
           IN Made(o.what) = [needs |-> o.needs, of |-> o.of]
<1> DEFINE o == M!Upgrade[q][i]
           made == CHOOSE p \in M!OfKind("create", 12) : p.what = o.what
<1>1. o \in M!OfKind("create", 12)
  BY OfKindIs
<1>2. made \in M!OfKind("create", 12) /\ made.what = o.what
  BY <1>1
<1>3. made = o
  BY <1>1, <1>2, OnlyMaker
<1> QED
  BY <1>3 DEF Made

\* An object of a schema has what it needs, and is part of something it needs or
\* of nothing.
LEMMA MadeNeeds ==
    ASSUME NEW r \in 0..12, NEW x \in MadeUpTo(r)
    PROVE  /\ Made(x).needs \subseteq MadeUpTo(r)
           /\ Made(x).of \in Made(x).needs \cup {None}
           /\ x # None
<1>1. PICK q \in 1..r : x \in Objects[q]
  BY DEF MadeUpTo
<1>2. q \in 1..12
  OBVIOUS
<1>3. PICK i \in DOMAIN M!Upgrade[q] :
          M!Upgrade[q][i].op = "create" /\ x = M!Upgrade[q][i].what
  BY <1>1, <1>2, UpgradeMakes DEF Makes, M!What
<1>4. /\ M!Upgrade[q][i].needs \subseteq MadeUpTo(q - 1) \cup Objects[q]
      /\ M!Upgrade[q][i].of \in M!Upgrade[q][i].needs \cup {None}
  BY <1>2, <1>3, UpgradeMakes DEF Makes
<1>5. MadeUpTo(q - 1) \cup Objects[q] \subseteq MadeUpTo(r)
  BY <1>1, <1>2 DEF MadeUpTo
<1>6. x # None
  BY <1>2, <1>3, OfKindIs, ManyRevisions, MigrationsAssumption
<1>7. Made(x) = [needs |-> M!Upgrade[q][i].needs, of |-> M!Upgrade[q][i].of]
  <2>1. Made(M!Upgrade[q][i].what) = [needs |-> M!Upgrade[q][i].needs, of |-> M!Upgrade[q][i].of]
    BY <1>2, <1>3, MakerMakes
  <2> QED
    BY <1>3, <2>1, Zenon
<1> QED
  BY <1>4, <1>5, <1>6, <1>7

\* A database with just these objects and codes.
Has(d, S, C) == d.schema = [x \in S |-> Made(x)] /\ d.codes = C

\* SchemaIs, of the objects and the codes up to a revision.
LEMMA SchemaIsAs ==
    ASSUME NEW d, d.rev \in 0..12, NEW todo, NEW S, NEW C,
           S = (MadeUpTo(d.rev) \ M!What("create", todo)) \cup M!What("drop", todo),
           S \subseteq MadeUpTo(12),
           C = (SeededUpTo(d.rev) \ (UNION M!What("seed", todo)))
                 \cup (UNION M!What("unseed", todo))
                 \cup IF "permissions" \in M!What("drop", todo) THEN SeededUpTo(9) ELSE {}
    PROVE  M!SchemaIs(d, todo) <=> Has(d, S, C)
<1>1. /\ DOMAIN M!Fresh[d.rev].schema = MadeUpTo(d.rev)
      /\ M!Fresh[d.rev].codes = SeededUpTo(d.rev) /\ M!Fresh[9].codes = SeededUpTo(9)
      /\ M!Fresh[M!LastRevision].schema = [x \in MadeUpTo(12) |-> Made(x)]
  BY FreshAre, ManyRevisions
<1>2. [x \in S |-> M!Fresh[M!LastRevision].schema[x]] = [x \in S |-> Made(x)]
  BY <1>1
<1> QED
  BY <1>1, <1>2 DEF M!SchemaIs, Has

\* Between revisions.
LEMMA SchemaBetween ==
    ASSUME NEW d, d.rev \in 0..12
    PROVE  M!SchemaIs(d, <<>>) <=> Has(d, MadeUpTo(d.rev), SeededUpTo(d.rev))
<1>1. \A op : M!What(op, <<>>) = {}
  BY DEF M!What
<1>2. MadeUpTo(d.rev) = (MadeUpTo(d.rev) \ M!What("create", <<>>)) \cup M!What("drop", <<>>)
  BY <1>1
<1>3. SeededUpTo(d.rev) = (SeededUpTo(d.rev) \ (UNION M!What("seed", <<>>)))
          \cup (UNION M!What("unseed", <<>>))
          \cup IF "permissions" \in M!What("drop", <<>>) THEN SeededUpTo(9) ELSE {}
  BY <1>1
<1>4. MadeUpTo(d.rev) \subseteq MadeUpTo(12)
  BY DEF MadeUpTo
<1> QED
  BY <1>2, <1>3, <1>4, SchemaIsAs

\* UpScript and DownScript, of the objects and the codes up to a revision.
Up(s, r) ==
    /\ \A i \in DOMAIN s : s[i].op \notin {"drop", "unseed"}
    /\ \A i \in DOMAIN s : s[i].op = "create" =>
          /\ s[i].what \in MadeUpTo(r) /\ s[i].needs \subseteq MadeUpTo(r)
          /\ Made(s[i].what) = [needs |-> s[i].needs, of |-> s[i].of]
          /\ s[i].what = "ck_sales_orders_shipped_has_shipped_at" => r = 8
    /\ Tidy(s)
    /\ \A i \in DOMAIN s : s[i].op = "seed" => s[i].what \subseteq SeededUpTo(r)

Down(s, r) ==
    /\ \A i \in DOMAIN s : s[i].op \in {"drop", "unseed"}
    /\ \A i \in DOMAIN s : s[i].op = "drop" => s[i].what \in MadeUpTo(12) \ MadeUpTo(r)
    /\ \A i, j \in DOMAIN s : i <= j =>
          /\ s[i].op = "drop" /\ s[j].op = "drop" =>
                s[i].what \notin Made(s[j].what).needs /\ (i # j => s[j].what # s[i].what)
          /\ s[i].op = "unseed" /\ s[j].op = "unseed" => i = j
    /\ \A i \in DOMAIN s : s[i].op = "unseed" =>
          s[i].what \cap SeededUpTo(r) = {} /\ "permissions" \notin M!What("drop", s)
    /\ "permissions" \in M!What("drop", s) => SeededUpTo(r) = {}

LEMMA UpScriptAs ==
    ASSUME NEW r \in 0..12, NEW s
    PROVE  M!UpScript(s, r) <=> Up(s, r)
<1>1. /\ DOMAIN M!Fresh[r].schema = MadeUpTo(r) /\ M!Fresh[r].codes = SeededUpTo(r)
      /\ \A x \in MadeUpTo(r) : M!Fresh[M!LastRevision].schema[x] = Made(x)
  <2>1. MadeUpTo(r) \subseteq MadeUpTo(12)
    BY DEF MadeUpTo
  <2> QED
    BY <2>1, FreshAre, ManyRevisions
<1> QED
  BY <1>1 DEF M!UpScript, Tidy, Up

LEMMA DownScriptAs ==
    ASSUME NEW r \in 0..12, NEW s
    PROVE  M!DownScript(s, r) <=> Down(s, r)
<1>1. /\ DOMAIN M!Fresh[r].schema = MadeUpTo(r) /\ M!Fresh[r].codes = SeededUpTo(r)
      /\ DOMAIN M!Fresh[M!LastRevision].schema = MadeUpTo(12)
      /\ \A x \in MadeUpTo(12) : M!Fresh[M!LastRevision].schema[x] = Made(x)
  BY FreshAre, ManyRevisions
<1> QED
  BY <1>1 DEF M!DownScript, Down

\* Each upgrade is in order, and each downgrade.
LEMMA UpgradeIsUp ==
    ASSUME NEW r \in 1..12
    PROVE  Up(M!Upgrade[r], r)
<1> DEFINE s == M!Upgrade[r]
<1>1. Makes(s, MadeUpTo(r - 1), Objects[r]) /\ MadeUpTo(r) = MadeUpTo(r - 1) \cup Objects[r]
  BY UpgradeMakes, RevisionAdds
<1>2. \A i \in DOMAIN s : s[i].op = "create" =>
          Made(s[i].what) = [needs |-> s[i].needs, of |-> s[i].of] /\ s[i].what \in Objects[r]
  BY <1>1, MakerMakes DEF Makes, M!What
<1>3. "ck_sales_orders_shipped_has_shipped_at" \in Objects[r] => r = 8
  <2>1. "ck_sales_orders_shipped_has_shipped_at" \in Objects[8]
    BY DEF Objects, Objects0008, Objects0008Shipping
  <2> QED
    BY <2>1, OneRevision
<1>4. \A i \in DOMAIN s : s[i].op = "seed" => s[i].what \subseteq SeededUpTo(r)
  <2>1. UNION M!What("seed", s) \subseteq SeededUpTo(r)
    BY UpgradeSeeds, RevisionAdds
  <2> QED
    BY <2>1 DEF M!What
<1> HIDE DEF s
<1>5. Up(s, r)
  BY <1>1, <1>2, <1>3, <1>4 DEF Makes, Up
<1> QED
  BY <1>5 DEF s

\* The table of the codes is of 0009.
LEMMA PermissionsAre == \A r \in 1..12 : "permissions" \in Objects[r] => r = 9
<1>1. "permissions" \in Objects[9]
  BY DEF Objects, Objects0009
<1> QED
  BY <1>1, OneRevision

LEMMA DowngradeIsDown ==
    ASSUME NEW r \in 1..12
    PROVE  Down(M!Downgrade[r], r - 1)
<1> DEFINE s == M!Downgrade[r]
           C == IF r = 9 THEN {} ELSE Seeded[r]
<1>1. Unmakes(s, Objects[r], C) /\ Undoes(s, M!Upgrade[r])
  BY DowngradeUnmakes
<1>2. /\ MadeUpTo(r - 1) \cap Objects[r] = {} /\ SeededUpTo(r - 1) \cap Seeded[r] = {}
      /\ Objects[r] \subseteq MadeUpTo(12)
  BY RevisionAdds, UpToGrows
<1>3. \A i \in DOMAIN s : s[i].op = "drop" => s[i].what \in Objects[r]
  BY <1>1 DEF Unmakes, M!What
<1>4. ASSUME NEW i \in DOMAIN s, NEW j \in DOMAIN s, i <= j, s[i].op = "drop", s[j].op = "drop"
      PROVE  s[i].what \notin Made(s[j].what).needs
  <2>1. PICK k \in DOMAIN M!Upgrade[r] :
            M!Upgrade[r][k].op = "create" /\ s[j].what = M!Upgrade[r][k].what
    BY <1>3, <1>4, UpgradeMakes DEF Makes, M!What
  <2>2. s[i].what \notin M!Upgrade[r][k].needs
    BY <1>1, <1>4, <2>1 DEF Undoes
  <2>3. Made(M!Upgrade[r][k].what)
           = [needs |-> M!Upgrade[r][k].needs, of |-> M!Upgrade[r][k].of]
    BY <2>1, MakerMakes, Zenon
  <2> QED
    BY <2>1, <2>2, <2>3
<1>5. \A i \in DOMAIN s : s[i].op = "unseed" => s[i].what \subseteq C
  BY <1>1 DEF Unmakes, M!What
<1>6. "permissions" \in M!What("drop", s) => r = 9
  BY <1>1, PermissionsAre DEF Unmakes
<1>7. r = 9 => SeededUpTo(r - 1) = {}
  BY SeededUpToAre
<1>8. r = 9 => \A i \in DOMAIN s : s[i].op # "unseed"
  BY DEF M!Downgrade, M!Downgrade0009, M!Drop
<1> HIDE DEF s
<1>9. Down(s, r - 1)
  BY <1>1, <1>2, <1>3, <1>4, <1>5, <1>6, <1>7, <1>8 DEF Unmakes, Down
<1> QED
  BY <1>9 DEF s

\* The schema when a script begins.
LEMMA UpgradeStarts ==
    ASSUME NEW r \in 1..12, NEW d, NEW e, d.rev = r - 1, M!SchemaIs(d, <<>>),
           e.rev = r, e.schema = d.schema, e.codes = d.codes
    PROVE  M!SchemaIs(e, M!Upgrade[r])
<1> DEFINE s == M!Upgrade[r]
<1>1. Has(d, MadeUpTo(r - 1), SeededUpTo(r - 1))
  BY SchemaBetween
<1>2. Makes(s, MadeUpTo(r - 1), Objects[r]) /\ UNION M!What("seed", s) = Seeded[r]
  BY UpgradeMakes, UpgradeSeeds
<1>3. M!What("drop", s) = {} /\ M!What("unseed", s) = {} /\ M!What("create", s) = Objects[r]
  BY <1>2 DEF Makes, M!What
<1> HIDE DEF s
<1>4. MadeUpTo(e.rev - 1) = (MadeUpTo(e.rev) \ M!What("create", s)) \cup M!What("drop", s)
  BY <1>3, RevisionAdds
<1>5. SeededUpTo(e.rev - 1) = (SeededUpTo(e.rev) \ (UNION M!What("seed", s)))
          \cup (UNION M!What("unseed", s))
          \cup IF "permissions" \in M!What("drop", s) THEN SeededUpTo(9) ELSE {}
  <2>1. SeededUpTo(r) \ Seeded[r] = SeededUpTo(r - 1)
    BY RevisionAdds
  <2>2. /\ UNION M!What("seed", s) = Seeded[r] /\ UNION M!What("unseed", s) = {}
        /\ "permissions" \notin M!What("drop", s)
    BY <1>2, <1>3
  <2> QED
    BY <2>1, <2>2
<1>6. MadeUpTo(e.rev - 1) \subseteq MadeUpTo(12) /\ e.rev \in 0..12
  BY DEF MadeUpTo
<1>7. Has(e, MadeUpTo(e.rev - 1), SeededUpTo(e.rev - 1))
  BY <1>1 DEF Has
<1>8. M!SchemaIs(e, s)
  BY <1>4, <1>5, <1>6, <1>7, SchemaIsAs
<1> QED
  BY <1>8 DEF s

LEMMA DowngradeStarts ==
    ASSUME NEW r \in 1..12, NEW d, NEW e, d.rev = r, M!SchemaIs(d, <<>>),
           e.rev = r - 1, e.schema = d.schema, e.codes = d.codes
    PROVE  M!SchemaIs(e, M!Downgrade[r])
<1> DEFINE s == M!Downgrade[r]
           C == IF r = 9 THEN {} ELSE Seeded[r]
<1>1. Has(d, MadeUpTo(r), SeededUpTo(r))
  BY SchemaBetween
<1>2. Unmakes(s, Objects[r], C)
  BY DowngradeUnmakes
<1>3. /\ M!What("drop", s) = Objects[r] /\ UNION M!What("unseed", s) = C
      /\ M!What("create", s) = {} /\ M!What("seed", s) = {}
  BY <1>2 DEF Unmakes, M!What
<1> HIDE DEF s
<1>4. MadeUpTo(r) = (MadeUpTo(r - 1) \ M!What("create", s)) \cup M!What("drop", s)
  BY <1>3, RevisionAdds
<1>5. SeededUpTo(r) = (SeededUpTo(r - 1) \ (UNION M!What("seed", s)))
          \cup (UNION M!What("unseed", s))
          \cup IF "permissions" \in M!What("drop", s) THEN SeededUpTo(9) ELSE {}
  <2>1. CASE r = 9
    <3>1. "permissions" \in Objects[9] /\ SeededUpTo(8) = {}
      BY SeededUpToAre DEF Objects, Objects0009
    <3>2. /\ UNION M!What("unseed", s) = {} /\ SeededUpTo(r - 1) = {}
          /\ "permissions" \in M!What("drop", s)
      BY <1>3, <2>1, <3>1
    <3>3. SeededUpTo(r)
             = IF "permissions" \in M!What("drop", s) THEN SeededUpTo(9) ELSE {}
      BY <2>1, <3>2
    <3> QED
      BY <3>2, <3>3
  <2>2. CASE r # 9
    <3>1. /\ UNION M!What("unseed", s) = Seeded[r] /\ "permissions" \notin M!What("drop", s)
          /\ UNION M!What("seed", s) = {}
      BY <1>3, <2>2, PermissionsAre
    <3>2. SeededUpTo(r) = SeededUpTo(r - 1) \cup Seeded[r]
      BY RevisionAdds
    <3> QED
      BY <3>1, <3>2
  <2> QED
    BY <2>1, <2>2
<1>6. MadeUpTo(r) \subseteq MadeUpTo(12) /\ r - 1 \in 0..12
  BY DEF MadeUpTo
<1>7. Has(e, MadeUpTo(r), SeededUpTo(r))
  BY <1>1 DEF Has
<1>8. M!SchemaIs(e, s)
  BY <1>4, <1>5, <1>6, <1>7, SchemaIsAs
<1> QED
  BY <1>8 DEF s

\* Of a script the first operation and the rest.
LEMMA HeadAndTail ==
    ASSUME NEW s, M!IsScript(s), s # <<>>
    PROVE  /\ 1 \in DOMAIN s /\ \A i \in DOMAIN s : i \in Nat /\ 1 <= i
           /\ \A i \in DOMAIN Tail(s) :
                 i \in Nat /\ 1 <= i /\ i + 1 \in DOMAIN s /\ Tail(s)[i] = s[i + 1]
           /\ \A i \in DOMAIN s : i # 1 => i - 1 \in DOMAIN Tail(s) /\ Tail(s)[i - 1] = s[i]
<1>1. PICK S : s \in Seq(S)
  BY DEF M!IsScript
<1>2. /\ Len(s) \in Nat /\ Len(s) # 0 /\ DOMAIN s = 1..Len(s)
      /\ Tail(s) \in Seq(S) /\ Len(Tail(s)) = Len(s) - 1
      /\ \A i \in 1..(Len(s) - 1) : Tail(s)[i] = s[i + 1]
  BY <1>1
<1>3. DOMAIN Tail(s) = 1..(Len(s) - 1)
  BY <1>2
<1> QED
  BY <1>2, <1>3

\* What a script is about is what its first operation is about, and the rest.
LEMMA WhatIs ==
    ASSUME NEW s, M!IsScript(s), s # <<>>, NEW op
    PROVE  M!What(op, s) = (IF s[1].op = op THEN {s[1].what} ELSE {}) \cup M!What(op, Tail(s))
<1>1. M!What(op, Tail(s)) \subseteq M!What(op, s)
  BY HeadAndTail DEF M!What
<1>2. ASSUME NEW i \in DOMAIN s, s[i].op = op, i # 1
      PROVE  s[i].what \in M!What(op, Tail(s))
  <2>1. i - 1 \in DOMAIN Tail(s) /\ Tail(s)[i - 1] = s[i]
    BY <1>2, HeadAndTail
  <2> QED
    BY <1>2, <2>1 DEF M!What
<1>3. s[1].op = op => s[1].what \in M!What(op, s)
  BY HeadAndTail DEF M!What
<1>4. \A x \in M!What(op, s) : (s[1].op = op /\ x = s[1].what) \/ x \in M!What(op, Tail(s))
  BY <1>2 DEF M!What
<1> QED
  BY <1>1, <1>3, <1>4

\* What is left of a script in order is in order.
LEMMA UpScriptGoesOn ==
    ASSUME NEW r \in 0..12, NEW s, M!IsScript(s), s # <<>>, Up(s, r)
    PROVE  Up(Tail(s), r)
<1> DEFINE t == Tail(s)
<1>1. \A i \in DOMAIN t : i \in Nat /\ i + 1 \in DOMAIN s /\ t[i] = s[i + 1]
  BY HeadAndTail
<1> HIDE DEF t
<1>2. Tidy(t)
  <2> SUFFICES ASSUME NEW i \in DOMAIN t, NEW j \in DOMAIN t, i <= j
               PROVE  /\ t[i].op = "create" /\ t[j].op = "create" =>
                            t[j].what \notin t[i].needs /\ (i # j => t[j].what # t[i].what)
                      /\ t[i].op = "create" /\ t[i].what = "ck_sales_orders_shipped_has_shipped_at"
                            => t[j].op # "backfill"
                      /\ t[i].op = "seed" /\ t[j].op = "seed" => i = j
    BY DEF Tidy
  <2>1. i + 1 <= j + 1 /\ (i + 1 = j + 1 => i = j)
    BY <1>1
  <2>2. Tidy(s)
    BY DEF Up
  <2> QED
    BY <1>1, <2>1, <2>2 DEF Tidy
<1>3. Up(t, r)
  BY <1>1, <1>2 DEF Up
<1> QED
  BY <1>3 DEF t

LEMMA DownScriptGoesOn ==
    ASSUME NEW r \in 0..12, NEW s, M!IsScript(s), s # <<>>, Down(s, r)
    PROVE  Down(Tail(s), r)
<1> DEFINE t == Tail(s)
<1>1. \A i \in DOMAIN t : i \in Nat /\ i + 1 \in DOMAIN s /\ t[i] = s[i + 1]
  BY HeadAndTail
<1>2. M!What("drop", t) \subseteq M!What("drop", s)
  BY WhatIs
<1> HIDE DEF t
<1>3. ASSUME NEW i \in DOMAIN t, NEW j \in DOMAIN t, i <= j
      PROVE  /\ t[i].op = "drop" /\ t[j].op = "drop" =>
                    t[i].what \notin Made(t[j].what).needs /\ (i # j => t[j].what # t[i].what)
             /\ t[i].op = "unseed" /\ t[j].op = "unseed" => i = j
  <2>1. i + 1 <= j + 1 /\ (i + 1 = j + 1 => i = j)
    BY <1>1, <1>3
  <2> QED
    BY <1>1, <2>1 DEF Down
<1>4. Down(t, r)
  BY <1>1, <1>2, <1>3 DEF Down
<1> QED
  BY <1>4 DEF t

\* The objects and the codes that a database should have in the middle of a script.
Here(d, todo) == (MadeUpTo(d.rev) \ M!What("create", todo)) \cup M!What("drop", todo)
CodesHere(d, todo) ==
    (SeededUpTo(d.rev) \ (UNION M!What("seed", todo))) \cup (UNION M!What("unseed", todo))
        \cup IF "permissions" \in M!What("drop", todo) THEN SeededUpTo(9) ELSE {}

\* The first operation may be done, and leaves what the rest needs.
AtWork(d, todo) ==
    /\ d.rev \in 0..12 /\ M!IsScript(todo) /\ todo # <<>> /\ M!SchemaIs(d, todo)

\* The schema in the middle of a script, as a set of objects.
LEMMA SchemaHere ==
    ASSUME NEW d, d.rev \in 0..12, NEW todo,
           Up(todo, d.rev) \/ Down(todo, d.rev)
    PROVE  /\ M!SchemaIs(d, todo) <=> Has(d, Here(d, todo), CodesHere(d, todo))
           /\ M!What("drop", todo) \subseteq MadeUpTo(12)
<1>1. M!What("drop", todo) \subseteq MadeUpTo(12)
  <2>1. CASE Up(todo, d.rev)
    BY <2>1 DEF Up, M!What
  <2>2. CASE Down(todo, d.rev)
    BY <2>2 DEF Down, M!What
  <2> QED
    BY <2>1, <2>2
<1>2. MadeUpTo(d.rev) \subseteq MadeUpTo(12)
  BY DEF MadeUpTo
<1>3. Here(d, todo) \subseteq MadeUpTo(12)
  BY <1>1, <1>2 DEF Here
<1>4. /\ Here(d, todo) = (MadeUpTo(d.rev) \ M!What("create", todo)) \cup M!What("drop", todo)
      /\ CodesHere(d, todo) =
            (SeededUpTo(d.rev) \ (UNION M!What("seed", todo))) \cup (UNION M!What("unseed", todo))
              \cup IF "permissions" \in M!What("drop", todo) THEN SeededUpTo(9) ELSE {}
  BY DEF Here, CodesHere
<1> QED
  BY <1>1, <1>3, <1>4, SchemaIsAs

\* An upgrade makes what is not there, and has what it needs.
LEMMA CreateCan ==
    ASSUME NEW d, NEW todo, AtWork(d, todo), Up(todo, d.rev), todo[1].op = "create"
    PROVE  /\ todo[1].what \notin DOMAIN d.schema /\ todo[1].needs \subseteq DOMAIN d.schema
           /\ todo[1].what \in MadeUpTo(d.rev) /\ todo[1].what \notin M!What("create", Tail(todo))
           /\ Made(todo[1].what) = [needs |-> todo[1].needs, of |-> todo[1].of]
<1> DEFINE o == todo[1]
<1>1. /\ 1 \in DOMAIN todo /\ \A i \in DOMAIN todo : i \in Nat /\ 1 <= i
  BY HeadAndTail DEF AtWork
<1>2. M!What("drop", todo) = {}
  BY DEF Up, AtWork, M!What
<1>3. DOMAIN d.schema = MadeUpTo(d.rev) \ M!What("create", todo)
  <2>1. Has(d, Here(d, todo), CodesHere(d, todo))
    BY SchemaHere DEF AtWork
  <2> QED
    BY <1>2, <2>1 DEF Has, Here
<1>4. o.what \in M!What("create", todo)
  BY <1>1 DEF M!What
<1>5. o.needs \cap M!What("create", todo) = {}
  BY <1>1 DEF Up, AtWork, M!What, Tidy
<1>6. /\ o.needs \subseteq MadeUpTo(d.rev) /\ o.what \in MadeUpTo(d.rev)
      /\ Made(o.what) = [needs |-> o.needs, of |-> o.of]
  BY <1>1 DEF Up, AtWork
<1>7. o.what \notin M!What("create", Tail(todo))
  <2> SUFFICES ASSUME NEW i \in DOMAIN Tail(todo), Tail(todo)[i].op = "create",
                      Tail(todo)[i].what = o.what
               PROVE  FALSE
    BY DEF M!What
  <2>1. i + 1 \in DOMAIN todo /\ Tail(todo)[i] = todo[i + 1] /\ i \in Nat /\ 1 <= i + 1 /\ 1 # i + 1
    BY HeadAndTail DEF AtWork
  <2> QED
    BY <1>1, <2>1 DEF Up, AtWork, Tidy
<1> QED
  BY <1>3, <1>4, <1>5, <1>6, <1>7

\* A downgrade drops what is there, once nothing needs it.
LEMMA DropCan ==
    ASSUME NEW d, NEW todo, AtWork(d, todo), Down(todo, d.rev), todo[1].op = "drop"
    PROVE  /\ todo[1].what \in DOMAIN d.schema /\ M!PartsOf(d, todo[1].what) = {}
           /\ \A y \in DOMAIN d.schema : todo[1].what \notin d.schema[y].needs
           /\ todo[1].what \notin MadeUpTo(d.rev) /\ todo[1].what \notin M!What("drop", Tail(todo))
<1> DEFINE x == todo[1].what
<1>1. /\ 1 \in DOMAIN todo /\ \A i \in DOMAIN todo : i \in Nat /\ 1 <= i
  BY HeadAndTail DEF AtWork
<1>2. M!What("create", todo) = {}
  BY DEF AtWork, Down, M!What
<1>3. d.schema = [y \in MadeUpTo(d.rev) \cup M!What("drop", todo) |-> Made(y)]
  <2>1. Has(d, Here(d, todo), CodesHere(d, todo))
    BY SchemaHere DEF AtWork
  <2>2. Here(d, todo) = MadeUpTo(d.rev) \cup M!What("drop", todo)
    BY <1>2 DEF Here
  <2> QED
    BY <2>1, <2>2 DEF Has
<1>4. x \in M!What("drop", todo)
  BY <1>1 DEF M!What
<1>5. x \in MadeUpTo(12) /\ x \notin MadeUpTo(d.rev)
  BY <1>1 DEF Down
<1>6. ASSUME NEW y \in DOMAIN d.schema
      PROVE  x \notin Made(y).needs /\ x # Made(y).of
  <2>1. x # None
    BY <1>5, MadeNeeds
  <2>2. x \notin Made(y).needs /\ Made(y).of \in Made(y).needs \cup {None}
    <3>1. CASE y \in MadeUpTo(d.rev)
      BY <1>5, <3>1, MadeNeeds DEF AtWork
    <3>2. CASE y \in M!What("drop", todo)
      <4>1. PICK j \in DOMAIN todo : todo[j].op = "drop" /\ y = todo[j].what
        BY <3>2 DEF M!What
      <4>2. y \in MadeUpTo(12) /\ x \notin Made(y).needs
        BY <1>1, <4>1 DEF Down
      <4> QED
        BY <4>2, MadeNeeds
    <3> QED
      BY <1>3, <1>6, <3>1, <3>2
  <2> QED
    BY <2>1, <2>2
<1>7. x \notin M!What("drop", Tail(todo))
  <2> SUFFICES ASSUME NEW i \in DOMAIN Tail(todo), Tail(todo)[i].op = "drop", Tail(todo)[i].what = x
               PROVE  FALSE
    BY DEF M!What
  <2>1. i + 1 \in DOMAIN todo /\ Tail(todo)[i] = todo[i + 1] /\ i \in Nat /\ 1 <= i + 1 /\ 1 # i + 1
    BY HeadAndTail DEF AtWork
  <2> QED
    BY <1>1, <2>1 DEF Down
<1>8. \A y \in DOMAIN d.schema : x \notin d.schema[y].needs /\ d.schema[y].of # x
  BY <1>3, <1>6
<1>9. M!PartsOf(d, x) = {}
  BY <1>8 DEF M!PartsOf
<1> QED
  BY <1>3, <1>4, <1>5, <1>7, <1>8, <1>9

\* What a seed puts in is not there, and what is taken back is.
LEMMA SeedCan ==
    ASSUME NEW d, NEW todo, AtWork(d, todo), Up(todo, d.rev), todo[1].op = "seed"
    PROVE  /\ todo[1].what \subseteq SeededUpTo(d.rev) /\ M!What("seed", Tail(todo)) = {}
           /\ d.codes = SeededUpTo(d.rev) \ todo[1].what
<1>1. /\ 1 \in DOMAIN todo /\ \A i \in DOMAIN todo : i \in Nat /\ 1 <= i
  BY HeadAndTail DEF AtWork
<1>2. M!What("drop", todo) = {} /\ M!What("unseed", todo) = {}
  BY DEF Up, M!What
<1>3. M!What("seed", Tail(todo)) = {}
  <2> SUFFICES ASSUME NEW i \in DOMAIN Tail(todo), Tail(todo)[i].op = "seed"
               PROVE  FALSE
    BY DEF M!What
  <2>1. i + 1 \in DOMAIN todo /\ Tail(todo)[i] = todo[i + 1] /\ i \in Nat /\ 1 <= i + 1 /\ 1 # i + 1
    BY HeadAndTail DEF AtWork
  <2> QED
    BY <1>1, <2>1 DEF Up, Tidy
<1>4. M!What("seed", todo) = {todo[1].what}
  <2>1. M!What("seed", todo) = {todo[1].what} \cup {}
    BY <1>3, WhatIs DEF AtWork
  <2> QED
    BY <2>1
<1>5. Has(d, Here(d, todo), CodesHere(d, todo))
  BY SchemaHere DEF AtWork
<1>6. d.codes = SeededUpTo(d.rev) \ todo[1].what
  <2>1. UNION M!What("seed", todo) = todo[1].what /\ UNION M!What("unseed", todo) = {}
        /\ "permissions" \notin M!What("drop", todo)
    BY <1>2, <1>4
  <2> QED
    BY <1>5, <2>1 DEF Has, CodesHere
<1> QED
  BY <1>1, <1>3, <1>6 DEF Up

LEMMA UnseedCan ==
    ASSUME NEW d, NEW todo, AtWork(d, todo), Down(todo, d.rev), todo[1].op = "unseed"
    PROVE  /\ todo[1].what \cap SeededUpTo(d.rev) = {} /\ M!What("unseed", Tail(todo)) = {}
           /\ "permissions" \notin M!What("drop", todo)
           /\ d.codes = SeededUpTo(d.rev) \cup todo[1].what
<1>1. /\ 1 \in DOMAIN todo /\ \A i \in DOMAIN todo : i \in Nat /\ 1 <= i
  BY HeadAndTail DEF AtWork
<1>2. M!What("seed", todo) = {} /\ "permissions" \notin M!What("drop", todo)
  BY <1>1 DEF Down, M!What
<1>3. M!What("unseed", Tail(todo)) = {}
  <2> SUFFICES ASSUME NEW i \in DOMAIN Tail(todo), Tail(todo)[i].op = "unseed"
               PROVE  FALSE
    BY DEF M!What
  <2>1. i + 1 \in DOMAIN todo /\ Tail(todo)[i] = todo[i + 1] /\ i \in Nat /\ 1 <= i + 1 /\ 1 # i + 1
    BY HeadAndTail DEF AtWork
  <2> QED
    BY <1>1, <2>1 DEF Down
<1>4. M!What("unseed", todo) = {todo[1].what}
  <2>1. M!What("unseed", todo) = {todo[1].what} \cup {}
    BY <1>3, WhatIs DEF AtWork
  <2> QED
    BY <2>1
<1>5. Has(d, Here(d, todo), CodesHere(d, todo))
  BY SchemaHere DEF AtWork
<1>6. d.codes = SeededUpTo(d.rev) \cup todo[1].what
  <2>1. UNION M!What("unseed", todo) = todo[1].what /\ UNION M!What("seed", todo) = {}
    BY <1>2, <1>4
  <2> QED
    BY <1>2, <1>5, <2>1 DEF Has, CodesHere
<1> QED
  BY <1>1, <1>2, <1>3, <1>6 DEF Down

\* The schema and the codes after an operation.
SchemaAfter(d, o, e) ==
    /\ e.rev = d.rev
    /\ o.op = "create" =>
          /\ e.schema = [x \in DOMAIN d.schema \cup {o.what} |->
                           IF x = o.what THEN [needs |-> o.needs, of |-> o.of] ELSE d.schema[x]]
          /\ e.codes = d.codes
    /\ o.op = "drop" =>
          /\ e.schema = [x \in DOMAIN d.schema \ ({o.what} \cup M!PartsOf(d, o.what)) |-> d.schema[x]]
          /\ e.codes = IF o.what = "permissions" THEN {} ELSE d.codes
    /\ o.op = "seed" => e.schema = d.schema /\ e.codes = d.codes \cup o.what
    /\ o.op = "unseed" => e.schema = d.schema /\ e.codes = d.codes \ o.what
    /\ o.op \notin {"create", "drop", "seed", "unseed"} =>
          e.schema = d.schema /\ e.codes = d.codes

\* After comes to that.
LEMMA AfterIs ==
    ASSUME NEW d, M!DatabaseType(d), NEW o, NEW e \in M!After(d, o)
    PROVE  SchemaAfter(d, o, e)
<1> USE DEF M!DatabaseType, SchemaAfter
<1>1. CASE o.op = "create"
  <2> DEFINE schema == [x \in DOMAIN d.schema \cup {o.what} |->
                           IF x = o.what THEN [needs |-> o.needs, of |-> o.of] ELSE d.schema[x]]
  <2>1. e = [d EXCEPT !.schema = schema]
    BY <1>1 DEF M!After
  <2> HIDE DEF schema
  <2>2. e.rev = d.rev /\ e.schema = schema /\ e.codes = d.codes
    BY <2>1
  <2> QED
    BY <1>1, <2>2 DEF schema
<1>2. CASE o.op = "drop"
  <2> DEFINE f == M!WithoutRows(d, o.what)
             schema == [x \in DOMAIN d.schema \ ({o.what} \cup M!PartsOf(d, o.what)) |-> d.schema[x]]
  <2>1. /\ f.rev = d.rev /\ f.schema = d.schema
        /\ f.codes = IF o.what = "permissions" THEN {} ELSE d.codes
        /\ f = [rev |-> f.rev, schema |-> f.schema, label |-> f.label, codes |-> f.codes,
                orders |-> f.orders, shipped |-> f.shipped, events |-> f.events,
                synthetic |-> f.synthetic]
    BY DEF M!WithoutRows
  <2> HIDE DEF f
  <2>2. e = [f EXCEPT !.schema = M!Restrict(f.schema,
                DOMAIN f.schema \ ({o.what} \cup M!PartsOf(d, o.what)))]
    BY <1>2, <2>1 DEF M!After, f
  <2>3. M!Restrict(f.schema, DOMAIN f.schema \ ({o.what} \cup M!PartsOf(d, o.what))) = schema
    BY <2>1 DEF M!Restrict
  <2> HIDE DEF schema
  <2>4. e.rev = d.rev /\ e.schema = schema
        /\ e.codes = IF o.what = "permissions" THEN {} ELSE d.codes
    BY <2>1, <2>2, <2>3
  <2> QED
    BY <1>2, <2>4 DEF schema
<1>3. CASE o.op = "seed"
  BY <1>3 DEF M!After
<1>4. CASE o.op = "unseed"
  BY <1>4 DEF M!After
<1>5. CASE o.op \notin {"create", "drop", "seed", "unseed"}
  <2>1. CASE o.op = "label"
    <3>1. PICK label : e = [d EXCEPT !.label = label]
      BY <2>1 DEF M!After
    <3> QED
      BY <1>5, <3>1
  <2>2. CASE o.op = "retire"
    <3>1. PICK synthetic : e = [d EXCEPT !.synthetic = synthetic]
      BY <2>2 DEF M!After
    <3> QED
      BY <1>5, <3>1
  <2>3. CASE o.op = "backfill"
    <3>1. PICK shipped : e = [d EXCEPT !.shipped = shipped]
      BY <2>3 DEF M!After, M!Backfilled
    <3> QED
      BY <1>5, <3>1
  <2>4. CASE o.op \notin {"label", "retire", "backfill"}
    <3>1. e = d
      BY <1>5, <2>4 DEF M!After
    <3> QED
      BY <1>5, <3>1
  <2> QED
    BY <2>1, <2>2, <2>3, <2>4
<1> QED
  BY <1>1, <1>2, <1>3, <1>4, <1>5

\* An operation of an upgrade leaves what the rest of it expects.
LEMMA UpgradeOperation ==
    ASSUME NEW d, M!DatabaseType(d), NEW todo, AtWork(d, todo), Up(todo, d.rev),
           NEW e \in M!After(d, todo[1])
    PROVE  Has(e, Here(e, Tail(todo)), CodesHere(e, Tail(todo)))
<1> DEFINE o == todo[1]
           rest == Tail(todo)
<1>1. /\ e.rev = d.rev /\ M!IsScript(todo) /\ todo # <<>>
      /\ Has(d, Here(d, todo), CodesHere(d, todo)) /\ SchemaAfter(d, o, e)
  <2>1. SchemaAfter(d, o, e)
    BY AfterIs
  <2> QED
    BY <2>1, SchemaHere DEF AtWork, SchemaAfter
<1>2. /\ M!What("drop", todo) = {} /\ M!What("unseed", todo) = {}
      /\ M!What("drop", rest) = {} /\ M!What("unseed", rest) = {}
      /\ o.op \notin {"drop", "unseed"}
  <2>1. M!What("drop", todo) = {} /\ M!What("unseed", todo) = {} /\ o.op \notin {"drop", "unseed"}
    BY <1>1, HeadAndTail DEF Up, M!What
  <2>2. M!What("drop", rest) \subseteq M!What("drop", todo)
    BY <1>1, WhatIs
  <2>3. M!What("unseed", rest) \subseteq M!What("unseed", todo)
    BY <1>1, WhatIs
  <2> QED
    BY <2>1, <2>2, <2>3
<1>3. /\ DOMAIN d.schema = MadeUpTo(d.rev) \ M!What("create", todo)
      /\ d.schema = [x \in MadeUpTo(d.rev) \ M!What("create", todo) |-> Made(x)]
      /\ d.codes = SeededUpTo(d.rev) \ (UNION M!What("seed", todo))
  <2>1. Here(d, todo) = MadeUpTo(d.rev) \ M!What("create", todo)
    BY <1>2 DEF Here
  <2>2. CodesHere(d, todo) = SeededUpTo(d.rev) \ (UNION M!What("seed", todo))
    BY <1>2 DEF CodesHere
  <2> QED
    BY <1>1, <2>1, <2>2 DEF Has
<1>4. /\ Here(e, rest) = MadeUpTo(d.rev) \ M!What("create", rest)
      /\ CodesHere(e, rest) = SeededUpTo(d.rev) \ (UNION M!What("seed", rest))
  BY <1>1, <1>2 DEF Here, CodesHere
<1>5. CASE o.op = "create"
  <2>1. /\ o.what \in MadeUpTo(d.rev) /\ o.what \notin M!What("create", rest)
        /\ Made(o.what) = [needs |-> o.needs, of |-> o.of]
    BY <1>5, CreateCan
  <2>2. M!What("create", todo) = {o.what} \cup M!What("create", rest)
    BY <1>1, <1>5, WhatIs
  <2>3. M!What("seed", todo) = M!What("seed", rest)
    <3>1. M!What("seed", todo) = {} \cup M!What("seed", rest)
      BY <1>1, <1>5, WhatIs
    <3> QED
      BY <3>1
  <2>4. Here(e, rest) = DOMAIN d.schema \cup {o.what}
    BY <1>3, <1>4, <2>1, <2>2
  <2>5. /\ e.codes = d.codes
        /\ e.schema = [x \in DOMAIN d.schema \cup {o.what} |->
                         IF x = o.what THEN [needs |-> o.needs, of |-> o.of] ELSE d.schema[x]]
    BY <1>1, <1>5 DEF SchemaAfter
  <2>6. e.schema = [x \in DOMAIN d.schema \cup {o.what} |-> Made(x)]
    <3>1. \A x \in DOMAIN d.schema : d.schema[x] = Made(x)
      BY <1>3
    <3> HIDE DEF o
    <3> QED
      BY <2>1, <2>5, <3>1
  <2> QED
    BY <1>3, <1>4, <2>3, <2>4, <2>5, <2>6 DEF Has
<1>6. CASE o.op = "seed"
  <2>1. /\ o.what \subseteq SeededUpTo(d.rev) /\ M!What("seed", rest) = {}
        /\ d.codes = SeededUpTo(d.rev) \ o.what
    BY <1>6, SeedCan
  <2>2. M!What("create", todo) = M!What("create", rest)
    <3>1. M!What("create", todo) = {} \cup M!What("create", rest)
      BY <1>1, <1>6, WhatIs
    <3> QED
      BY <3>1
  <2>3. e.schema = d.schema /\ e.codes = d.codes \cup o.what
    BY <1>1, <1>6 DEF SchemaAfter
  <2>4. e.codes = CodesHere(e, rest)
    BY <1>4, <2>1, <2>3
  <2> QED
    BY <1>3, <1>4, <2>2, <2>3, <2>4 DEF Has
<1>7. CASE o.op \notin {"create", "seed"}
  <2>1. M!What("create", todo) = {} \cup M!What("create", rest)
    BY <1>1, <1>7, WhatIs
  <2>2. M!What("seed", todo) = {} \cup M!What("seed", rest)
    BY <1>1, <1>7, WhatIs
  <2>3. M!What("create", todo) = M!What("create", rest) /\ M!What("seed", todo) = M!What("seed", rest)
    BY <2>1, <2>2
  <2>4. e.schema = d.schema /\ e.codes = d.codes
    BY <1>1, <1>2, <1>7 DEF SchemaAfter
  <2> QED
    BY <1>3, <1>4, <2>3, <2>4 DEF Has
<1> QED
  BY <1>5, <1>6, <1>7

\* And one of a downgrade.
LEMMA DowngradeOperation ==
    ASSUME NEW d, M!DatabaseType(d), NEW todo, AtWork(d, todo), Down(todo, d.rev),
           NEW e \in M!After(d, todo[1])
    PROVE  Has(e, Here(e, Tail(todo)), CodesHere(e, Tail(todo)))
<1> DEFINE o == todo[1]
           rest == Tail(todo)
           gone(s) == IF "permissions" \in M!What("drop", s) THEN SeededUpTo(9) ELSE {}
<1>1. /\ e.rev = d.rev /\ M!IsScript(todo) /\ todo # <<>>
      /\ Has(d, Here(d, todo), CodesHere(d, todo)) /\ SchemaAfter(d, o, e)
  <2>1. SchemaAfter(d, o, e)
    BY AfterIs
  <2> QED
    BY <2>1, SchemaHere DEF AtWork, SchemaAfter
<1>2. /\ M!What("create", todo) = {} /\ M!What("seed", todo) = {}
      /\ M!What("create", rest) = {} /\ M!What("seed", rest) = {}
      /\ o.op \in {"drop", "unseed"}
  <2>1. M!What("create", todo) = {} /\ M!What("seed", todo) = {} /\ o.op \in {"drop", "unseed"}
    BY <1>1, HeadAndTail DEF Down, M!What
  <2>2. M!What("create", rest) \subseteq M!What("create", todo)
    BY <1>1, WhatIs
  <2>3. M!What("seed", rest) \subseteq M!What("seed", todo)
    BY <1>1, WhatIs
  <2> QED
    BY <2>1, <2>2, <2>3
<1>3. /\ DOMAIN d.schema = MadeUpTo(d.rev) \cup M!What("drop", todo)
      /\ d.schema = [x \in MadeUpTo(d.rev) \cup M!What("drop", todo) |-> Made(x)]
      /\ d.codes = SeededUpTo(d.rev) \cup (UNION M!What("unseed", todo)) \cup gone(todo)
  <2>1. Here(d, todo) = MadeUpTo(d.rev) \cup M!What("drop", todo)
    BY <1>2 DEF Here
  <2>2. CodesHere(d, todo) = SeededUpTo(d.rev) \cup (UNION M!What("unseed", todo)) \cup gone(todo)
    BY <1>2 DEF CodesHere
  <2> QED
    BY <1>1, <2>1, <2>2 DEF Has
<1>4. /\ Here(e, rest) = MadeUpTo(d.rev) \cup M!What("drop", rest)
      /\ CodesHere(e, rest) = SeededUpTo(d.rev) \cup (UNION M!What("unseed", rest)) \cup gone(rest)
  BY <1>1, <1>2 DEF Here, CodesHere
<1>5. CASE o.op = "drop"
  <2>1. /\ M!PartsOf(d, o.what) = {} /\ o.what \notin MadeUpTo(d.rev)
        /\ o.what \notin M!What("drop", rest)
    BY <1>5, DropCan
  <2>2. M!What("drop", todo) = {o.what} \cup M!What("drop", rest)
    BY <1>1, <1>5, WhatIs
  <2>3. M!What("unseed", todo) = M!What("unseed", rest)
    <3>1. M!What("unseed", todo) = {} \cup M!What("unseed", rest)
      BY <1>1, <1>5, WhatIs
    <3> QED
      BY <3>1
  <2>4. Here(e, rest) = DOMAIN d.schema \ ({o.what} \cup M!PartsOf(d, o.what))
    BY <1>3, <1>4, <2>1, <2>2
  <2>5. /\ e.schema = [x \in DOMAIN d.schema \ ({o.what} \cup M!PartsOf(d, o.what)) |-> d.schema[x]]
        /\ e.codes = IF o.what = "permissions" THEN {} ELSE d.codes
    BY <1>1, <1>5 DEF SchemaAfter
  <2>6. e.schema = [x \in DOMAIN d.schema \ ({o.what} \cup M!PartsOf(d, o.what)) |-> Made(x)]
    <3>1. \A x \in DOMAIN d.schema : d.schema[x] = Made(x)
      BY <1>3
    <3> QED
      BY <2>5, <3>1
  <2>7. e.codes = CodesHere(e, rest)
    <3>1. CASE o.what = "permissions"
      <4>1. "permissions" \in M!What("drop", todo) /\ "permissions" \notin M!What("drop", rest)
        BY <2>1, <2>2, <3>1
      <4>2. SeededUpTo(d.rev) = {} /\ M!What("unseed", todo) = {}
        BY <4>1 DEF Down, M!What
      <4> QED
        BY <1>4, <2>3, <2>5, <3>1, <4>1, <4>2
    <3>2. CASE o.what # "permissions"
      BY <1>3, <1>4, <2>2, <2>3, <2>5, <3>2
    <3> QED
      BY <3>1, <3>2
  <2> QED
    BY <2>4, <2>6, <2>7 DEF Has
<1>6. CASE o.op = "unseed"
  <2>1. /\ o.what \cap SeededUpTo(d.rev) = {} /\ M!What("unseed", rest) = {}
        /\ "permissions" \notin M!What("drop", todo)
        /\ d.codes = SeededUpTo(d.rev) \cup o.what
    BY <1>6, UnseedCan
  <2>2. M!What("drop", todo) = M!What("drop", rest)
    <3>1. M!What("drop", todo) = {} \cup M!What("drop", rest)
      BY <1>1, <1>6, WhatIs
    <3> QED
      BY <3>1
  <2>3. e.schema = d.schema /\ e.codes = d.codes \ o.what
    BY <1>1, <1>6 DEF SchemaAfter
  <2>4. e.codes = CodesHere(e, rest)
    BY <1>4, <2>1, <2>2, <2>3
  <2> QED
    BY <1>3, <1>4, <2>2, <2>3, <2>4 DEF Has
<1> QED
  BY <1>2, <1>5, <1>6

\* Before anybody edits the outbox every operation can be done.
LEMMA AlwaysCan ==
    ASSUME tampered = 0, NEW d, M!DatabaseType(d), M!OutboxTrue(d), NEW todo,
           M!Promised(d, todo), AtWork(d, todo), Up(todo, d.rev) \/ Down(todo, d.rev)
    PROVE  M!Can(d, todo[1])
<1> DEFINE o == todo[1]
<1>1. 1 \in DOMAIN todo /\ \A i \in DOMAIN todo : i \in Nat /\ 1 <= i
  BY HeadAndTail DEF AtWork
<1>2. CASE o.op = "create"
  <2>1. Up(todo, d.rev)
    BY <1>1, <1>2 DEF Down
  <2>2. /\ o.what \notin DOMAIN d.schema /\ o.needs \subseteq DOMAIN d.schema
    BY <1>2, <2>1, CreateCan
  <2>3. o.what = "ck_sales_orders_shipped_has_shipped_at" => M!Unstamped(d) = {}
    <3> SUFFICES ASSUME o.what = "ck_sales_orders_shipped_has_shipped_at"
                 PROVE  M!Unstamped(d) = {}
      OBVIOUS
    <3>1. d.rev = 8
      BY <1>1, <1>2, <2>1 DEF Up
    <3>2. \A j \in DOMAIN todo : todo[j].op # "backfill"
      BY <1>1, <1>2, <2>1 DEF Up, Tidy
    <3> QED
      BY <3>1, <3>2 DEF M!Promised
  <2> QED
    BY <1>2, <2>2, <2>3 DEF M!Can, M!CanCreate, M!ComparesLabel
<1>3. CASE o.op = "drop"
  <2>1. Down(todo, d.rev)
    BY <1>1, <1>3 DEF Up
  <2> QED
    BY <1>3, <2>1, DropCan DEF M!Can, M!CanDrop
<1>4. CASE o.op = "preflight"
  <2>1. ASSUME NEW x \in M!Unstamped(d)
        PROVE  M!Cardinality(M!EventsOf(d, x)) = 1
    <3>1. x \in M!Shipped(d) /\ M!TrueEvent(x) \in d.events /\ M!TrueEvent(x).order = x
      BY DEF M!Unstamped, M!OutboxTrue, M!TrueEvent
    <3>2. M!EventsOf(d, x) = {M!TrueEvent(x)}
      BY <3>1 DEF M!EventsOf, M!OutboxTrue
    <3> QED
      BY <3>2, FS_Singleton, SameSizes
  <2> QED
    BY <1>4, <2>1 DEF M!Can
<1>5. CASE o.op = "seed"
  <2>1. Up(todo, d.rev)
    BY <1>1, <1>5 DEF Down
  <2>2. o.what \cap d.codes = {}
    BY <1>5, <2>1, SeedCan
  <2> QED
    BY <1>5, <2>2 DEF M!Can
<1>6. CASE o.op \notin {"create", "drop", "preflight", "seed"}
  BY <1>6 DEF M!Can
<1> QED
  BY <1>2, <1>3, <1>4, <1>5, <1>6

--------------------------------------------------------------------------------
(* The migrations: SchemaInv, action by action. *)

LEMMA SchemaInit == M!Init => M!SchemaInv
<1> SUFFICES ASSUME M!Init
             PROVE  M!SchemaInv
  OBVIOUS
<1>1. db.rev = 0 /\ db.schema = [x \in {} |-> {}] /\ db.codes = {} /\ M!Idle /\ ~failed
  BY DEF M!Init, M!Idle
<1>2. MadeUpTo(0) = {} /\ SeededUpTo(0) = {}
  BY MadeUpToAre, SeededUpToAre
<1>3. [x \in {} |-> {}] = [x \in {} |-> Made(x)]
  OBVIOUS
<1>4. Has(db, MadeUpTo(db.rev), SeededUpTo(db.rev))
  BY <1>1, <1>2, <1>3 DEF Has
<1>5. M!SchemaIs(db, <<>>)
  BY <1>1, <1>4, SchemaBetween
<1> QED
  BY <1>1, <1>5 DEF M!SchemaInv, M!MigrationsSucceed

\* What a command under way has of the schema.
SchemaUnderWay(t) ==
    M!SchemaIs(t.db, t.todo) /\ (M!UpScript(t.todo, t.db.rev) \/ M!DownScript(t.todo, t.db.rev))

\* The steps of the command that leave the database alone.
LEMMA SchemaStepFrom ==
    ASSUME M!SchemaInv, db' = db, tampered' = tampered, failed' = failed \/ failed' = FALSE,
           txn' = M!NoTxn \/ SchemaUnderWay(txn')
    PROVE  M!SchemaInv'
<1>1. M!SchemaIs(db, <<>>)' /\ M!MigrationsSucceed'
  BY DEF M!SchemaInv, M!SchemaIs, M!MigrationsSucceed
<1>2. CASE txn' = M!NoTxn
  BY <1>1, <1>2 DEF M!SchemaInv, M!Idle, M!NoTxn
<1>3. CASE SchemaUnderWay(txn')
  BY <1>1, <1>3 DEF M!SchemaInv, SchemaUnderWay, M!SchemaIs, M!UpScript, M!DownScript
<1> QED
  BY <1>2, <1>3

LEMMA SchemaBegin ==
    ASSUME M!SchemaInv, NEW goal, M!Begin(goal)
    PROVE  M!SchemaInv'
<1>1. /\ txn' = [db |-> db, goal |-> goal, todo |-> <<>>]
      /\ db' = db /\ tampered' = tampered /\ failed' = FALSE
  BY DEF M!Begin
<1>2. txn'.db = db /\ txn'.todo = <<>>
  BY <1>1
<1>3. M!UpScript(<<>>, db.rev)
  BY DEF M!UpScript
<1>4. SchemaUnderWay(txn')
  BY <1>2, <1>3 DEF SchemaUnderWay, M!SchemaInv
<1> QED
  BY <1>1, <1>4, SchemaStepFrom

\* A script begins.
LEMMA SchemaNextRevision ==
    ASSUME M!HistoryInv, M!SchemaInv, M!NextRevision
    PROVE  M!SchemaInv'
<1>1. /\ ~M!Idle /\ txn.todo = <<>> /\ txn.db.rev # txn.goal
      /\ db' = db /\ tampered' = tampered /\ failed' = failed
  BY DEF M!NextRevision
<1> DEFINE d == txn.db
<1>2. /\ d.rev \in 0..12 /\ txn.goal \in 0..12 /\ M!DatabaseType(d) /\ M!SchemaIs(d, <<>>)
      /\ txn = [db |-> txn.db, goal |-> txn.goal, todo |-> txn.todo]
  BY <1>1, ManyRevisions DEF M!HistoryInv, M!SchemaInv, M!DatabaseType
<1>3. CASE d.rev < txn.goal
  <2> DEFINE e == [d EXCEPT !.rev = d.rev + 1]
             r == d.rev + 1
  <2>1. txn' = [db |-> e, goal |-> txn.goal, todo |-> M!Upgrade[r]]
    BY <1>2, <1>3 DEF M!NextRevision
  <2>2. e.rev = r /\ e.schema = d.schema /\ e.codes = d.codes
    BY <1>2 DEF M!DatabaseType
  <2>3. r \in 1..12 /\ d.rev = r - 1 /\ r \in 0..12
    BY <1>2, <1>3
  <2> HIDE DEF e, r
  <2>4. M!SchemaIs(e, M!Upgrade[r]) /\ Up(M!Upgrade[r], r)
    BY <1>2, <2>2, <2>3, UpgradeStarts, UpgradeIsUp
  <2>5. M!UpScript(M!Upgrade[r], r)
    BY <2>3, <2>4, UpScriptAs
  <2>6. SchemaUnderWay(txn')
    BY <2>1, <2>2, <2>4, <2>5 DEF SchemaUnderWay
  <2> QED
    BY <1>1, <2>6, SchemaStepFrom
<1>4. CASE d.rev > txn.goal
  <2> DEFINE e == [d EXCEPT !.rev = d.rev - 1]
             r == d.rev
  <2>1. txn' = [db |-> e, goal |-> txn.goal, todo |-> M!Downgrade[r]]
    <3>1. ~(d.rev < txn.goal)
      BY <1>2, <1>4
    <3>2. txn' = [txn EXCEPT !.db.rev = txn.db.rev - 1, !.todo = M!Downgrade[r]]
      BY <3>1 DEF M!NextRevision
    <3> QED
      BY <1>2, <3>2
  <2>2. e.rev = r - 1 /\ e.schema = d.schema /\ e.codes = d.codes
    BY <1>2 DEF M!DatabaseType
  <2>3. r \in 1..12 /\ d.rev = r /\ r - 1 \in 0..12
    BY <1>2, <1>4
  <2> HIDE DEF e, r
  <2>4. M!SchemaIs(e, M!Downgrade[r]) /\ Down(M!Downgrade[r], r - 1)
    BY <1>2, <2>2, <2>3, DowngradeStarts, DowngradeIsDown
  <2>5. M!DownScript(M!Downgrade[r], r - 1)
    BY <2>3, <2>4, DownScriptAs
  <2>6. SchemaUnderWay(txn')
    BY <2>1, <2>2, <2>4, <2>5 DEF SchemaUnderWay
  <2> QED
    BY <1>1, <2>6, SchemaStepFrom
<1> QED
  BY <1>1, <1>2, <1>3, <1>4

\* A command in the middle of a script.
LEMMA ScriptUnderWay ==
    ASSUME M!HistoryInv, M!SchemaInv, ~M!Idle, txn.todo # <<>>
    PROVE  /\ M!DatabaseType(txn.db) /\ M!OutboxTrue(txn.db) /\ M!Promised(txn.db, txn.todo)
           /\ AtWork(txn.db, txn.todo)
           /\ Up(txn.todo, txn.db.rev) \/ Down(txn.todo, txn.db.rev)
<1>1. /\ M!DatabaseType(txn.db) /\ M!OutboxTrue(txn.db) /\ M!Promised(txn.db, txn.todo)
      /\ M!IsScript(txn.todo) /\ txn.db.rev \in 0..12
  BY ManyRevisions DEF M!HistoryInv, M!DatabaseType
<1>2. AtWork(txn.db, txn.todo)
  BY <1>1 DEF AtWork, M!SchemaInv
<1>3. Up(txn.todo, txn.db.rev) \/ Down(txn.todo, txn.db.rev)
  BY <1>1, UpScriptAs, DownScriptAs DEF M!SchemaInv
<1> QED
  BY <1>1, <1>2, <1>3

\* A script goes on.
LEMMA SchemaOperation ==
    ASSUME M!HistoryInv, M!SchemaInv, M!Operation
    PROVE  M!SchemaInv'
<1>1. /\ ~M!Idle /\ txn.todo # <<>>
      /\ db' = db /\ tampered' = tampered /\ failed' = failed
  BY DEF M!Operation
<1> DEFINE d == txn.db
           rest == Tail(txn.todo)
<1>2. PICK e \in M!After(d, txn.todo[1]) : txn' = [txn EXCEPT !.db = e, !.todo = rest]
  BY DEF M!Operation
<1>3. /\ M!DatabaseType(d) /\ AtWork(d, txn.todo)
      /\ Up(txn.todo, d.rev) \/ Down(txn.todo, d.rev)
  BY <1>1, ScriptUnderWay
<1>4. txn'.db = e /\ txn'.todo = rest
  <2>1. txn = [db |-> txn.db, goal |-> txn.goal, todo |-> txn.todo]
    BY <1>1 DEF M!HistoryInv
  <2> QED
    BY <1>2, <2>1
<1>5. e.rev = d.rev /\ d.rev \in 0..12 /\ M!IsScript(txn.todo) /\ txn.todo # <<>>
  <2>1. SchemaAfter(d, txn.todo[1], e)
    BY <1>3, AfterIs
  <2> QED
    BY <1>3, <2>1 DEF SchemaAfter, AtWork
<1> HIDE DEF d, rest
<1>6. CASE Up(txn.todo, d.rev)
  <2>1. Has(e, Here(e, rest), CodesHere(e, rest))
    BY <1>3, <1>6, UpgradeOperation DEF rest
  <2>2. M!UpScript(rest, e.rev)
    <3>1. Up(rest, d.rev)
      BY <1>5, <1>6, UpScriptGoesOn DEF rest
    <3> QED
      BY <1>5, <3>1, UpScriptAs
  <2>3. M!SchemaIs(e, rest)
    BY <1>5, <2>1, <2>2, SchemaHere, UpScriptAs
  <2>4. SchemaUnderWay(txn')
    BY <1>4, <2>2, <2>3 DEF SchemaUnderWay
  <2> QED
    BY <1>1, <2>4, SchemaStepFrom
<1>7. CASE Down(txn.todo, d.rev)
  <2>1. Has(e, Here(e, rest), CodesHere(e, rest))
    BY <1>3, <1>7, DowngradeOperation DEF rest
  <2>2. M!DownScript(rest, e.rev)
    <3>1. Down(rest, d.rev)
      BY <1>5, <1>7, DownScriptGoesOn DEF rest
    <3> QED
      BY <1>5, <3>1, DownScriptAs
  <2>3. M!SchemaIs(e, rest)
    BY <1>5, <2>1, <2>2, SchemaHere, DownScriptAs
  <2>4. SchemaUnderWay(txn')
    BY <1>4, <2>2, <2>3 DEF SchemaUnderWay
  <2> QED
    BY <1>1, <2>4, SchemaStepFrom
<1> QED
  BY <1>3, <1>6, <1>7

\* A statement raises only after an edit by hand.
LEMMA SchemaFail ==
    ASSUME M!HistoryInv, M!SchemaInv, M!Fail
    PROVE  M!SchemaInv'
<1>1. /\ ~M!Idle /\ txn.todo # <<>> /\ ~M!Can(txn.db, txn.todo[1])
      /\ txn' = M!NoTxn /\ db' = db /\ tampered' = tampered
  BY DEF M!Fail
<1>2. tampered # 0
  BY <1>1, ScriptUnderWay, AlwaysCan
<1>3. M!SchemaIs(db, <<>>)'
  BY <1>1 DEF M!SchemaInv, M!SchemaIs
<1> QED
  BY <1>1, <1>2, <1>3 DEF M!SchemaInv, M!MigrationsSucceed, M!Idle, M!NoTxn

LEMMA SchemaCommit ==
    ASSUME M!HistoryInv, M!SchemaInv, M!Commit
    PROVE  M!SchemaInv'
<1>1. /\ ~M!Idle /\ txn.todo = <<>> /\ txn' = M!NoTxn /\ tampered' = tampered /\ failed' = failed
  BY DEF M!Commit
<1>2. PICK label : db' = [txn.db EXCEPT !.label = label]
  BY DEF M!Commit
<1>3. M!DatabaseType(txn.db) /\ M!SchemaIs(txn.db, <<>>)
  BY <1>1 DEF M!HistoryInv, M!SchemaInv
<1>4. db'.rev = txn.db.rev /\ db'.schema = txn.db.schema /\ db'.codes = txn.db.codes
  BY <1>2, <1>3 DEF M!DatabaseType
<1>5. M!SchemaIs(db, <<>>)'
  BY <1>3, <1>4 DEF M!SchemaIs
<1> QED
  BY <1>1, <1>5 DEF M!SchemaInv, M!MigrationsSucceed, M!Idle, M!NoTxn

\* Between commands the program and the operator leave the schema alone.
LEMMA SchemaBetweenCommands ==
    ASSUME M!SchemaInv, M!Idle, txn' = txn, failed' = failed,
           tampered' = 0 => tampered = 0,
           db'.rev = db.rev, db'.schema = db.schema, db'.codes = db.codes
    PROVE  M!SchemaInv'
<1>1. M!SchemaIs(db, <<>>)'
  BY DEF M!SchemaInv, M!SchemaIs
<1>2. M!MigrationsSucceed' /\ M!Idle'
  BY DEF M!SchemaInv, M!MigrationsSucceed, M!Idle, M!NoTxn
<1> QED
  BY <1>1, <1>2 DEF M!SchemaInv

LEMMA SchemaStep ==
    ASSUME M!HistoryInv, M!SchemaInv, [M!Next]_migration
    PROVE  M!SchemaInv'
<1>1. ASSUME NEW goal \in 0..M!LastRevision, M!Begin(goal)
      PROVE  M!SchemaInv'
  BY <1>1, SchemaBegin
<1>2. CASE M!NextRevision
  BY <1>2, SchemaNextRevision
<1>3. CASE M!Operation
  BY <1>3, SchemaOperation
<1>4. CASE M!Fail
  BY <1>4, SchemaFail
<1>5. CASE M!Crash
  BY <1>5, SchemaStepFrom DEF M!Crash
<1>6. CASE M!Commit
  BY <1>6, SchemaCommit
<1>7. db = [rev |-> db.rev, schema |-> db.schema, label |-> db.label, codes |-> db.codes,
            orders |-> db.orders, shipped |-> db.shipped, events |-> db.events,
            synthetic |-> db.synthetic] /\ tampered \in Nat
  BY DEF M!HistoryInv, M!DatabaseType
<1>8. ASSUME NEW o \in Orders, M!TakeOrder(o)
      PROVE  M!SchemaInv'
  <2>1. PICK orders : db' = [db EXCEPT !.orders = orders]
    BY <1>7, <1>8 DEF M!TakeOrder
  <2> QED
    BY <1>7, <1>8, <2>1, SchemaBetweenCommands DEF M!TakeOrder
<1>9. ASSUME NEW o \in Orders, NEW m \in Moments, M!ShipOrder(o, m)
      PROVE  M!SchemaInv'
  <2>1. db'.rev = db.rev /\ db'.schema = db.schema /\ db'.codes = db.codes
    BY <1>7, <1>9 DEF M!ShipOrder
  <2> QED
    BY <1>9, <2>1, SchemaBetweenCommands DEF M!ShipOrder
<1>10. ASSUME NEW state \in {"pending", "dispatched"}, M!PublishSynthetic(state)
       PROVE  M!SchemaInv'
  BY <1>7, <1>10, SchemaBetweenCommands DEF M!PublishSynthetic
<1>11. ASSUME NEW events, M!Tamper(events)
       PROVE  M!SchemaInv'
  BY <1>7, <1>11, SchemaBetweenCommands DEF M!Tamper
<1>12. CASE UNCHANGED migration
  <2>1. /\ db' = db /\ txn' = txn /\ tampered' = tampered /\ failed' = failed
    BY <1>12 DEF migration
  <2>2. CASE txn = M!NoTxn
    BY <2>1, <2>2, SchemaStepFrom
  <2>3. CASE SchemaUnderWay(txn)
    <3>1. SchemaUnderWay(txn')
      BY <2>1, <2>3
    <3> QED
      BY <2>1, <3>1, SchemaStepFrom
  <2> QED
    BY <2>2, <2>3 DEF M!SchemaInv, M!Idle, SchemaUnderWay
<1> QED
  BY <1>1, <1>2, <1>3, <1>4, <1>5, <1>6, <1>8, <1>9, <1>10, <1>11, <1>12 DEF M!Next

\* Both invariants hold of every installation.
LEMMA MigrationsInvariant == InstallSpec => [](M!HistoryInv /\ M!SchemaInv)
<1>1. InstallInit => M!HistoryInv /\ M!SchemaInv
  BY HistoryInit, SchemaInit DEF InstallInit
<1>2. M!HistoryInv /\ M!SchemaInv /\ [InstallNext]_everything => (M!HistoryInv /\ M!SchemaInv)'
  <2>1. [InstallNext]_everything => [M!Next]_migration
    BY DEF InstallNext, Migrate, Deploy, Provision, everything
  <2> QED
    BY <2>1, HistoryStep, SchemaStep
<1> QED
  BY <1>1, <1>2, PTL DEF InstallSpec

\* alembic's upgrades and downgrades, in any order, failing or killed anywhere: the
\* schema and the catalog of permissions are always those of the revision that the
\* database says it has, as a first upgrade to it would have made them.
THEOREM SchemasMatchRevisions == InstallSpec => []SchemaOfRevision
<1>1. M!HistoryInv /\ M!SchemaInv => SchemaOfRevision
  <2> SUFFICES ASSUME M!HistoryInv, M!SchemaInv
               PROVE  M!SchemaOfRevision
    BY DEF SchemaOfRevision
  <2>1. db.rev \in 0..12
    BY ManyRevisions DEF M!HistoryInv, M!DatabaseType
  <2>2. Has(db, MadeUpTo(db.rev), SeededUpTo(db.rev))
    BY <2>1, SchemaBetween DEF M!SchemaInv
  <2> QED
    BY <2>1, <2>2, FreshAre DEF Has, M!SchemaOfRevision
<1> QED
  BY <1>1, MigrationsInvariant, PTL

\* As long as nobody edits the outbox by hand no command fails: in the whole of a
\* command, over whatever orders the program took and shipped before it, each
\* statement finds what it needs, makes nothing twice, drops nothing that is needed,
\* and 0008 finds one event, the true one, for each order that was shipped.
THEOREM MigrationsNeverFail == InstallSpec => []MigrationsSucceed
<1>1. M!SchemaInv => MigrationsSucceed
  BY DEF M!SchemaInv, MigrationsSucceed
<1> QED
  BY <1>1, MigrationsInvariant, PTL
================================================================================
