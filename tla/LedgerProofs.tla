----------------------------- MODULE LedgerProofs -----------------------------
(***************************************************************************)
(* Theorems of the specification Ledger, for every set of transactions,    *)
(* months, accounts and events.                                            *)
(***************************************************************************)
EXTENDS Ledger, TLAPS

(* Facts about single definitions. *)

\* A batch and its swap touch the same accounts.
LEMMA SwapTouches ==
    ASSUME NEW l \in Lines
    PROVE  Swap(l) \in Lines /\ Touched(Swap(l)) = Touched(l)
BY DEF Swap, Touched, Lines

\* An entry in preparation has the type of an entry.
LEMMA NewEntryType ==
    ASSUME NEW t \in Posters, NEW m \in Months,
           NEW s \in Sources \cup {NoSource},
           NEW r \in Posters \cup {NoPoster}, NEW l \in Lines
    PROVE  NewEntry(t, m, s, r, l) \in Entry
BY DEF NewEntry, Entry

\* The initial states satisfy the invariant.
LEMMA InitInv == Init => LedgerInv
<1> SUFFICES ASSUME Init PROVE LedgerInv
  OBVIOUS
<1>1. TypeOK
  BY LedgerAssumption DEF Init, TypeOK
<1>2. GaplessNumbering
  BY DEF Init, GaplessNumbering, Numbers, InYear
<1>3. PostedOnce /\ DraftShape /\ EntriesLegal /\ DraftsLegal
  BY DEF Init, PostedOnce, DraftShape, EntriesLegal, DraftsLegal, DraftOf
<1>4. LockInv /\ ReadStillHolds
  BY DEF Init, LockInv, ReadStillHolds, SharersOf, ClosersOf, NumberersOf, Inserters
<1> QED
  BY <1>1, <1>2, <1>3, <1>4 DEF LedgerInv

\* Steps that change no committed row leave the facts about them alone.
LEMMA StoredUnchanged ==
    ASSUME LedgerInv, UNCHANGED Stored
    PROVE  GaplessNumbering' /\ PostedOnce' /\ EntriesLegal'
BY DEF LedgerInv, Stored, GaplessNumbering, PostedOnce, EntriesLegal,
       Numbers, InYear, SameKey, IsReversal

\* Ending a transaction without effect keeps the invariant.
LEMMA AbandonStep ==
    ASSUME LedgerInv, NEW t \in Posters, Abandon(t),
           UNCHANGED <<Stored, AdminVars>>
    PROVE  LedgerInv'
<1> USE DEF LedgerInv, Abandon, Goto, Stored, AdminVars
<1>1. TypeOK'
  BY DEF TypeOK
<1>2. DraftShape'
  BY DEF TypeOK, DraftShape, DraftOf
<1>3. DraftsLegal'
  BY DEF TypeOK, DraftsLegal, DraftOf, LegalDraft
<1>4. /\ \A m \in Months : SharersOf(m)' \subseteq SharersOf(m)
      /\ \A y \in Years : NumberersOf(y)' \subseteq NumberersOf(y)
      /\ Inserters' \subseteq Inserters
      /\ \A u \in Inserters' : draft'[u] = draft[u]
      /\ \A y \in Years : \A u \in NumberersOf(y)' : draft'[u] = draft[u]
  BY DEF TypeOK, SharersOf, NumberersOf, Inserters
<1>5. LockInv'
  BY <1>4 DEF LockInv, ClosersOf
<1>6. ReadStillHolds'
  BY <1>4 DEF ReadStillHolds, Clashes, SameKey, IsReversal
<1> QED
  BY <1>1, <1>2, <1>3, <1>5, <1>6, StoredUnchanged

\* A transaction that starts with a legal entry keeps the invariant.
LEMMA PrepareStep ==
    ASSUME LedgerInv, NEW t \in Posters, pc[t] = "idle",
           NEW e \in Entry, e.id = t, LegalDraft(e), Prepare(t, e),
           UNCHANGED <<Stored, AdminVars>>
    PROVE  LedgerInv'
<1> USE DEF LedgerInv, Prepare, Goto, Stored, AdminVars
<1>1. TypeOK'
  BY DEF TypeOK
<1>2. DraftShape'
  BY LedgerAssumption DEF TypeOK, DraftShape, DraftOf
<1>3. DraftsLegal'
  BY DEF TypeOK, DraftsLegal, DraftOf, LegalDraft
<1>4. /\ \A m \in Months : SharersOf(m)' = SharersOf(m)
      /\ \A y \in Years : NumberersOf(y)' = NumberersOf(y)
      /\ Inserters' = Inserters
      /\ \A u \in Posters : pc[u] # "idle" => draft'[u] = draft[u]
  BY DEF TypeOK, SharersOf, NumberersOf, Inserters
<1>5. LockInv'
  BY <1>4 DEF LockInv, ClosersOf
<1>6. ReadStillHolds'
  BY <1>4 DEF ReadStillHolds, Clashes, SameKey, IsReversal, NumberersOf, Inserters
<1> QED
  BY <1>1, <1>2, <1>3, <1>5, <1>6, StoredUnchanged

\* Starting a post.
LEMMA BeginStep ==
    ASSUME LedgerInv, NEW t \in Posters, Begin(t)
    PROVE  LedgerInv'
<1>1. ASSUME NEW m \in Months, NEW l \in ManualLines, BeginManual(t, m, l)
      PROVE  LedgerInv'
  <2> DEFINE e == NewEntry(t, m, NoSource, NoPoster, l)
  <2>1. CASE Abandon(t)
    BY <1>1, <2>1, AbandonStep DEF BeginManual
  <2>2. CASE /\ Prepare(t, e)
             /\ Touched(l) \subseteq Chart
             /\ Touched(l) \cap Control = {}
    <3>1. e \in Entry
      BY LedgerAssumption, NewEntryType
    <3>2. e.id = t /\ LegalDraft(e)
      BY <2>2 DEF NewEntry, LegalDraft, IsReversal
    <3> QED
      BY <1>1, <2>2, <3>1, <3>2, PrepareStep DEF BeginManual
  <2> QED
    BY <1>1, <2>1, <2>2 DEF BeginManual
<1>2. ASSUME NEW s \in Sources, BeginEvent(t, s)
      PROVE  LedgerInv'
  <2> DEFINE e == NewEntry(t, EventMonth[s], s, NoPoster, EventLines[s])
  <2>1. CASE Abandon(t)
    BY <1>2, <2>1, AbandonStep DEF BeginEvent
  <2>2. CASE Touched(EventLines[s]) \subseteq Chart /\ Prepare(t, e)
    <3>1. e \in Entry
      BY LedgerAssumption, NewEntryType
    <3>2. e.id = t /\ LegalDraft(e)
      BY <2>2, JournalAssumption DEF NewEntry, LegalDraft, IsReversal, IsManual
    <3> QED
      BY <1>2, <2>2, <3>1, <3>2, PrepareStep DEF BeginEvent
  <2>3. CASE Goto(t, "commit") /\ UNCHANGED draft
    <3> USE <1>2, <2>3 DEF BeginEvent, Goto, Stored, AdminVars, LedgerInv
    <3>1. TypeOK' /\ DraftShape' /\ DraftsLegal'
      BY DEF TypeOK, DraftShape, DraftOf, DraftsLegal, LegalDraft
    <3>2. /\ \A m \in Months : SharersOf(m)' = SharersOf(m)
          /\ \A y \in Years : NumberersOf(y)' = NumberersOf(y)
          /\ Inserters' = Inserters
      BY DEF TypeOK, DraftShape, SharersOf, NumberersOf, Inserters
    <3>3. LockInv' /\ ReadStillHolds'
      BY <3>2 DEF LockInv, ReadStillHolds, ClosersOf, Clashes, SameKey, IsReversal
    <3> QED
      BY <3>1, <3>3, StoredUnchanged
  <2> QED
    BY <1>2, <2>1, <2>2, <2>3 DEF BeginEvent
<1>3. ASSUME NEW o \in journal, NEW m \in Months, BeginReverse(t, o, m)
      PROVE  LedgerInv'
  <2> DEFINE e == NewEntry(t, m, NoSource, o.id, Swap(o.lines))
  <2>1. CASE Abandon(t)
    BY <1>3, <2>1, AbandonStep DEF BeginReverse
  <2>2. CASE /\ Prepare(t, e)
             /\ ~IsReversal(o)
             /\ Touched(o.lines) \cap Control = {}
    <3>0. o \in Entry
      BY DEF LedgerInv, TypeOK
    <3>1. e \in Entry
      BY <3>0, NewEntryType, SwapTouches DEF Entry
    <3>2. e.id = t /\ LegalDraft(e)
      BY <3>0, <2>2, SwapTouches, JournalAssumption
      DEF NewEntry, LegalDraft, IsReversal, IsManual, LedgerInv, EntriesLegal, Entry
    <3> QED
      BY <1>3, <2>2, <3>1, <3>2, PrepareStep DEF BeginReverse
  <2> QED
    BY <1>3, <2>1, <2>2 DEF BeginReverse
<1> QED
  BY <1>1, <1>2, <1>3 DEF Begin

\* Taking the period lock: the month is open and no closer holds its row.
LEMMA LockPeriodStep ==
    ASSUME LedgerInv, NEW t \in Posters, LockPeriod(t)
    PROVE  LedgerInv'
<1>1. CASE Abandon(t)
  BY <1>1, AbandonStep DEF LockPeriod
<1>2. CASE /\ Goto(t, "number") /\ UNCHANGED draft
           /\ period[draft[t].month] = "OPEN"
  <2> USE <1>2 DEF LockPeriod, Goto, Stored, AdminVars, LedgerInv
  <2>1. TypeOK' /\ DraftShape' /\ DraftsLegal'
    BY DEF TypeOK, DraftShape, DraftOf, DraftsLegal, LegalDraft
  <2>2. /\ \A m \in Months : SharersOf(m)' \subseteq SharersOf(m) \cup {t}
        /\ \A m \in Months : t \in SharersOf(m)' => m = draft[t].month
        /\ \A y \in Years : NumberersOf(y)' = NumberersOf(y)
        /\ Inserters' = Inserters
    BY DEF TypeOK, DraftShape, SharersOf, NumberersOf, Inserters
  <2>3. LockInv'
    BY <2>2 DEF LockInv, ClosersOf
  <2>4. ReadStillHolds'
    BY <2>2 DEF ReadStillHolds, Clashes, SameKey, IsReversal
  <2> QED
    BY <2>1, <2>3, <2>4, StoredUnchanged
<1> QED
  BY <1>1, <1>2 DEF LockPeriod

\* Taking the sequence row: no other transaction holds it.
LEMMA AllocateNoStep ==
    ASSUME LedgerInv, NEW t \in Posters, AllocateNo(t)
    PROVE  LedgerInv'
<1> DEFINE y == YearOf[draft[t].month]
<1> USE DEF AllocateNo, Goto, Stored, AdminVars, LedgerInv
<1>1. draft[t] \in Entry /\ draft'[t] \in Entry /\ draft'[t] # NoEntry
  BY JournalAssumption, LedgerAssumption DEF TypeOK, DraftShape, DraftOf, Entry
<1>2. /\ draft'[t].no = nextNo[y]
      /\ draft'[t].id = draft[t].id /\ draft'[t].month = draft[t].month
      /\ draft'[t].source = draft[t].source
      /\ draft'[t].reverses = draft[t].reverses
      /\ draft'[t].lines = draft[t].lines
      /\ \A u \in Posters : u # t => draft'[u] = draft[u]
  BY <1>1 DEF TypeOK, Entry
<1>3. TypeOK' /\ DraftShape'
  BY <1>1, <1>2 DEF TypeOK, DraftShape, DraftOf
<1>4. DraftsLegal'
  BY <1>1, <1>2 DEF DraftsLegal, DraftShape, DraftOf, LegalDraft, IsManual, IsReversal
<1>5. /\ \A m \in Months : SharersOf(m)' = SharersOf(m)
      /\ \A z \in Years : NumberersOf(z)' \subseteq NumberersOf(z) \cup {t}
      /\ \A z \in Years : t \in NumberersOf(z)' => z = y
      /\ t \notin Inserters /\ Inserters' = Inserters
  BY <1>1, <1>2 DEF TypeOK, DraftShape, DraftOf, SharersOf, NumberersOf, Inserters
<1>6. LockInv'
  BY <1>5 DEF LockInv, ClosersOf
<1>7. ReadStillHolds'
  <2>1. \A m \in Months : SharersOf(m)' # {} => period'[m] = "OPEN"
    BY <1>5 DEF ReadStillHolds
  <2>2. \A z \in Years : \A u \in NumberersOf(z)' : draft'[u].no = nextNo'[z]
    <3>1. \A z \in Years : \A u \in NumberersOf(z)' : u # t => u \in NumberersOf(z) /\ u \in Posters
      BY <1>5 DEF NumberersOf
    <3> QED
      BY <1>2, <1>5, <3>1 DEF ReadStillHolds
  <2>3. \A u \in Inserters : u \in Posters /\ draft'[u] = draft[u]
    BY <1>2, <1>5 DEF Inserters
  <2>4. /\ \A u \in Inserters' : ~Clashes(draft[u])'
        /\ \A u, v \in Inserters' : SameKey(draft[u], draft[v])' => u = v
    BY <1>5, <2>3 DEF ReadStillHolds, Clashes, SameKey, IsReversal
  <2> QED
    BY <2>1, <2>2, <2>4 DEF ReadStillHolds
<1> QED
  BY <1>3, <1>4, <1>6, <1>7, StoredUnchanged

\* The flush: a duplicate goes back to the savepoint or fails, any other entry
\* is new among the committed and the flushed ones.
LEMMA InsertEntryStep ==
    ASSUME LedgerInv, NEW t \in Posters, InsertEntry(t)
    PROVE  LedgerInv'
<1>1. CASE Abandon(t)
  BY <1>1, AbandonStep DEF InsertEntry
<1>2. CASE Goto(t, "commit") /\ UNCHANGED draft /\ ~Clashes(draft[t])
  <2> USE <1>2 DEF InsertEntry, Goto, Stored, AdminVars, LedgerInv
  <2>1. TypeOK' /\ DraftShape' /\ DraftsLegal'
    BY DEF TypeOK, DraftShape, DraftOf, DraftsLegal, LegalDraft
  <2>2. /\ \A m \in Months : SharersOf(m)' = SharersOf(m)
        /\ \A y \in Years : NumberersOf(y)' = NumberersOf(y)
        /\ Inserters' \subseteq Inserters \cup {t}
    BY DEF TypeOK, DraftShape, SharersOf, NumberersOf, Inserters
  <2>3. LockInv'
    BY <2>2 DEF LockInv, ClosersOf
  <2>4. \A u, v \in Inserters' : SameKey(draft[u], draft[v]) => u = v
    <3>1. \A u \in Inserters : ~SameKey(draft[t], draft[u]) /\ ~SameKey(draft[u], draft[t])
      BY DEF MustWait, SameKey, IsReversal
    <3> QED
      BY <3>1, <2>2 DEF ReadStillHolds
  <2>5. ReadStillHolds'
    BY <2>2, <2>4 DEF ReadStillHolds, Clashes, SameKey, IsReversal
  <2> QED
    BY <2>1, <2>3, <2>5, StoredUnchanged
<1>3. CASE Goto(t, "commit") /\ draft' = [draft EXCEPT ![t] = NoEntry]
  <2> USE <1>3 DEF InsertEntry, Goto, Stored, AdminVars, LedgerInv
  <2>1. TypeOK' /\ DraftShape' /\ DraftsLegal'
    BY DEF TypeOK, DraftShape, DraftOf, DraftsLegal, LegalDraft
  <2>2. /\ \A m \in Months : SharersOf(m)' \subseteq SharersOf(m)
        /\ \A y \in Years : NumberersOf(y)' \subseteq NumberersOf(y)
        /\ Inserters' \subseteq Inserters
        /\ \A u \in Inserters' : draft'[u] = draft[u]
        /\ \A y \in Years : \A u \in NumberersOf(y)' : draft'[u] = draft[u]
    BY DEF TypeOK, DraftShape, SharersOf, NumberersOf, Inserters
  <2>3. LockInv'
    BY <2>2 DEF LockInv, ClosersOf
  <2>4. ReadStillHolds'
    BY <2>2 DEF ReadStillHolds, Clashes, SameKey, IsReversal
  <2> QED
    BY <2>1, <2>3, <2>4, StoredUnchanged
<1> QED
  BY <1>1, <1>2, <1>3 DEF InsertEntry

\* The commit: the number drawn under the sequence lock is still the next one,
\* and the key is still new.
LEMMA CommitEntryStep ==
    ASSUME LedgerInv, NEW t \in Posters, CommitEntry(t)
    PROVE  LedgerInv'
<1> USE DEF LedgerInv
<1>0. PICK d \in Entry, y \in Years : d = draft[t] /\ y = YearOf[d.month]
  BY JournalAssumption DEF CommitEntry, TypeOK, Entry
<1>1. /\ d.id = t
      /\ t \in Inserters /\ t \in NumberersOf(y) /\ t \in SharersOf(d.month)
  BY <1>0
  DEF CommitEntry, TypeOK, DraftShape, DraftOf, Entry, Inserters, NumberersOf, SharersOf
<1>2. d.no = nextNo[y]
  BY <1>0, <1>1 DEF ReadStillHolds
<1>3. /\ journal' = journal \cup {d}
      /\ nextNo' = [nextNo EXCEPT ![y] = d.no + 1]
      /\ pc' = [pc EXCEPT ![t] = "done"]
      /\ draft' = [draft EXCEPT ![t] = NoEntry]
      /\ UNCHANGED <<period, adminPc, target>>
  BY <1>0 DEF CommitEntry, Abandon, Goto, AdminVars
<1>4. TypeOK'
  BY <1>1, <1>2, <1>3 DEF TypeOK
<1>5. GaplessNumbering'
  <2>1. ASSUME NEW z \in Years, z # y
        PROVE  /\ InYear(journal', z) = InYear(journal, z)
               /\ Numbers(journal', z) = Numbers(journal, z)
               /\ nextNo'[z] = nextNo[z]
    BY <1>0, <1>3, <2>1 DEF InYear, Numbers, TypeOK
  <2>2. /\ InYear(journal', y) = InYear(journal, y) \cup {d}
        /\ Numbers(journal', y) = Numbers(journal, y) \cup {d.no}
        /\ nextNo'[y] = nextNo[y] + 1
    BY <1>0, <1>2, <1>3 DEF InYear, Numbers, TypeOK
  <2>3. Numbers(journal', y) = 1 .. nextNo'[y] - 1
    BY <1>1, <1>2, <2>2 DEF GaplessNumbering, TypeOK
  <2>4. \A e \in InYear(journal, y) : e.no # d.no
    <3>1. \A e \in InYear(journal, y) : e.no \in 1 .. nextNo[y] - 1
      BY <1>1 DEF GaplessNumbering, Numbers
    <3> QED
      BY <1>1, <1>2, <3>1 DEF TypeOK
  <2>5. \A e, f \in InYear(journal', y) : e.no = f.no => e = f
    BY <1>1, <2>2, <2>4 DEF GaplessNumbering
  <2> QED
    BY <2>1, <2>3, <2>5 DEF GaplessNumbering
<1>6. ~Clashes(d) /\ \A u \in Inserters : u # t =>
          ~SameKey(draft[u], d) /\ ~SameKey(d, draft[u])
  BY <1>0, <1>1 DEF ReadStillHolds
<1>7. PostedOnce'
  <2>1. \A e \in journal : ~SameKey(d, e) /\ ~SameKey(e, d)
    BY <1>6 DEF Clashes, SameKey, IsReversal
  <2> QED
    BY <1>3, <2>1 DEF PostedOnce, SameKey, IsReversal
<1>8. DraftShape'
  BY <1>1, <1>3 DEF TypeOK, DraftShape, DraftOf
<1>9. DraftsLegal' /\ EntriesLegal'
  <2>1. DraftsLegal'
    <3>1. ASSUME NEW u \in Posters, DraftOf(u)' PROVE draft'[u] = draft[u] /\ DraftOf(u)
      BY <1>3, <3>1 DEF TypeOK, DraftOf
    <3>2. ASSUME NEW e, LegalDraft(e) PROVE LegalDraft(e)'
      BY <1>3, <3>2 DEF LegalDraft
    <3> QED
      BY <3>1, <3>2 DEF DraftsLegal, LegalDraft
  <2>2. EntriesLegal'
    BY <1>0, <1>1, <1>3 DEF DraftsLegal, DraftOf, Inserters, LegalDraft, EntriesLegal
  <2> QED
    BY <2>1, <2>2
<1>10. /\ \A m \in Months : SharersOf(m)' \subseteq SharersOf(m)
       /\ \A z \in Years : NumberersOf(z)' \subseteq NumberersOf(z) \ {t}
       /\ Inserters' \subseteq Inserters \ {t}
       /\ \A u \in Posters : u # t => draft'[u] = draft[u]
  BY <1>3 DEF TypeOK, SharersOf, NumberersOf, Inserters
<1>11. LockInv'
  BY <1>3, <1>10 DEF LockInv, ClosersOf
<1>12. ReadStillHolds'
  <2>1. \A m \in Months : SharersOf(m)' # {} => period'[m] = "OPEN"
    BY <1>3, <1>10 DEF ReadStillHolds
  <2>2. \A z \in Years : \A u \in NumberersOf(z)' : draft'[u].no = nextNo'[z]
    <3>1. NumberersOf(y)' = {}
      BY <1>1, <1>10 DEF LockInv
    <3>2. \A z \in Years : z # y => nextNo'[z] = nextNo[z]
      BY <1>3 DEF TypeOK
    <3> QED
      BY <1>10, <3>1, <3>2 DEF ReadStillHolds, NumberersOf
  <2>3. \A u \in Inserters' : ~Clashes(draft[u])'
    BY <1>3, <1>6, <1>10 DEF ReadStillHolds, Clashes, SameKey, IsReversal, Inserters
  <2>4. \A u, v \in Inserters' : SameKey(draft[u], draft[v])' => u = v
    BY <1>10 DEF ReadStillHolds, SameKey, IsReversal, Inserters
  <2> QED
    BY <1>3, <2>1, <2>2, <2>3, <2>4 DEF ReadStillHolds
<1> QED
  BY <1>4, <1>5, <1>7, <1>8, <1>9, <1>11, <1>12

\* The period transactions.
LEMMA AdminStep ==
    ASSUME LedgerInv, NEW a \in Admins,
           AdminBegin(a) \/ AdminAdvance(a) \/ AdminRollback(a)
    PROVE  LedgerInv'
<1> USE DEF LedgerInv, AdminGoto, Stored, PosterVars
<1>1. /\ UNCHANGED <<journal, nextNo, pc, draft, target>>
      /\ \A b \in Admins : b # a => adminPc'[b] = adminPc[b]
  BY DEF AdminBegin, AdminAdvance, AdminRollback, CreateInsert, CreateCommit,
         CloseLock, CloseCommit, TypeOK
<1>2. GaplessNumbering' /\ PostedOnce' /\ EntriesLegal' /\ DraftShape' /\ DraftsLegal'
  BY <1>1 DEF GaplessNumbering, InYear, Numbers, PostedOnce, SameKey, IsReversal,
     EntriesLegal, DraftShape, DraftOf, DraftsLegal, LegalDraft
<1>3. /\ \A m \in Months : SharersOf(m)' = SharersOf(m)
      /\ \A y \in Years : NumberersOf(y)' = NumberersOf(y)
      /\ Inserters' = Inserters
      /\ \A t \in Posters : Clashes(draft[t])' = Clashes(draft[t])
  BY <1>1 DEF SharersOf, NumberersOf, Inserters, Clashes, SameKey, IsReversal
<1>4. TypeOK'
  BY <1>1 DEF AdminBegin, AdminAdvance, AdminRollback, CreateInsert, CreateCommit,
     CloseLock, CloseCommit, TypeOK
<1>5. LockInv'
  BY <1>1, <1>3 DEF AdminBegin, AdminAdvance, AdminRollback, CreateInsert, CreateCommit,
     CloseLock, CloseCommit, TypeOK, LockInv, ClosersOf
<1>6. \A m \in Months : SharersOf(m)' # {} => period'[m] = "OPEN"
  <2>1. CASE CloseCommit(a)
    <3>1. SharersOf(target[a]) = {}
      BY <2>1 DEF CloseCommit, LockInv, ClosersOf, SharersOf, TypeOK
    <3>2. \A m \in Months : m # target[a] => period'[m] = period[m]
      BY <2>1 DEF CloseCommit, TypeOK
    <3> QED
      BY <1>3, <3>1, <3>2 DEF ReadStillHolds
  <2>2. CASE CreateCommit(a)
    BY <2>2, <1>3 DEF CreateCommit, ReadStillHolds, TypeOK
  <2>3. CASE UNCHANGED period
    BY <2>3, <1>3 DEF ReadStillHolds
  <2> QED
    BY <2>1, <2>2, <2>3 DEF AdminBegin, AdminAdvance, AdminRollback, CreateInsert, CloseLock
<1>7. \A b \in Admins :
          /\ adminPc'[b] = "createCommit" => period'[target[b]] = "absent"
          /\ adminPc'[b] = "closeCommit" => period'[target[b]] = "OPEN"
  BY <1>1 DEF AdminBegin, AdminAdvance, AdminRollback, CreateInsert, CreateCommit,
     CloseLock, CloseCommit, TypeOK, LockInv, ReadStillHolds
<1>8. ReadStillHolds'
  BY <1>1, <1>3, <1>6, <1>7 DEF ReadStillHolds, SameKey, IsReversal, Inserters
<1> QED
  BY <1>2, <1>4, <1>5, <1>8

\* LedgerInv is inductive.
LEMMA StepInv == LedgerInv /\ [Next]_vars => LedgerInv'
<1> SUFFICES ASSUME LedgerInv, [Next]_vars PROVE LedgerInv'
  OBVIOUS
<1>1. ASSUME NEW t \in Posters, Begin(t) PROVE LedgerInv'
  BY <1>1, BeginStep
<1>2. ASSUME NEW t \in Posters, Advance(t) PROVE LedgerInv'
  <2>1. CASE CommitNothing(t)
    BY <2>1, AbandonStep DEF CommitNothing
  <2> QED
    BY <1>2, <2>1, LockPeriodStep, AllocateNoStep, InsertEntryStep, CommitEntryStep
    DEF Advance
<1>3. ASSUME NEW t \in Posters, Rollback(t) PROVE LedgerInv'
  BY <1>3, AbandonStep DEF Rollback
<1>4. ASSUME NEW a \in Admins, AdminBegin(a) \/ AdminAdvance(a) \/ AdminRollback(a)
      PROVE  LedgerInv'
  BY <1>4, AdminStep
<1>5. CASE UNCHANGED vars
  BY <1>5 DEF vars, LedgerInv, TypeOK, GaplessNumbering, InYear, Numbers, PostedOnce,
     SameKey, IsReversal, EntriesLegal, DraftShape, DraftOf, DraftsLegal, LegalDraft,
     LockInv, ReadStillHolds, SharersOf, NumberersOf, ClosersOf, Inserters, Clashes
<1> QED
  BY <1>1, <1>2, <1>3, <1>4, <1>5 DEF Next, Finished

-------------------------------------------------------------------------------
(* The theorems. *)

\* In every reachable state the invariant of Ledger holds: what a posting
\* transaction read under its locks is still true when it commits.
THEOREM Inductive == Spec => []LedgerInv
<1>1. Init => LedgerInv
  BY InitInv
<1>2. LedgerInv /\ [Next]_vars => LedgerInv'
  BY StepInv
<1> QED
  BY <1>1, <1>2, PTL DEF Spec

\* Every variable of the ledger keeps its type.
THEOREM TypeCorrect == Spec => []TypeOK
<1>1. LedgerInv => TypeOK
  BY DEF LedgerInv
<1> QED
  BY <1>1, Inductive, PTL

\* ADR-005 R2: the voucher numbers of a year have no gap and no duplicate,
\* although numbers are drawn before it is known whether the entry commits.
THEOREM Gapless == Spec => []GaplessNumbering
<1>1. LedgerInv => GaplessNumbering
  BY DEF LedgerInv
<1> QED
  BY <1>1, Inductive, PTL

\* ADR-003 Decision 3: duplicate deliveries and racing reversals post once.
THEOREM Idempotent == Spec => []PostedOnce
<1>1. LedgerInv => PostedOnce
  BY DEF LedgerInv
<1> QED
  BY <1>1, Inductive, PTL
\* ADR-005 R4: no entry gets into a month after it is closed, and a closed
\* month stays closed.
THEOREM ClosedFrozen == Spec => ClosedPeriodFrozen
<1> DEFINE P == \A m \in Months : period[m] = "CLOSED" =>
                  /\ period'[m] = "CLOSED"
                  /\ \A e \in journal' \ journal : e.month # m
<1>1. LedgerInv /\ [Next]_vars => [P]_<<period, journal>>
  <2> SUFFICES ASSUME LedgerInv, Next PROVE P \/ UNCHANGED <<period, journal>>
    BY DEF vars
  <2> USE DEF LedgerInv
  <2>1. ASSUME NEW t \in Posters, CommitEntry(t) PROVE P
    BY <2>1 DEF CommitEntry, ReadStillHolds, SharersOf, TypeOK
  <2>2. ASSUME NEW a \in Admins, CreateCommit(a) PROVE P
    BY <2>2 DEF CreateCommit, ReadStillHolds, TypeOK
  <2>3. ASSUME NEW a \in Admins, CloseCommit(a) PROVE P
    BY <2>3 DEF CloseCommit, TypeOK
  <2> QED
    BY <2>1, <2>2, <2>3
    DEF Next, Begin, Advance, Rollback, AdminBegin, AdminAdvance, AdminRollback,
        BeginManual, BeginEvent, BeginReverse, LockPeriod, AllocateNo, InsertEntry,
        CommitNothing, CreateInsert, CloseLock, Finished, Stored, vars
<1> QED
  BY <1>1, Inductive, PTL DEF Spec, ClosedPeriodFrozen

\* The committing step of a post is one legal step of the abstract book.
LEMMA CommitRecords ==
    ASSUME LedgerInv, NEW t \in Posters, CommitEntry(t)
    PROVE  Book!Next
<1> USE DEF LedgerInv
<1>0. PICK d \in Entry, y \in Years : d = draft[t] /\ y = YearOf[d.month]
  BY JournalAssumption DEF CommitEntry, TypeOK, Entry
<1>1. /\ d.id = t /\ LegalDraft(d)
      /\ t \in Inserters /\ t \in NumberersOf(y) /\ t \in SharersOf(d.month)
  BY <1>0
  DEF CommitEntry, TypeOK, DraftShape, DraftsLegal, DraftOf, Entry, Inserters,
      NumberersOf, SharersOf
<1>2. journal' = journal \cup {d} /\ UNCHANGED period
  BY <1>0 DEF CommitEntry
<1>3. period[d.month] = "OPEN"
  BY <1>1 DEF ReadStillHolds, Entry
<1>4. Book!IsNextNumber(d.no, y)
  <2>1. d.no = nextNo[y]
    BY <1>0, <1>1 DEF ReadStillHolds
  <2> QED
    BY <2>1 DEF Book!IsNextNumber, Book!Numbers, Book!InYear, Numbers, InYear,
       GaplessNumbering, TypeOK
<1>5. \A o \in journal : o.id # d.id
  BY <1>1 DEF DraftShape, Inserters
<1>6. ~Clashes(d)
  BY <1>0, <1>1 DEF ReadStillHolds
<1>7. \/ Book!IsManual(d) /\ Book!Touched(d.lines) \cap Control = {}
      \/ /\ d.source # NoSource /\ ~Book!IsReversal(d)
         /\ \A o \in journal : o.source # d.source
      \/ Book!IsReversal(d) /\ Book!LegalReversal(d)
  <2> USE DEF IsReversal, Book!IsReversal, IsManual, Book!IsManual, Touched, Book!Touched
  <2>1. CASE IsReversal(d)
    BY <1>1, <1>6, <2>1
    DEF LegalDraft, Clashes, SameKey, Book!LegalReversal, Book!ReversedIn, Swap, Book!Swap
  <2>2. CASE ~IsReversal(d)
    BY <1>1, <1>6, <2>2 DEF LegalDraft, Clashes, SameKey
  <2> QED
    BY <2>1, <2>2
<1>8. Book!Record(d)
  BY <1>0, <1>1, <1>2, <1>3, <1>4, <1>5, <1>7
  DEF Book!Record, LegalDraft, Touched, Book!Touched
<1>9. d \in journal' \ journal
  BY <1>2, <1>5
<1> QED
  BY <1>0, <1>8, <1>9 DEF Book!Next, Book!Entry, Book!Lines, Entry, Lines

\* The ledger implements the abstract book: ADR-002 and ADR-005 promise Journal.
THEOREM Implements == Spec => ImplementsJournal
<1>1. Init => Book!Init
  BY DEF Init, Book!Init
<1>2. LedgerInv /\ [Next]_vars => [Book!Next]_(Book!vars)
  <2> SUFFICES ASSUME LedgerInv, Next PROVE Book!Next \/ UNCHANGED <<period, journal>>
    BY DEF vars, Book!vars
  <2> USE DEF LedgerInv
  <2>1. ASSUME NEW t \in Posters, CommitEntry(t) PROVE Book!Next
    BY <2>1, CommitRecords
  <2>2. ASSUME NEW a \in Admins, CreateCommit(a) PROVE Book!Next
    BY <2>2 DEF CreateCommit, ReadStillHolds, TypeOK, Book!Next, Book!Open
  <2>3. ASSUME NEW a \in Admins, CloseCommit(a) PROVE Book!Next
    BY <2>3 DEF CloseCommit, ReadStillHolds, TypeOK, Book!Next, Book!Close
  <2> QED
    BY <2>1, <2>2, <2>3
    DEF Next, Begin, Advance, Rollback, AdminBegin, AdminAdvance, AdminRollback,
        BeginManual, BeginEvent, BeginReverse, LockPeriod, AllocateNo, InsertEntry,
        CommitNothing, CreateInsert, CloseLock, Finished, Stored, vars
<1> QED
  BY <1>1, <1>2, Inductive, PTL DEF Spec, ImplementsJournal, Book!Spec
===============================================================================
