------------------------------ MODULE StockProofs ------------------------------
(***************************************************************************)
(* Theorems of the specification Stock, for every set of writers,          *)
(* rebuilds, products and shipments.                                       *)
(***************************************************************************)
EXTENDS Stock, Sums

(***************************************************************************)
(* Quantities and totals.                                                  *)
(***************************************************************************)

LEMMA QtyInt ==
    ASSUME NEW s \in Shipments, NEW p
    PROVE  QtyOf(s, p) \in Int
<1> DEFINE D == LinesOf(s, p)
           f == [i \in D |-> ShipmentLines[s][i].qty]
<1>1. D \subseteq DOMAIN ShipmentLines[s]
  BY DEF LinesOf
<1>2. IsFiniteSet(D)
  BY <1>1, StockAssumption, FS_Subset
<1>3. f \in [D -> Int]
  BY <1>1, StockAssumption DEF OrderLine
<1> HIDE DEF D, f
<1>4. SumFunction(f) \in Int
  BY <1>2, <1>3, SumInt
<1> QED
  BY <1>4 DEF QtyOf, D, f

\* The moves that deliver a shipment: one of each of its products.
LEMMA BatchThere ==
    ASSUME NEW s \in Shipments, NEW t \in Writers \cup {NoWriter}
    PROVE  /\ Batch(t, s) \subseteq MoveType /\ IsFiniteSet(Batch(t, s))
           /\ \A m \in Batch(t, s) : m.by = t /\ m.source = s /\ m.product \in ProductsOf(s)
                                     /\ m.delta = -QtyOf(s, m.product)
           /\ \A p \in ProductsOf(s) : \E m \in Batch(t, s) : m.product = p
           /\ \A m, n \in Batch(t, s) : m.product = n.product => m = n
<1> DEFINE row(p) == [by |-> t, product |-> p, delta |-> -QtyOf(s, p), source |-> s]
<1>1. Batch(t, s) = {row(p) : p \in ProductsOf(s)}
  BY DEF Batch
<1>2. ProductsOf(s) \subseteq Products /\ IsFiniteSet(ProductsOf(s))
  BY StockAssumption, FS_Subset DEF ProductsOf
<1>3. \A p \in ProductsOf(s) : row(p) \in MoveType
  BY <1>2, QtyInt DEF MoveType
<1>4. \A p : row(p).by = t /\ row(p).product = p /\ row(p).source = s /\ row(p).delta = -QtyOf(s, p)
  OBVIOUS
<1> HIDE DEF row
<1>5. IsFiniteSet({row(p) : p \in ProductsOf(s)})
  <2> DEFINE f == [p \in ProductsOf(s) |-> row(p)]
  <2>1. {f[p] : p \in ProductsOf(s)} = {row(p) : p \in ProductsOf(s)}
    OBVIOUS
  <2>2. IsFiniteSet({f[p] : p \in ProductsOf(s)})
    BY <1>2, ImageFinite
  <2> QED
    BY <2>1, <2>2
<1>6. Batch(t, s) \subseteq MoveType
  BY <1>1, <1>3
<1>7. \A m \in Batch(t, s) : m.by = t /\ m.source = s /\ m.product \in ProductsOf(s)
                              /\ m.delta = -QtyOf(s, m.product)
  BY <1>1, <1>4
<1>8. \A p \in ProductsOf(s) : \E m \in Batch(t, s) : m.product = p
  BY <1>1, <1>4
<1>9. \A m, n \in Batch(t, s) : m.product = n.product => m = n
  BY <1>1, <1>4
<1> QED
  BY <1>1, <1>5, <1>6, <1>7, <1>8, <1>9

\* What a writer has to write: its own moves, of one source, one of each product.
LEMMA JobThere ==
    ASSUME NEW t \in Writers, Asked(t), pc[t] # "idle"
    PROVE  /\ job[t] \subseteq MoveType /\ IsFiniteSet(job[t])
           /\ \A m \in job[t] : m.by = t
           /\ \A m, n \in job[t] : m.source = n.source /\ (m.product = n.product => m = n)
<1>1. ASSUME NEW s \in Shipments, job[t] = Batch(t, s)
      PROVE  /\ job[t] \subseteq MoveType /\ IsFiniteSet(job[t])
             /\ \A m \in job[t] : m.by = t
             /\ \A m, n \in job[t] : m.source = n.source /\ (m.product = n.product => m = n)
  BY <1>1, BatchThere
<1>2. ASSUME NEW a \in Adjustments, job[t] = Single(t, a)
      PROVE  /\ job[t] \subseteq MoveType /\ IsFiniteSet(job[t])
             /\ \A m \in job[t] : m.by = t
             /\ \A m, n \in job[t] : m.source = n.source /\ (m.product = n.product => m = n)
  <2>1. IsFiniteSet(Single(t, a))
    BY FS_Singleton DEF Single
  <2>2. Single(t, a) \subseteq MoveType
    BY StockAssumption DEF Single, MoveType
  <2> QED
    BY <1>2, <2>1, <2>2 DEF Single
<1> QED
  BY <1>1, <1>2 DEF Asked

LEMMA TotalInt ==
    ASSUME NEW ms \in SUBSET MoveType, IsFiniteSet(ms), NEW p
    PROVE  Total(ms, p) \in Int
<1> DEFINE D == {n \in ms : n.product = p}
           f == [m \in D |-> m.delta]
<1>1. IsFiniteSet(D)
  BY FS_Subset
<1>2. f \in [D -> Int]
  BY DEF MoveType
<1> HIDE DEF D, f
<1>3. SumFunction(f) \in Int
  BY <1>1, <1>2, SumInt
<1> QED
  BY <1>3 DEF Total, D, f

LEMMA TotalOfNone ==
    ASSUME NEW ms, NEW p, \A m \in ms : m.product # p
    PROVE  Total(ms, p) = 0
<1>1. {n \in ms : n.product = p} = {}
  OBVIOUS
<1>2. DOMAIN [m \in {n \in ms : n.product = p} |-> m.delta] = {}
  BY <1>1
<1> QED
  BY <1>2, SumEmpty DEF Total

\* Moves of other products do not count.
LEMMA TotalOthers ==
    ASSUME NEW ms, NEW D, NEW p, \A d \in D : d.product # p
    PROVE  Total(ms \cup D, p) = Total(ms, p)
<1>1. {n \in ms \cup D : n.product = p} = {n \in ms : n.product = p}
  OBVIOUS
<1> QED
  BY <1>1 DEF Total

\* One move more of a product.
LEMMA TotalAdds ==
    ASSUME NEW ms \in SUBSET MoveType, IsFiniteSet(ms), NEW D, NEW m \in D, m \in MoveType,
           m \notin ms, \A d \in D : d.product = m.product => d = m
    PROVE  Total(ms \cup D, m.product) = Total(ms, m.product) + m.delta
<1> DEFINE p == m.product
           E == {n \in ms : n.product = p}
           F == {n \in ms \cup D : n.product = p}
           f == [n \in F |-> n.delta]
<1>1. F = E \cup {m} /\ m \notin E /\ m \in F /\ F \ {m} = E
  OBVIOUS
<1>2. IsFiniteSet(E)
  BY FS_Subset
<1>3. IsFiniteSet(F)
  <2> HIDE DEF E, F
  <2>1. IsFiniteSet(E \cup {m})
    BY <1>2, FS_AddElement
  <2> QED
    BY <1>1, <2>1
<1>4. f \in [F -> Int] /\ f[m] = m.delta
  BY <1>1 DEF MoveType
<1>5. Part(f, E) = [n \in E |-> n.delta]
  BY <1>1 DEF Part
<1>6. Total(ms, p) = SumFunction([n \in E |-> n.delta]) /\ Total(ms \cup D, p) = SumFunction(f)
  BY DEF Total
<1>7. Total(ms, p) \in Int /\ m.delta \in Int
  BY TotalInt DEF MoveType
<1> HIDE DEF F, f, E, p
<1>8. SumFunction(f) = f[m] + SumFunction(Part(f, E))
  BY <1>1, <1>3, <1>4, SumSplit
<1>9. Total(ms \cup D, p) = Total(ms, p) + m.delta
  BY <1>4, <1>5, <1>6, <1>7, <1>8
<1> QED
  BY <1>9 DEF p

-------------------------------------------------------------------------------
(***************************************************************************)
(* StockInv is inductive.                                                  *)
(***************************************************************************)

LEMMA LockedThere ==
    ASSUME TypeOK
    PROVE  /\ \A t \in Writers : rows[t] = NoRows <=> Locked(t) = {}
           /\ SharedHolders = {} <=> \A t \in Writers : Locked(t) = {}
           /\ \A p \in Products : OnHand(p) \in Int
<1>1. ASSUME NEW t \in Writers PROVE rows[t] = NoRows <=> Locked(t) = {}
  <2>1. rows[t] = [p \in Products |-> rows[t][p]]
    BY DEF TypeOK, Counts
  <2> QED
    BY <2>1 DEF Locked, NoRows
<1>2. SharedHolders = {} <=> \A t \in Writers : Locked(t) = {}
  BY <1>1 DEF SharedHolders
<1>3. \A p \in Products : OnHand(p) \in Int
  BY DEF TypeOK, Counts, OnHand
<1> QED
  BY <1>1, <1>2, <1>3

LEMMA InitStockInv == Init => StockInv
<1> SUFFICES ASSUME Init PROVE StockInv
  OBVIOUS
<1>1. TypeOK
  <2>1. moves \subseteq MoveType /\ IsFiniteSet(moves)
    BY StockAssumption DEF Init, Move, MoveType
  <2>2. summary \in Counts
    BY SummariesAssumption DEF Init, Counts
  <2>3. rows \in [Writers -> Counts] /\ totals \in [Rebuilders -> Counts]
    BY DEF Init, Counts, NoRows
  <2>4. trusted \in BOOLEAN
    BY DEF Init, Accurate
  <2> QED
    BY <2>1, <2>2, <2>3, <2>4 DEF Init, TypeOK
<1>2. \A t \in Writers : Locked(t) = {}
  BY DEF Init, Locked, NoRows
<1>3. ExclusiveHolders = {}
  BY DEF Init, ExclusiveHolders
<1>4. Excluded
  BY <1>2, <1>3 DEF Excluded
<1>5. Committed
  BY StockAssumption DEF Init, Committed
<1>6. OnHandIsTotal
  BY DEF Init, OnHandIsTotal
<1>7. \A t \in Writers : Asked(t) /\ Written(t) /\ Counted(t) /\ NewOrThere(t)
  BY <1>2 DEF Init, Asked, Written, Counted, NewOrThere
<1>8. \A r \in Rebuilders : Counting(r)
  BY DEF Init, Counting
<1> QED
  BY <1>1, <1>4, <1>5, <1>6, <1>7, <1>8 DEF StockInv

SameWriter(t) ==
    pc'[t] = pc[t] /\ job'[t] = job[t] /\ draft'[t] = draft[t] /\ rows'[t] = rows[t]

SameRebuild(r) == rpc'[r] = rpc[r] /\ existing'[r] = existing[r] /\ totals'[r] = totals[r]

Local(t) == Asked(t) /\ Written(t) /\ Counted(t) /\ NewOrThere(t)

\* What a writer is, with the tables as they were.
LEMMA LocalStays ==
    ASSUME UNCHANGED Stored, NEW t \in Writers, SameWriter(t), Local(t)
    PROVE  Local(t)'
<1>1. /\ Locked(t)' = Locked(t) /\ \A m : IsNext(t, m)' = IsNext(t, m)
  BY DEF SameWriter, Locked, IsNext
<1>2. \A p : OnHand(p)' = OnHand(p)
  BY DEF Stored, OnHand
<1> USE DEF SameWriter, Stored
<1>3. Asked(t)'
  BY DEF Local, Asked
<1>4. Written(t)'
  BY <1>1 DEF Local, Written
<1>5. Counted(t)'
  BY <1>1, <1>2 DEF Local, Counted
<1>6. NewOrThere(t)'
  BY DEF Local, NewOrThere
<1> QED
  BY <1>3, <1>4, <1>5, <1>6 DEF Local

\* The steps of a writer that leave the tables keep the invariant if they keep
\* what it is about that writer, and take free rows alone.
LEMMA WriterKeeps ==
    ASSUME StockInv, TypeOK', UNCHANGED <<Stored, RebuildVars>>, NEW t \in Writers,
           \A u \in Writers \ {t} : SameWriter(u), Local(t)',
           pc[t] # "committed",
           \/ Locked(t)' \subseteq Locked(t)
           \/ /\ ExclusiveHolders = {}
              /\ \A p \in Locked(t)' \ Locked(t) : RowHolders(p) \subseteq {t}
    PROVE  StockInv'
<1>1. \A u \in Writers \ {t} : Locked(u)' = Locked(u)
  BY DEF SameWriter, Locked
<1>2. ExclusiveHolders' = ExclusiveHolders
  BY DEF ExclusiveHolders, RebuildVars
<1>3. Excluded'
  <2>1. CASE Locked(t)' \subseteq Locked(t)
    BY <1>1, <1>2, <2>1 DEF Excluded, StockInv
  <2>2. CASE /\ ExclusiveHolders = {}
             /\ \A p \in Locked(t)' \ Locked(t) : RowHolders(p) \subseteq {t}
    <3>1. \A u \in Writers \ {t} : Locked(t)' \cap Locked(u) = {}
      <4> SUFFICES ASSUME NEW u \in Writers \ {t}, NEW p \in Locked(t)', p \in Locked(u)
                   PROVE  FALSE
        OBVIOUS
      <4>1. p \in Locked(t) \/ RowHolders(p) \subseteq {t}
        BY <2>2
      <4>2. u \in RowHolders(p)
        BY DEF RowHolders, Locked
      <4> QED
        BY <4>1, <4>2 DEF StockInv, Excluded
    <3> QED
      BY <1>1, <1>2, <2>2, <3>1 DEF Excluded, StockInv
  <2> QED
    BY <2>1, <2>2
<1>4. Committed'
  <2>1. moves' = moves /\ Committed
    BY DEF Stored, StockInv
  <2>2. \A u \in Writers : pc[u] = "committed" => pc'[u] = "committed"
    BY DEF SameWriter
  <2> QED
    BY <2>1, <2>2 DEF Committed
<1>5. OnHandIsTotal'
  BY DEF StockInv, OnHandIsTotal, Accurate, OnHand, Stored
<1>6. \A u \in Writers : Local(u)'
  <2>1. ASSUME NEW u \in Writers \ {t} PROVE Local(u)'
    BY LocalStays DEF StockInv, Local
  <2> QED
    BY <2>1
<1>7. \A r \in Rebuilders : Counting(r)'
  BY DEF StockInv, Counting, Stored, RebuildVars
<1> QED
  BY <1>3, <1>4, <1>5, <1>6, <1>7 DEF StockInv, Local

\* The steps of a rebuild that leave the tables.
LEMMA RebuildKeeps ==
    ASSUME StockInv, TypeOK', UNCHANGED <<Stored, WriterVars>>, NEW r \in Rebuilders,
           \A q \in Rebuilders \ {r} : SameRebuild(q), Counting(r)',
           \/ ExclusiveHolders' \subseteq ExclusiveHolders
           \/ ExclusiveHolders' \subseteq {r} /\ \A t \in Writers : Locked(t) = {}
    PROVE  StockInv'
<1>1. \A t \in Writers : SameWriter(t) /\ Locked(t)' = Locked(t)
  BY DEF WriterVars, SameWriter, Locked
<1>2. Excluded'
  BY <1>1 DEF StockInv, Excluded
<1>3. Committed' /\ OnHandIsTotal'
  BY DEF StockInv, Committed, OnHandIsTotal, Accurate, OnHand, Stored, WriterVars
<1>4. \A t \in Writers : Local(t)'
  BY <1>1, LocalStays DEF StockInv, Local
<1>5. \A q \in Rebuilders : Counting(q)'
  BY DEF StockInv, Counting, Stored, SameRebuild
<1> QED
  BY <1>2, <1>3, <1>4, <1>5 DEF StockInv, Local

\* A new request of a writer that has not been asked for anything.
LEMMA BeginKeeps ==
    ASSUME StockInv, NEW t \in Writers,
           (\E s \in Shipments : BeginDelivery(t, s)) \/ \E a \in Adjustments : BeginAdjustment(t, a)
    PROVE  StockInv'
<1>0. TypeOK /\ Local(t)
  BY DEF StockInv, Local
<1>1. /\ pc[t] = "idle" /\ pc' = [pc EXCEPT ![t] = "lock"] /\ UNCHANGED <<Stored, draft, rows, RebuildVars>>
      /\ \E w \in SUBSET MoveType :
            /\ job' = [job EXCEPT ![t] = w]
            /\ (\E s \in Shipments : w = Batch(t, s)) \/ \E a \in Adjustments : w = Single(t, a)
  <2>1. ASSUME NEW s \in Shipments, BeginDelivery(t, s) PROVE <1>1!:
    BY <2>1, BatchThere DEF BeginDelivery, Goto
  <2>2. ASSUME NEW a \in Adjustments, BeginAdjustment(t, a) PROVE <1>1!:
    <3>1. Single(t, a) \subseteq MoveType
      BY StockAssumption DEF Single, MoveType
    <3> QED
      BY <2>2, <3>1 DEF BeginAdjustment, Goto
  <2> QED
    BY <2>1, <2>2
<1>2. /\ pc'[t] = "lock" /\ draft'[t] = draft[t] /\ rows'[t] = rows[t]
      /\ \A u \in Writers \ {t} : SameWriter(u)
  BY <1>0, <1>1 DEF TypeOK, SameWriter
<1>3. Locked(t) = {} /\ Locked(t)' = {} /\ draft[t] = {}
  BY <1>0, <1>1, <1>2 DEF Local, Written, Locked
<1>4. TypeOK'
  BY <1>0, <1>1 DEF TypeOK, Stored, RebuildVars
<1>5. Local(t)'
  BY <1>0, <1>1, <1>2, <1>3 DEF TypeOK, Local, Asked, Written, Counted, NewOrThere
<1> QED
  BY <1>1, <1>2, <1>3, <1>4, <1>5, WriterKeeps

LEMMA LockSummaryKeeps ==
    ASSUME StockInv, NEW t \in Writers, NEW m \in job[t], LockSummary(t, m)
    PROVE  StockInv'
<1> DEFINE p == m.product
<1>0. TypeOK /\ Local(t)
  BY DEF StockInv, Local
<1>1. /\ pc[t] = "lock" /\ pc' = [pc EXCEPT ![t] = "write"] /\ UNCHANGED <<Stored, job, draft, RebuildVars>>
      /\ IsNext(t, m) /\ ExclusiveHolders = {} /\ RowHolders(p) \subseteq {t}
      /\ rows' = [rows EXCEPT ![t][p] = IF @ = Missing THEN OnHand(p) ELSE @]
  BY DEF LockSummary, Goto
<1>2. /\ job[t] \subseteq MoveType /\ p \in Products
      /\ \A n \in job[t] : n.product = p => n = m
  BY <1>0, <1>1, JobThere DEF Local, MoveType
<1>3. OnHand(p) \in Int /\ OnHand(p) # Missing
  BY <1>0, <1>2, LockedThere, SummariesAssumption
<1>4. /\ rows'[t] = [rows[t] EXCEPT ![p] = IF rows[t][p] = Missing THEN OnHand(p) ELSE rows[t][p]]
      /\ rows' \in [Writers -> Counts]
      /\ pc'[t] = "write" /\ draft'[t] = draft[t] /\ job'[t] = job[t]
      /\ \A u \in Writers \ {t} : SameWriter(u)
  <2>1. rows[t] \in Counts
    BY <1>0 DEF TypeOK
  <2>2. [rows[t] EXCEPT ![p] = IF rows[t][p] = Missing THEN OnHand(p) ELSE rows[t][p]] \in Counts
    BY <1>2, <1>3, <2>1 DEF Counts
  <2>3. rows' = [rows EXCEPT ![t] =
                   [rows[t] EXCEPT ![p] = IF rows[t][p] = Missing THEN OnHand(p) ELSE rows[t][p]]]
    BY <1>1
  <2> QED
    BY <1>0, <1>1, <2>2, <2>3 DEF TypeOK, SameWriter
<1>5. TypeOK'
  BY <1>0, <1>1, <1>4 DEF TypeOK, Stored, RebuildVars
<1>6. /\ Locked(t)' = Locked(t) \cup {p}
      /\ \A q \in Locked(t) : rows'[t][q] = rows[t][q]
      /\ p \notin Locked(t) => rows'[t][p] = OnHand(p)
  BY <1>0, <1>2, <1>3, <1>4 DEF Locked, TypeOK, Counts
<1>7. \A n \in draft[t] : n # m
  BY <1>1 DEF IsNext
<1>8. Local(t)'
  <2>1. Asked(t)'
    BY <1>0, <1>1, <1>4 DEF Local, Asked
  <2>2. Written(t)'
    <3>1. \A n \in job[t] : IsNext(t, n)' => n = m
      <4> SUFFICES ASSUME NEW n \in job[t], IsNext(t, n)' PROVE n = m
        OBVIOUS
      <4>1. n \in job[t] \ draft[t] /\ n.product <= m.product /\ m.product <= n.product
        BY <1>1, <1>4 DEF IsNext
      <4>2. n.product \in Int /\ m.product \in Int
        BY <1>2, StockAssumption DEF MoveType
      <4> QED
        BY <1>2, <4>1, <4>2
    <3> QED
      BY <1>0, <1>4, <1>6, <3>1 DEF Local, Written
  <2>3. Counted(t)'
    <3>1. \A q \in Products : OnHand(q)' = OnHand(q)
      BY <1>1 DEF OnHand, Stored
    <3>2. \A n \in draft[t] : n.product # p
      BY <1>0, <1>2, <1>7 DEF Local, Written
    <3>3. ASSUME NEW q \in Locked(t)', p \in Locked(t) \/ q # p
          PROVE  /\ \A n \in draft'[t] : n.product = q => rows'[t][q] = OnHand(q)' + n.delta
                 /\ (\A n \in draft'[t] : n.product # q) => rows'[t][q] = OnHand(q)'
      <4>1. q \in Locked(t) /\ q \in Products
        BY <1>6, <3>3 DEF Locked
      <4> QED
        BY <1>0, <1>4, <1>6, <3>1, <4>1 DEF Local, Counted
    <3>4. ASSUME p \notin Locked(t)
          PROVE  /\ \A n \in draft'[t] : n.product = p => rows'[t][p] = OnHand(p)' + n.delta
                 /\ (\A n \in draft'[t] : n.product # p) => rows'[t][p] = OnHand(p)'
      BY <1>2, <1>4, <1>6, <3>1, <3>2, <3>4
    <3> HIDE DEF p
    <3> QED
      BY <1>6, <3>3, <3>4 DEF Counted
  <2>4. NewOrThere(t)'
    BY <1>0, <1>1, <1>4 DEF Local, NewOrThere, Stored
  <2> QED
    BY <2>1, <2>2, <2>3, <2>4 DEF Local
<1>9. \A q \in Locked(t)' \ Locked(t) : RowHolders(q) \subseteq {t}
  BY <1>1, <1>6
<1> QED
  BY <1>1, <1>4, <1>5, <1>8, <1>9, WriterKeeps DEF RebuildVars

\* A writer that lets go of all it has locked and written.
LEMMA ReleaseKeeps ==
    ASSUME StockInv, NEW t \in Writers, Release(t), UNCHANGED <<Stored, job, RebuildVars>>,
           NEW how \in {"failed", "commit"}, Goto(t, how), pc[t] \notin {"idle", "committed"},
           how = "commit" => \A m \in job[t] : m.source # NoShipment => MovesOf(moves, m.source) # {}
    PROVE  StockInv'
<1>0. TypeOK /\ Local(t)
  BY DEF StockInv, Local
<1>1. /\ rows' \in [Writers -> Counts] /\ rows'[t] = NoRows /\ draft'[t] = {} /\ pc'[t] = how
      /\ job'[t] = job[t] /\ \A u \in Writers \ {t} : SameWriter(u)
  BY <1>0 DEF Release, Goto, TypeOK, Counts, NoRows, SameWriter
<1>2. TypeOK'
  BY <1>0, <1>1 DEF TypeOK, Release, Goto, Stored, RebuildVars
<1>3. Locked(t)' = {}
  BY <1>1 DEF Locked, NoRows
<1>4. Local(t)'
  BY <1>0, <1>1, <1>3 DEF Local, Asked, Written, Counted, NewOrThere, Stored
<1> QED
  BY <1>1, <1>2, <1>3, <1>4, WriterKeeps DEF RebuildVars

LEMMA WriteMoveKeeps ==
    ASSUME StockInv, NEW t \in Writers, NEW m \in job[t], WriteMove(t, m)
    PROVE  StockInv'
<1> DEFINE p == m.product
           next == IF job[t] = draft[t] \cup {m} THEN "commit" ELSE "lock"
<1>0. TypeOK /\ Local(t) /\ pc[t] = "write" /\ IsNext(t, m)
  BY DEF StockInv, Local, WriteMove
<1>1. /\ job[t] \subseteq MoveType /\ p \in Products /\ m.delta \in Int /\ m \in MoveType
      /\ \A n \in job[t] : n.product = p => n = m
  BY <1>0, JobThere DEF Local, MoveType
<1>2. /\ draft[t] \subseteq job[t] /\ m \notin draft[t] /\ p \in Locked(t)
      /\ \A n \in draft[t] : n.product # p
  BY <1>0, <1>1 DEF Local, Written, IsNext
<1>3. rows[t] \in Counts /\ rows[t][p] \in Int /\ rows[t][p] + m.delta >= 0
  BY <1>0, <1>1, <1>2 DEF TypeOK, Locked, Counts, WriteMove, Sufficient
<1>4. /\ draft'[t] = draft[t] \cup {m} /\ job'[t] = job[t] /\ pc'[t] = next
      /\ rows'[t] = [rows[t] EXCEPT ![p] = rows[t][p] + m.delta]
      /\ \A u \in Writers \ {t} : SameWriter(u)
      /\ UNCHANGED <<Stored, RebuildVars>>
  BY <1>0 DEF WriteMove, Goto, TypeOK, SameWriter
<1>5. TypeOK'
  <2>1. [rows[t] EXCEPT ![p] = rows[t][p] + m.delta] \in Counts
    BY <1>1, <1>3 DEF Counts
  <2>2. rows' = [rows EXCEPT ![t] = [rows[t] EXCEPT ![p] = rows[t][p] + m.delta]]
    BY DEF WriteMove
  <2>3. rows' \in [Writers -> Counts]
    BY <1>0, <2>1, <2>2 DEF TypeOK
  <2>4. draft' \in [Writers -> SUBSET MoveType]
    BY <1>0, <1>1 DEF WriteMove, TypeOK
  <2>5. pc' \in [Writers -> {"idle", "lock", "write", "commit", "committed", "failed"}]
    BY <1>0 DEF WriteMove, Goto, TypeOK
  <2> QED
    BY <1>0, <2>3, <2>4, <2>5 DEF TypeOK, WriteMove, Stored, RebuildVars
<1>6. /\ Locked(t)' = Locked(t) /\ rows'[t][p] = rows[t][p] + m.delta
      /\ \A q \in Locked(t) \ {p} : rows'[t][q] = rows[t][q]
  BY <1>1, <1>3, <1>4, SummariesAssumption DEF Locked, Counts
<1>7. Local(t)'
  <2>1. Asked(t)'
    BY <1>0, <1>4 DEF Local, Asked
  <2>2. Written(t)'
    <3>1. \A n \in draft'[t] : n.product \in Locked(t)' /\ rows'[t][n.product] >= 0
      <4>1. \A n \in draft[t] : n.product \in Locked(t) \ {p} /\ rows[t][n.product] >= 0
        BY <1>0, <1>2 DEF Local, Written
      <4> QED
        BY <1>2, <1>3, <1>4, <1>6, <4>1
    <3>2. draft'[t] \subseteq job'[t] /\ (next = "commit" => draft'[t] = job'[t])
      BY <1>2, <1>4
    <3>3. next \in {"commit", "lock"}
      OBVIOUS
    <3> HIDE DEF next
    <3> QED
      BY <1>4, <3>1, <3>2, <3>3 DEF Written
  <2>3. Counted(t)'
    <3>1. \A q \in Products : OnHand(q)' = OnHand(q)
      BY <1>4 DEF OnHand, Stored
    <3>2. ASSUME NEW q \in Locked(t), q # p
          PROVE  /\ \A n \in draft'[t] : n.product = q => rows'[t][q] = OnHand(q)' + n.delta
                 /\ (\A n \in draft'[t] : n.product # q) => rows'[t][q] = OnHand(q)'
      <4>1. q \in Products
        BY DEF Locked
      <4> QED
        BY <1>0, <1>4, <1>6, <3>1, <3>2, <4>1 DEF Local, Counted
    <3>3. rows'[t][p] = OnHand(p)' + m.delta
      BY <1>0, <1>1, <1>2, <1>6, <3>1 DEF Local, Counted
    <3>4. \A n \in draft'[t] : n.product = p => n = m
      BY <1>2, <1>4
    <3>5. m \in draft'[t]
      BY <1>4
    <3> QED
      BY <1>6, <3>2, <3>3, <3>4, <3>5 DEF Counted
  <2>4. NewOrThere(t)'
    <3>1. m.source = NoShipment \/ \A n \in moves : ~(m.source = n.source /\ m.product = n.product)
      BY DEF WriteMove, Duplicate
    <3>2. next = "commit" => draft'[t] = job'[t]
      BY <1>4
    <3>3. next # "committed"
      OBVIOUS
    <3> HIDE DEF next
    <3> QED
      BY <1>0, <1>4, <3>1, <3>2, <3>3 DEF Local, NewOrThere, Stored
  <2> QED
    BY <2>1, <2>2, <2>3, <2>4 DEF Local
<1> QED
  BY <1>0, <1>4, <1>5, <1>6, <1>7, WriterKeeps DEF RebuildVars

LEMMA EndKeeps ==
    ASSUME StockInv, NEW t \in Writers,
           \/ RollbackWriter(t)
           \/ \E m \in job[t] : RefuseShortage(t, m) \/ SkipBatch(t, m)
    PROVE  StockInv'
<1>1. CASE RollbackWriter(t) \/ \E m \in job[t] : RefuseShortage(t, m)
  BY <1>1, ReleaseKeeps DEF RollbackWriter, RefuseShortage
<1>2. ASSUME NEW m \in job[t], SkipBatch(t, m) PROVE StockInv'
  <2>1. /\ pc[t] = "write" /\ Goto(t, "commit") /\ Release(t) /\ UNCHANGED <<Stored, job, RebuildVars>>
        /\ IsNext(t, m) /\ Duplicate(t, m) /\ Asked(t) /\ Written(t)
    BY <1>2 DEF SkipBatch, StockInv
  <2>2. PICK n \in moves \cup draft[t] : n.source = m.source /\ n.product = m.product
    BY <2>1 DEF Duplicate
  <2>3. n \notin draft[t]
    BY <2>1, <2>2, JobThere DEF IsNext, Written
  <2>4. MovesOf(moves, m.source) # {}
    BY <2>2, <2>3 DEF MovesOf
  <2>5. \A k \in job[t] : k.source = m.source
    BY <2>1, JobThere
  <2> QED
    BY <2>1, <2>4, <2>5, ReleaseKeeps
<1> QED
  BY <1>1, <1>2

\* What a commit adds to the totals.
LEMMA CommitTotals ==
    ASSUME StockInv, NEW t \in Writers, CommitWriter(t)
    PROVE  /\ moves' = moves \cup draft[t] /\ pc[t] = "commit"
           /\ draft[t] \subseteq job[t] /\ job[t] \subseteq MoveType /\ IsFiniteSet(draft[t])
           /\ \A m \in draft[t] : m \notin moves /\ m.by = t /\ m.product \in Locked(t)
           /\ \A p : (\A m \in draft[t] : m.product # p) => Total(moves', p) = Total(moves, p)
           /\ \A m \in draft[t] : Total(moves', m.product) = Total(moves, m.product) + m.delta
<1>0. /\ TypeOK /\ Asked(t) /\ Written(t) /\ Committed
  BY DEF StockInv
<1>1. moves' = moves \cup draft[t] /\ pc[t] = "commit"
  BY DEF CommitWriter
<1>2. /\ draft[t] \subseteq job[t] /\ job[t] \subseteq MoveType
      /\ \A m \in draft[t] : m.product \in Locked(t) /\ m.by = t
      /\ \A m, n \in draft[t] : m.product = n.product => m = n
  BY <1>0, <1>1, JobThere DEF Written
<1>3. IsFiniteSet(draft[t])
  BY <1>0, <1>1, <1>2, JobThere, FS_Subset
<1>4. \A m \in draft[t] : m \notin moves
  BY <1>0, <1>1, <1>2 DEF Committed
<1>5. ASSUME NEW p, \A m \in draft[t] : m.product # p PROVE Total(moves', p) = Total(moves, p)
  BY <1>1, <1>5, TotalOthers
<1>6. ASSUME NEW m \in draft[t] PROVE Total(moves', m.product) = Total(moves, m.product) + m.delta
  <2>1. moves \in SUBSET MoveType /\ IsFiniteSet(moves)
    BY <1>0 DEF TypeOK
  <2>2. m \in MoveType /\ m \notin moves /\ \A d \in draft[t] : d.product = m.product => d = m
    BY <1>2, <1>4
  <2> QED
    BY <1>1, <2>1, <2>2, TotalAdds
<1> QED
  BY <1>1, <1>2, <1>3, <1>4, <1>5, <1>6

LEMMA CommitCounts ==
    ASSUME StockInv, NEW t \in Writers, CommitWriter(t)
    PROVE  /\ summary' \in Counts
           /\ \A p \in Locked(t) : OnHand(p)' = rows[t][p]
           /\ \A p \in Products \ Locked(t) : summary'[p] = summary[p] /\ OnHand(p)' = OnHand(p)
           /\ Locked(t) = {} => UNCHANGED <<moves, summary>>
           /\ \A u \in Writers \ {t} : SameWriter(u) /\ Locked(u)' = Locked(u)
           /\ Locked(t)' = {} /\ pc'[t] = "committed" /\ draft'[t] = {} /\ job'[t] = job[t]
<1>0. TypeOK /\ Written(t)
  BY DEF StockInv
<1>1. summary' = [p \in Products |-> IF p \in Locked(t) THEN rows[t][p] ELSE summary[p]]
  BY DEF CommitWriter, Locked
<1>2. summary \in Counts /\ rows[t] \in Counts
  BY <1>0 DEF TypeOK
<1>3. summary' \in Counts
  BY <1>1, <1>2 DEF Counts
<1>4. \A p \in Locked(t) : OnHand(p)' = rows[t][p]
  BY <1>1 DEF OnHand, Locked
<1>5. \A p \in Products \ Locked(t) : summary'[p] = summary[p] /\ OnHand(p)' = OnHand(p)
  BY <1>1 DEF OnHand
<1>6. Locked(t) = {} => UNCHANGED <<moves, summary>>
  <2> SUFFICES ASSUME Locked(t) = {} PROVE UNCHANGED <<moves, summary>>
    OBVIOUS
  <2>1. draft[t] = {}
    BY <1>0 DEF Written
  <2>2. summary = [p \in Products |-> summary[p]]
    BY <1>2 DEF Counts
  <2>3. summary' = [p \in Products |-> summary[p]]
    BY <1>1
  <2> QED
    BY <2>1, <2>2, <2>3 DEF CommitWriter
<1>7. /\ pc'[t] = "committed" /\ draft'[t] = {} /\ job'[t] = job[t] /\ rows'[t] = NoRows
      /\ \A u \in Writers \ {t} : SameWriter(u)
  BY <1>0 DEF CommitWriter, Release, Goto, TypeOK, SameWriter
<1>8. Locked(t)' = {} /\ \A u \in Writers \ {t} : Locked(u)' = Locked(u)
  BY <1>7 DEF Locked, NoRows, SameWriter
<1> QED
  BY <1>3, <1>4, <1>5, <1>6, <1>7, <1>8

\* A batch is of a shipment that had none before.
LEMMA CommitBatch ==
    ASSUME StockInv, NEW t \in Writers, CommitWriter(t), NEW s \in Shipments
    PROVE  \/ MovesOf(moves', s) = MovesOf(moves, s)
           \/ MovesOf(moves, s) = {} /\ MovesOf(moves', s) = Batch(t, s) /\ draft[t] = Batch(t, s)
<1>0. Asked(t) /\ Written(t) /\ NewOrThere(t) /\ Committed
  BY DEF StockInv
<1>1. moves' = moves \cup draft[t] /\ pc[t] = "commit"
  BY CommitTotals
<1>2. CASE draft[t] = {}
  BY <1>1, <1>2
<1>3. ASSUME draft[t] # {}, NEW a \in Adjustments, job[t] = Single(t, a)
      PROVE  MovesOf(moves', s) = MovesOf(moves, s)
  <2>1. \A m \in draft[t] : m.source # s
    BY <1>0, <1>3, StockAssumption DEF Written, Single
  <2> QED
    BY <1>1, <2>1 DEF MovesOf
<1>4. ASSUME draft[t] # {}, NEW r \in Shipments, job[t] = Batch(t, r), r # s
      PROVE  MovesOf(moves', s) = MovesOf(moves, s)
  <2>1. \A m \in draft[t] : m.source # s
    BY <1>0, <1>4, BatchThere DEF Written
  <2> QED
    BY <1>1, <2>1 DEF MovesOf
<1>5. ASSUME draft[t] # {}, job[t] = Batch(t, s)
      PROVE  MovesOf(moves, s) = {} /\ MovesOf(moves', s) = Batch(t, s) /\ draft[t] = Batch(t, s)
  <2>1. draft[t] = Batch(t, s)
    BY <1>0, <1>1, <1>5 DEF Written
  <2>2. MovesOf(moves, s) = {}
    <3> SUFFICES ASSUME NEW u \in Writers \cup {NoWriter}, MovesOf(moves, s) = Batch(u, s)
                 PROVE  FALSE
      BY <1>0 DEF Committed
    <3>1. PICK m \in draft[t] : m.source = s /\ m.product \in ProductsOf(s)
      BY <1>5, <2>1, BatchThere
    <3>2. PICK n \in Batch(u, s) : n.product = m.product
      BY <3>1, BatchThere
    <3>3. n \in moves /\ n.source = s
      BY <3>2 DEF MovesOf
    <3> QED
      BY <1>0, <3>1, <3>2, <3>3, StockAssumption DEF NewOrThere
  <2>3. MovesOf(moves', s) = MovesOf(moves, s) \cup {m \in draft[t] : m.source = s}
    BY <1>1 DEF MovesOf
  <2> QED
    BY <2>1, <2>2, <2>3, BatchThere
<1> QED
  BY <1>0, <1>1, <1>2, <1>3, <1>4, <1>5 DEF Asked

LEMMA CommitKeeps ==
    ASSUME StockInv, NEW t \in Writers, CommitWriter(t)
    PROVE  StockInv'
<1>0. TypeOK /\ Excluded /\ Committed /\ \A u \in Writers : Local(u)
  BY DEF StockInv, Local
<1>1. UNCHANGED <<job, trusted, RebuildVars>> /\ ExclusiveHolders' = ExclusiveHolders
  BY DEF CommitWriter, ExclusiveHolders, RebuildVars
<1>2. /\ moves' = moves \cup draft[t] /\ pc[t] = "commit" /\ draft[t] \subseteq MoveType
      /\ IsFiniteSet(moves')
  <2>1. moves' = moves \cup draft[t] /\ pc[t] = "commit" /\ draft[t] \subseteq MoveType
        /\ IsFiniteSet(draft[t])
    BY CommitTotals
  <2>2. IsFiniteSet(moves \cup draft[t])
    BY <1>0, <2>1, FS_Union DEF TypeOK
  <2> QED
    BY <2>1, <2>2
<1>3. TypeOK'
  <2>1. rows' \in [Writers -> Counts]
    BY <1>0 DEF CommitWriter, Release, TypeOK, Counts, NoRows
  <2>2. summary' \in Counts
    BY CommitCounts
  <2> QED
    BY <1>0, <1>1, <1>2, <2>1, <2>2 DEF TypeOK, CommitWriter, Release, Goto, RebuildVars
<1>4. Excluded'
  BY <1>0, <1>1, CommitCounts DEF Excluded
<1>5. Committed'
  <2>1. \A m \in moves' : m.by \in Writers => pc'[m.by] = "committed"
    <3>1. \A m \in draft[t] : m.by = t
      BY CommitTotals
    <3>2. \A u \in Writers : pc[u] = "committed" => pc'[u] = "committed"
      BY CommitCounts DEF SameWriter
    <3> QED
      BY <1>0, <1>2, <3>1, <3>2, CommitCounts DEF Committed
  <2>2. ASSUME NEW s \in Shipments
        PROVE  \/ MovesOf(moves', s) = {}
               \/ \E u \in Writers \cup {NoWriter} : MovesOf(moves', s) = Batch(u, s)
    BY <1>0, CommitBatch DEF Committed
  <2> QED
    BY <2>1, <2>2 DEF Committed
<1>6. OnHandIsTotal'
  <2> SUFFICES ASSUME Accurate, NEW p \in Products PROVE OnHand(p)' = Total(moves', p)
    BY <1>1 DEF StockInv, OnHandIsTotal, Accurate
  <2>1. OnHand(p) = Total(moves, p)
    BY DEF Accurate
  <2>2. CASE \E m \in draft[t] : m.product = p
    <3>1. PICK m \in draft[t] : m.product = p
      BY <2>2
    <3>2. p \in Locked(t) /\ Total(moves', p) = Total(moves, p) + m.delta
      BY <3>1, CommitTotals
    <3>3. rows[t][p] = OnHand(p) + m.delta
      BY <1>0, <3>1, <3>2 DEF Local, Counted
    <3> QED
      BY <2>1, <3>2, <3>3, CommitCounts
  <2>3. CASE \A m \in draft[t] : m.product # p
    <3>1. Total(moves', p) = Total(moves, p)
      BY <2>3, CommitTotals
    <3>2. p \in Locked(t) => rows[t][p] = OnHand(p)
      BY <1>0, <2>3 DEF Local, Counted
    <3> QED
      BY <2>1, <3>1, <3>2, CommitCounts
  <2> QED
    BY <2>2, <2>3
<1>7. ASSUME NEW u \in Writers \ {t} PROVE Local(u)'
  <2>1. SameWriter(u) /\ Locked(u)' = Locked(u) /\ Local(u) /\ Locked(u) \cap Locked(t) = {}
    BY <1>0, CommitCounts DEF Excluded
  <2>2. \A m : IsNext(u, m)' = IsNext(u, m)
    BY <2>1 DEF SameWriter, IsNext
  <2>3. Asked(u)' /\ Written(u)'
    BY <2>1, <2>2 DEF Local, Asked, Written, SameWriter
  <2>4. \A q \in Locked(u) : OnHand(q)' = OnHand(q)
    BY <2>1, CommitCounts DEF Locked
  <2>5. Counted(u)'
    BY <2>1, <2>4 DEF Local, Counted, SameWriter
  <2>6. NewOrThere(u)'
    <3>1. \A m \in draft[u], n \in draft[t] : m.product # n.product
      BY <1>0, <2>1 DEF Local, Written
    <3>2. \A m \in draft[u], n \in moves' :
             m.source = n.source /\ m.product = n.product => m.source = NoShipment
      BY <1>2, <2>1, <3>1 DEF Local, NewOrThere
    <3>3. \A s : MovesOf(moves, s) # {} => MovesOf(moves', s) # {}
      BY <1>2 DEF MovesOf
    <3> QED
      BY <2>1, <3>2, <3>3 DEF Local, NewOrThere, SameWriter
  <2> QED
    BY <2>3, <2>5, <2>6 DEF Local
<1>8. Local(t)'
  <2>1. pc'[t] = "committed" /\ draft'[t] = {} /\ job'[t] = job[t] /\ Locked(t)' = {}
    BY CommitCounts
  <2>2. \A m \in job[t] : m.source # NoShipment => MovesOf(moves', m.source) # {}
    <3>1. CASE draft[t] = job[t]
      BY <1>2, <3>1 DEF MovesOf
    <3>2. CASE draft[t] # job[t]
      <4>1. \A m \in job[t] : m.source # NoShipment => MovesOf(moves, m.source) # {}
        BY <1>0, <1>2, <3>2 DEF Local, NewOrThere
      <4> QED
        BY <1>2, <4>1 DEF MovesOf
    <3> QED
      BY <3>1, <3>2
  <2> QED
    BY <1>0, <1>2, <2>1, <2>2 DEF Local, Asked, Written, Counted, NewOrThere
<1>9. ASSUME NEW r \in Rebuilders PROVE Counting(r)'
  <2>1. Counting(r) /\ rpc'[r] = rpc[r] /\ existing'[r] = existing[r] /\ totals'[r] = totals[r]
    BY <1>1 DEF StockInv, RebuildVars
  <2>2. rpc[r] \in {"sum", "write"} => UNCHANGED <<moves, summary>>
    BY <1>0, CommitCounts DEF Excluded, ExclusiveHolders
  <2> QED
    BY <2>1, <2>2 DEF Counting
<1> QED
  BY <1>3, <1>4, <1>5, <1>6, <1>7, <1>8, <1>9 DEF StockInv, Local

LEMMA BeginRebuildKeeps ==
    ASSUME StockInv, NEW r \in Rebuilders, BeginRebuild(r)
    PROVE  StockInv'
<1>0. TypeOK
  BY DEF StockInv
<1>1. /\ rpc' = [rpc EXCEPT ![r] = "rows"] /\ UNCHANGED <<Stored, existing, totals, WriterVars>>
      /\ \A t \in Writers : Locked(t) = {}
      /\ ExclusiveHolders = {}
  BY <1>0, LockedThere DEF BeginRebuild, RebuildGoto
<1>2. TypeOK'
  BY <1>0, <1>1 DEF TypeOK, Stored, WriterVars
<1>3. rpc'[r] = "rows" /\ \A q \in Rebuilders \ {r} : SameRebuild(q)
  BY <1>0, <1>1 DEF TypeOK, SameRebuild
<1>4. ExclusiveHolders' \subseteq {r}
  BY <1>1, <1>3 DEF ExclusiveHolders, SameRebuild
<1>5. Counting(r)'
  BY <1>3 DEF Counting
<1> QED
  BY <1>1, <1>2, <1>3, <1>4, <1>5, RebuildKeeps DEF Stored, WriterVars

LEMMA CountKeeps ==
    ASSUME StockInv, NEW r \in Rebuilders, LockRows(r) \/ SumMoves(r)
    PROVE  StockInv'
<1>0. TypeOK /\ Counting(r)
  BY DEF StockInv
<1>1. UNCHANGED <<Stored, WriterVars>>
  BY DEF LockRows, SumMoves
<1>2. TypeOK' /\ Counting(r)' /\ ExclusiveHolders' = ExclusiveHolders
      /\ \A q \in Rebuilders \ {r} : SameRebuild(q)
  <2>1. CASE LockRows(r)
    <3>1. /\ rpc[r] = "rows" /\ rpc' = [rpc EXCEPT ![r] = "sum"] /\ totals' = totals
          /\ existing' = [existing EXCEPT ![r] = {p \in Products : summary[p] # Missing}]
      BY <2>1 DEF LockRows, RebuildGoto
    <3>2. /\ rpc'[r] = "sum" /\ existing'[r] = {p \in Products : summary[p] # Missing}
          /\ \A q \in Rebuilders \ {r} : SameRebuild(q)
      BY <1>0, <3>1 DEF TypeOK, SameRebuild
    <3>3. TypeOK'
      BY <1>0, <1>1, <3>1 DEF TypeOK, Stored, WriterVars
    <3>4. ExclusiveHolders' = ExclusiveHolders
      BY <3>1, <3>2 DEF ExclusiveHolders, SameRebuild
    <3>5. Counting(r)'
      BY <1>1, <3>2 DEF Counting, Stored
    <3> QED
      BY <3>2, <3>3, <3>4, <3>5
  <2>2. CASE SumMoves(r)
    <3> DEFINE sums == [p \in Products |-> IF \E m \in moves : m.product = p
                                           THEN Total(moves, p) ELSE Missing]
    <3>1. /\ rpc[r] = "sum" /\ rpc' = [rpc EXCEPT ![r] = "write"] /\ existing' = existing
          /\ totals' = [totals EXCEPT ![r] = sums]
      BY <2>2 DEF SumMoves, RebuildGoto
    <3>2. sums \in Counts
      BY <1>0, TotalInt DEF TypeOK, Counts
    <3>3. \A p \in Products : sums[p] = IF \E m \in moves : m.product = p
                                        THEN Total(moves, p) ELSE Missing
      OBVIOUS
    <3> HIDE DEF sums
    <3>4. /\ rpc'[r] = "write" /\ existing'[r] = existing[r] /\ totals'[r] = sums
          /\ \A q \in Rebuilders \ {r} : SameRebuild(q)
      BY <1>0, <3>1 DEF TypeOK, SameRebuild
    <3>5. TypeOK'
      BY <1>0, <1>1, <3>1, <3>2 DEF TypeOK, Stored, WriterVars
    <3>6. ExclusiveHolders' = ExclusiveHolders
      BY <3>1, <3>4 DEF ExclusiveHolders, SameRebuild
    <3>7. Counting(r)'
      BY <1>0, <1>1, <3>1, <3>3, <3>4 DEF Counting, Stored
    <3> QED
      BY <3>4, <3>5, <3>6, <3>7
  <2> QED
    BY <2>1, <2>2
<1> QED
  BY <1>1, <1>2, RebuildKeeps DEF Stored, WriterVars

LEMMA EndedThere ==
    ASSUME TypeOK, NEW r \in Rebuilders, NEW how \in {"rebuilt", "failed"}, Ended(r, how)
    PROVE  /\ rpc'[r] = how /\ \A q \in Rebuilders \ {r} : SameRebuild(q)
           /\ ExclusiveHolders' = ExclusiveHolders \ {r}
           /\ rpc' \in [Rebuilders -> {"idle", "rows", "sum", "write", "rebuilt", "failed"}]
           /\ existing' \in [Rebuilders -> SUBSET Products]
           /\ totals' \in [Rebuilders -> Counts]
           /\ Counting(r)'
<1>1. /\ rpc' = [rpc EXCEPT ![r] = how] /\ existing' = [existing EXCEPT ![r] = {}]
      /\ totals' = [totals EXCEPT ![r] = NoRows]
  BY DEF Ended, RebuildGoto
<1>2. NoRows \in Counts
  BY DEF NoRows, Counts
<1>3. /\ rpc'[r] = how /\ \A q \in Rebuilders \ {r} : SameRebuild(q)
      /\ rpc' \in [Rebuilders -> {"idle", "rows", "sum", "write", "rebuilt", "failed"}]
      /\ existing' \in [Rebuilders -> SUBSET Products]
      /\ totals' \in [Rebuilders -> Counts]
  BY <1>1, <1>2 DEF TypeOK, SameRebuild
<1>4. ExclusiveHolders' = ExclusiveHolders \ {r}
  BY <1>3 DEF ExclusiveHolders, SameRebuild
<1>5. Counting(r)'
  BY <1>3 DEF Counting
<1> QED
  BY <1>3, <1>4, <1>5

LEMMA RebuildFailsKeeps ==
    ASSUME StockInv, NEW r \in Rebuilders, RefuseTotals(r) \/ RollbackRebuild(r)
    PROVE  StockInv'
<1>1. TypeOK /\ Ended(r, "failed") /\ UNCHANGED <<Stored, WriterVars>>
  BY DEF StockInv, RefuseTotals, RollbackRebuild
<1>2. /\ Counting(r)' /\ ExclusiveHolders' = ExclusiveHolders \ {r}
      /\ \A q \in Rebuilders \ {r} : SameRebuild(q)
  BY <1>1, EndedThere
<1>3. TypeOK'
  BY <1>1, EndedThere DEF TypeOK, Stored, WriterVars
<1> QED
  BY <1>1, <1>2, <1>3, RebuildKeeps DEF Stored, WriterVars

\* A rebuild leaves every product with its total.
LEMMA RebuiltIsTotal ==
    ASSUME StockInv, NEW r \in Rebuilders, WriteTotals(r)
    PROVE  /\ rpc[r] = "write" /\ UNCHANGED <<moves, WriterVars>> /\ trusted' = TRUE
           /\ Ended(r, "rebuilt")
           /\ summary' \in Counts
           /\ \A p \in Products : OnHand(p)' = Total(moves, p) /\ Total(moves, p) >= 0
<1> DEFINE written == existing[r] \cup {p \in Products : totals[r][p] # Missing}
<1>1. /\ rpc[r] = "write" /\ UNCHANGED <<moves, WriterVars>> /\ trusted' = TRUE
      /\ Ended(r, "rebuilt")
      /\ \A p \in written : Rebuilt(r, p) >= 0
      /\ summary' = [p \in Products |-> IF p \in written THEN Rebuilt(r, p) ELSE summary[p]]
  BY DEF WriteTotals
<1>2. /\ existing[r] = {p \in Products : summary[p] # Missing}
      /\ \A p \in Products : totals[r][p] = IF \E m \in moves : m.product = p
                                            THEN Total(moves, p) ELSE Missing
      /\ TypeOK
  BY <1>1 DEF StockInv, Counting
<1>3. \A p \in Products : Total(moves, p) \in Int
  BY <1>2, TotalInt DEF TypeOK
<1>4. \A p \in Products : (\A m \in moves : m.product # p) => Total(moves, p) = 0
  BY TotalOfNone
<1>5. \A p \in Products : Rebuilt(r, p) = Total(moves, p)
  BY <1>2, <1>3, <1>4, SummariesAssumption DEF Rebuilt
<1>6. \A p \in Products \ written : summary[p] = Missing /\ Total(moves, p) = 0
  BY <1>2, <1>3, <1>4, SummariesAssumption
<1>7. \A p \in Products : summary'[p] = IF p \in written THEN Total(moves, p) ELSE Missing
  BY <1>1, <1>5, <1>6
<1>8. written \subseteq Products
  BY <1>2
<1>9. \A p \in written : Total(moves, p) >= 0
  BY <1>1, <1>5, <1>8
<1> HIDE DEF written
<1>10. summary' \in Counts
  <2>1. summary' = [p \in Products |-> IF p \in written THEN Total(moves, p) ELSE Missing]
    BY <1>1, <1>5, <1>6
  <2> QED
    BY <1>3, <2>1 DEF Counts
<1>11. \A p \in Products : OnHand(p)' = Total(moves, p)
  BY <1>3, <1>6, <1>7, SummariesAssumption DEF OnHand
<1> QED
  BY <1>1, <1>6, <1>9, <1>10, <1>11

LEMMA WriteTotalsKeeps ==
    ASSUME StockInv, NEW r \in Rebuilders, WriteTotals(r)
    PROVE  StockInv'
<1>0. /\ TypeOK /\ Excluded /\ Committed /\ r \in ExclusiveHolders
      /\ \A t \in Writers : Local(t)
  BY RebuiltIsTotal DEF StockInv, Local, ExclusiveHolders
<1>1. UNCHANGED <<moves, WriterVars>> /\ trusted' = TRUE /\ Ended(r, "rebuilt")
  BY RebuiltIsTotal
<1>2. TypeOK'
  BY <1>0, <1>1, RebuiltIsTotal, EndedThere DEF TypeOK, WriterVars
<1>3. /\ \A t \in Writers : Locked(t) = {} /\ Locked(t)' = {}
      /\ ExclusiveHolders = {r}
  BY <1>0, <1>1 DEF Excluded, Locked, WriterVars
<1>4. Excluded'
  BY <1>0, <1>1, <1>3, EndedThere DEF Excluded
<1>5. Committed'
  BY <1>0, <1>1 DEF Committed, WriterVars
<1>6. OnHandIsTotal'
  BY <1>1, RebuiltIsTotal DEF OnHandIsTotal, Accurate
<1>7. ASSUME NEW t \in Writers PROVE Local(t)'
  <2>1. SameWriter(t) /\ \A m : IsNext(t, m)' = IsNext(t, m)
    BY <1>1 DEF WriterVars, SameWriter, IsNext
  <2>2. Asked(t)' /\ Written(t)' /\ NewOrThere(t)'
    BY <1>0, <1>1, <1>3, <2>1 DEF Local, Asked, Written, NewOrThere, SameWriter
  <2>3. Counted(t)'
    BY <1>3 DEF Counted
  <2> QED
    BY <2>2, <2>3 DEF Local
<1>8. ASSUME NEW q \in Rebuilders PROVE Counting(q)'
  <2>1. CASE q = r
    BY <1>0, <1>1, <2>1, EndedThere
  <2>2. CASE q # r
    <3>1. q \notin ExclusiveHolders /\ SameRebuild(q)
      BY <1>0, <1>1, <1>3, <2>2, EndedThere
    <3> QED
      BY <3>1 DEF ExclusiveHolders, SameRebuild, Counting
  <2> QED
    BY <2>1, <2>2
<1> QED
  BY <1>2, <1>4, <1>5, <1>6, <1>7, <1>8 DEF StockInv, Local

LEMMA StutterKeeps == StockInv /\ UNCHANGED vars => StockInv'
<1> SUFFICES ASSUME StockInv, UNCHANGED vars PROVE StockInv'
  OBVIOUS
<1>1. UNCHANGED <<Stored, WriterVars, RebuildVars>>
  BY DEF vars, Stored, WriterVars, RebuildVars
<1>2. TypeOK'
  BY <1>1 DEF StockInv, TypeOK, Stored, WriterVars, RebuildVars
<1>3. Excluded' /\ Committed' /\ OnHandIsTotal'
  BY <1>1 DEF StockInv, Excluded, Locked, ExclusiveHolders, Committed, OnHandIsTotal, Accurate,
              OnHand, Stored, WriterVars, RebuildVars
<1>4. \A t \in Writers : Local(t)'
  BY <1>1, LocalStays DEF StockInv, Local, SameWriter, WriterVars
<1>5. \A r \in Rebuilders : Counting(r)'
  BY <1>1 DEF StockInv, Counting, Stored, RebuildVars
<1> QED
  BY <1>2, <1>3, <1>4, <1>5 DEF StockInv, Local

LEMMA NextStockInv == StockInv /\ [Next]_vars => StockInv'
<1> SUFFICES ASSUME StockInv, [Next]_vars PROVE StockInv'
  OBVIOUS
<1>1. ASSUME NEW t \in Writers, Begin(t) PROVE StockInv'
  BY <1>1, BeginKeeps DEF Begin
<1>2. ASSUME NEW t \in Writers, Advance(t) PROVE StockInv'
  BY <1>2, LockSummaryKeeps, WriteMoveKeeps, EndKeeps, CommitKeeps DEF Advance
<1>3. ASSUME NEW t \in Writers, RollbackWriter(t) PROVE StockInv'
  BY <1>3, EndKeeps
<1>4. ASSUME NEW r \in Rebuilders, BeginRebuild(r) PROVE StockInv'
  BY <1>4, BeginRebuildKeeps
<1>5. ASSUME NEW r \in Rebuilders, AdvanceRebuild(r) PROVE StockInv'
  BY <1>5, CountKeeps, WriteTotalsKeeps, RebuildFailsKeeps DEF AdvanceRebuild
<1>6. ASSUME NEW r \in Rebuilders, RollbackRebuild(r) PROVE StockInv'
  BY <1>6, RebuildFailsKeeps
<1>7. CASE Finished \/ UNCHANGED vars
  BY <1>7, StutterKeeps DEF Finished
<1> QED
  BY <1>1, <1>2, <1>3, <1>4, <1>5, <1>6, <1>7 DEF Next

\* StockInv holds in every reachable state: what the locks of writers and
\* rebuilds give each of them, statement by statement.
THEOREM StockInductive == Spec => []StockInv
<1>1. Init => StockInv
  BY InitStockInv
<1>2. StockInv /\ [Next]_vars => StockInv'
  BY NextStockInv
<1> QED
  BY <1>1, <1>2, PTL DEF Spec

\* on_hand is the sum of a product's moves in every state, for any number of
\* concurrent deliveries, adjustments and rebuilds, once the summary was right
\* or has been rebuilt (get_or_lock_summary, _rebuild_company).
THEOREM CountsAreTotals == Spec => []OnHandIsTotal
<1>1. StockInv => OnHandIsTotal
  BY DEF StockInv
<1> QED
  BY <1>1, StockInductive, PTL

-------------------------------------------------------------------------------
(***************************************************************************)
(* What a shipment takes.                                                  *)
(***************************************************************************)

LEMMA BatchCount ==
    ASSUME NEW s \in Shipments, NEW t \in Writers \cup {NoWriter}
    PROVE  Cardinality(Batch(t, s)) = Cardinality(ProductsOf(s))
<1> DEFINE f == [m \in Batch(t, s) |-> m.product]
<1>1. f \in Bijection(Batch(t, s), ProductsOf(s))
  <2>1. f \in [Batch(t, s) -> ProductsOf(s)]
    BY BatchThere
  <2>2. \A m, n \in Batch(t, s) : f[m] = f[n] => m = n
    BY BatchThere
  <2>3. \A p \in ProductsOf(s) : \E m \in Batch(t, s) : f[m] = p
    BY BatchThere
  <2> QED
    BY <2>1, <2>2, <2>3 DEF Bijection, Injection, Surjection, IsInjective
<1>2. ExistsBijection(Batch(t, s), ProductsOf(s))
  BY <1>1 DEF ExistsBijection
<1>3. IsFiniteSet(Batch(t, s))
  BY BatchThere
<1> QED
  BY <1>2, <1>3, FS_Bijection

\* The moves of a shipment are exactly its quantity per product, or none; none
\* is impossible once a delivery of it has committed (handle_goods_shipped and
\* the unique index of its moves), however deliveries and replays overlap.
THEOREM ShipmentsDeductedOnce == Spec => []DeductedOnce
<1>1. StockInv => DeductedOnce
  <2> SUFFICES ASSUME StockInv, NEW s \in Shipments
               PROVE  \/ MovesOf(moves, s) = {} /\ ~\E t \in Writers : Delivers(t, s)
                      \/ /\ {m.product : m \in MovesOf(moves, s)} = ProductsOf(s)
                         /\ \A m \in MovesOf(moves, s) : m.delta = -QtyOf(s, m.product)
                         /\ Cardinality(MovesOf(moves, s)) = Cardinality(ProductsOf(s))
    BY DEF DeductedOnce
  <2>1. CASE MovesOf(moves, s) = {}
    <3>1. ASSUME NEW t \in Writers, Delivers(t, s) PROVE FALSE
      <4>1. s # NoShipment
        BY StockAssumption
      <4> QED
        BY <2>1, <3>1, <4>1 DEF StockInv, NewOrThere, Delivers
    <3> QED
      BY <2>1, <3>1
  <2>2. ASSUME NEW t \in Writers \cup {NoWriter}, MovesOf(moves, s) = Batch(t, s)
        PROVE  /\ {m.product : m \in MovesOf(moves, s)} = ProductsOf(s)
               /\ \A m \in MovesOf(moves, s) : m.delta = -QtyOf(s, m.product)
               /\ Cardinality(MovesOf(moves, s)) = Cardinality(ProductsOf(s))
    <3>1. {m.product : m \in Batch(t, s)} = ProductsOf(s)
      BY BatchThere
    <3>2. \A m \in Batch(t, s) : m.delta = -QtyOf(s, m.product)
      BY BatchThere
    <3> QED
      BY <2>2, <3>1, <3>2, BatchCount
  <2> QED
    BY <2>1, <2>2 DEF StockInv, Committed
<1> QED
  BY <1>1, StockInductive, PTL

-------------------------------------------------------------------------------
(***************************************************************************)
(* Stock implements Warehouse.                                             *)
(***************************************************************************)

LEMMA SameSum ==
    ASSUME NEW f
    PROVE  Store!SumFunction(f) = SumFunction(f)
BY DEF SumFunction, SumFunctionOnSet, FoldFunctionOnSet, MapThenFoldSet,
       Store!SumFunction, Store!SumFunctionOnSet, Store!FoldFunctionOnSet, Store!MapThenFoldSet

LEMMA SameQuantities ==
    /\ \A ms, p : Store!Total(ms, p) = Total(ms, p)
    /\ \A s, p : Store!QtyOf(s, p) = QtyOf(s, p)
    /\ \A s : Store!ProductsOf(s) = ProductsOf(s)
    /\ \A ms, s : Store!MovesOf(ms, s) = MovesOf(ms, s)
<1>1. ASSUME NEW ms, NEW p PROVE Store!Total(ms, p) = Total(ms, p)
  BY SameSum DEF Store!Total, Total
<1>2. ASSUME NEW s, NEW p PROVE Store!QtyOf(s, p) = QtyOf(s, p)
  BY SameSum DEF Store!QtyOf, QtyOf, Store!LinesOf, LinesOf
<1>3. ASSUME NEW s PROVE Store!ProductsOf(s) = ProductsOf(s)
  BY DEF Store!ProductsOf, ProductsOf, Store!LinesOf, LinesOf
<1>4. ASSUME NEW ms, NEW s PROVE Store!MovesOf(ms, s) = MovesOf(ms, s)
  BY DEF Store!MovesOf, MovesOf
<1> QED
  BY <1>1, <1>2, <1>3, <1>4

LEMMA InitInStore == Init => Store!Init
BY SameQuantities DEF Init, Store!Init, Held, Delivered, Accurate

LEMMA CommitInStore ==
    ASSUME StockInv, NEW t \in Writers, CommitWriter(t)
    PROVE  [Store!Next]_<<Held, Delivered, trusted>>
<1>0. /\ trusted' = trusted /\ Asked(t) /\ Written(t) /\ Counted(t) /\ TypeOK /\ pc[t] = "commit"
      /\ draft[t] \in {job[t], {}}
  BY DEF CommitWriter, StockInv, Written
<1>1. CASE draft[t] = {}
  <2>1. moves' = moves
    BY <1>1 DEF CommitWriter
  <2> QED
    BY <1>0, <2>1 DEF Held, Delivered
<1>2. \A m \in draft[t] : trusted => Total(moves, m.product) + m.delta >= 0
  <2> SUFFICES ASSUME trusted, NEW m \in draft[t] PROVE Total(moves, m.product) + m.delta >= 0
    OBVIOUS
  <2>1. m.product \in Locked(t) /\ rows[t][m.product] >= 0
    BY <1>0 DEF Written
  <2>2. rows[t][m.product] = OnHand(m.product) + m.delta
    BY <1>0, <2>1 DEF Counted
  <2>3. OnHand(m.product) = Total(moves, m.product)
    BY <2>1 DEF StockInv, OnHandIsTotal, Accurate, Locked
  <2> QED
    BY <2>1, <2>2, <2>3
<1>3. \A p \in Products : Total(moves, p) \in Int
  BY <1>0, TotalInt DEF TypeOK
<1>4. ASSUME NEW s \in Shipments, job[t] = Batch(t, s), draft[t] # {}
      PROVE  Store!Ship(s)
  <2>1. draft[t] = Batch(t, s) /\ ProductsOf(s) \subseteq Products
    BY <1>0, <1>4 DEF ProductsOf
  <2>2. s \notin Delivered /\ Delivered' = Delivered \cup {s}
    <3>1. MovesOf(moves, s) = {} /\ MovesOf(moves', s) # {}
      <4>1. PICK m \in draft[t] : m.source = s
        BY <1>4, <2>1, BatchThere
      <4>2. m \in MovesOf(moves', s) /\ m \notin MovesOf(moves, s)
        BY <4>1, CommitTotals DEF MovesOf
      <4> QED
        BY <4>2, CommitBatch
    <3>2. ASSUME NEW r \in Shipments, r # s PROVE MovesOf(moves', r) = MovesOf(moves, r)
      <4>1. \A m \in draft[t] : m.source # r
        BY <2>1, <3>2, BatchThere
      <4> QED
        BY <4>1, CommitTotals DEF MovesOf
    <3> QED
      BY <3>1, <3>2 DEF Delivered
  <2>3. ASSUME NEW p \in ProductsOf(s)
        PROVE  /\ Total(moves', p) = Total(moves, p) - QtyOf(s, p)
               /\ trusted => QtyOf(s, p) <= Total(moves, p)
    <3>1. PICK m \in draft[t] : m.product = p /\ m.delta = -QtyOf(s, p)
      BY <2>1, BatchThere
    <3>2. Total(moves', p) = Total(moves, p) + m.delta /\ (trusted => Total(moves, p) + m.delta >= 0)
      BY <1>2, <3>1, CommitTotals
    <3>3. QtyOf(s, p) \in Int /\ Total(moves, p) \in Int
      BY <1>3, <2>1, QtyInt
    <3> QED
      BY <3>1, <3>2, <3>3
  <2>4. ASSUME NEW p \in Products \ ProductsOf(s) PROVE Total(moves', p) = Total(moves, p)
    <3>1. \A m \in draft[t] : m.product # p
      BY <2>1, BatchThere
    <3> QED
      BY <3>1, CommitTotals
  <2>5. Held' = [p \in Products |-> IF p \in ProductsOf(s) THEN Held[p] - QtyOf(s, p) ELSE Held[p]]
    BY <2>1, <2>3, <2>4 DEF Held
  <2>6. trusted => \A p \in ProductsOf(s) : QtyOf(s, p) <= Held[p]
    BY <2>1, <2>3 DEF Held
  <2> QED
    BY <1>0, <2>2, <2>5, <2>6, SameQuantities DEF Store!Ship
<1>5. ASSUME NEW a \in Adjustments, job[t] = Single(t, a), draft[t] # {}
      PROVE  Store!Adjust(a)
  <2>1. PICK m \in draft[t] : TRUE
    BY <1>5
  <2>2. a.product \in Products /\ m.product = a.product /\ m.delta = a.delta /\ m.source = NoShipment
    BY <1>0, <1>5, StockAssumption DEF Single
  <2>3. \A n \in draft[t] : n = m
    BY <1>0, <1>5 DEF Single
  <2>4. Total(moves', a.product) = Total(moves, a.product) + a.delta
    BY <2>2, CommitTotals
  <2>5. \A p \in Products \ {a.product} : Total(moves', p) = Total(moves, p)
    BY <2>2, <2>3, CommitTotals
  <2>6. Held' = [Held EXCEPT ![a.product] = @ + a.delta]
    BY <2>2, <2>4, <2>5 DEF Held
  <2>7. trusted => Held[a.product] + a.delta >= 0
    BY <1>2, <2>2 DEF Held
  <2>8. Delivered' = Delivered
    <3>1. ASSUME NEW r \in Shipments PROVE MovesOf(moves', r) = MovesOf(moves, r)
      BY <2>2, <2>3, CommitTotals, StockAssumption DEF MovesOf
    <3> QED
      BY <3>1 DEF Delivered
  <2> QED
    BY <1>0, <2>6, <2>7, <2>8 DEF Store!Adjust
<1> QED
  BY <1>0, <1>1, <1>4, <1>5 DEF Asked, Store!Next

LEMMA StepInStore == StockInv /\ [Next]_vars => [Store!Next]_<<Held, Delivered, trusted>>
<1> SUFFICES ASSUME StockInv, [Next]_vars PROVE [Store!Next]_<<Held, Delivered, trusted>>
  OBVIOUS
<1>1. UNCHANGED <<moves, trusted>> => [Store!Next]_<<Held, Delivered, trusted>>
  BY DEF Held, Delivered
<1>2. ASSUME NEW t \in Writers, Begin(t) \/ Advance(t) \/ RollbackWriter(t)
      PROVE  UNCHANGED <<moves, trusted>> \/ CommitWriter(t)
  BY <1>2 DEF Begin, BeginDelivery, BeginAdjustment, Advance, LockSummary, WriteMove,
              RefuseShortage, SkipBatch, RollbackWriter, Stored
<1>3. ASSUME NEW r \in Rebuilders, BeginRebuild(r) \/ AdvanceRebuild(r) \/ RollbackRebuild(r)
      PROVE  UNCHANGED <<moves, trusted>> \/ WriteTotals(r)
  BY <1>3 DEF BeginRebuild, AdvanceRebuild, LockRows, SumMoves, RefuseTotals, RollbackRebuild, Stored
<1>4. ASSUME NEW r \in Rebuilders, WriteTotals(r) PROVE Store!Next
  <2>1. moves' = moves /\ trusted' = TRUE /\ \A p \in Products : Total(moves, p) >= 0
    BY <1>4, RebuiltIsTotal
  <2>2. UNCHANGED <<Held, Delivered>> /\ \A p \in Products : Held[p] >= 0
    BY <2>1 DEF Held, Delivered
  <2> QED
    BY <2>1, <2>2 DEF Store!Next, Store!Recount
<1>5. CASE Finished \/ UNCHANGED vars
  BY <1>1, <1>5 DEF Finished, vars
<1> QED
  BY <1>1, <1>2, <1>3, <1>4, <1>5, CommitInStore DEF Next

\* ImplementsWarehouse: locked row by row and interleaved with adjustments and
\* rebuilds, the transactions take shipments from the counts whole, once and
\* never below zero, as ADR-007 promises.
THEOREM WarehouseImplemented == Spec => ImplementsWarehouse
<1>1. Init => Store!Init
  BY InitInStore
<1>2. StockInv /\ [Next]_vars => [Store!Next]_<<Held, Delivered, trusted>>
  BY StepInStore
<1> QED
  BY StockInductive, <1>1, <1>2, PTL DEF Spec, ImplementsWarehouse, Store!Spec, Held, Delivered
===============================================================================
