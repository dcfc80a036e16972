----------------------------- MODULE PlatformProofs -----------------------------
(***************************************************************************)
(* Theorems of Replay, Plugins and Gate: what runs beside the requests of  *)
(* the business modules, for every number of rows, runs, updates, plugins  *)
(* and firings.                                                            *)
(***************************************************************************)
EXTENDS Replay, Gate, Sums

\* Of finitely many things, one has the smallest number.
LEMMA FiniteLeast ==
    ASSUME NEW S, IsFiniteSet(S), S # {}, NEW f, \A x \in S : f[x] \in Int
    PROVE  \E x \in S : \A y \in S : f[x] <= f[y]
<1> DEFINE Upto(x) == {y \in S : f[y] <= f[x]}
           T == {Upto(x) : x \in S}
<1>1. T \subseteq SUBSET S /\ T # {}
  OBVIOUS
<1>2. PICK m \in T : \A y \in T : y \subseteq m => y = m
  <2> HIDE DEF T
  <2> QED
    BY <1>1, MinimalSubset
<1>3. PICK x \in S : m = Upto(x)
  OBVIOUS
<1>4. ASSUME NEW y \in S PROVE f[x] <= f[y]
  <2>1. CASE f[y] <= f[x]
    <3>1. Upto(y) \subseteq Upto(x)
      BY <2>1
    <3>2. Upto(y) = Upto(x)
      BY <1>2, <1>3, <3>1
    <3>3. x \in Upto(x)
      OBVIOUS
    <3> QED
      BY <3>2, <3>3
  <2> QED
    BY <2>1
<1> QED
  BY <1>4

-------------------------------------------------------------------------------
(***************************************************************************)
(* Outbox replay: the effects of a row.                                    *)
(***************************************************************************)

LEMMA AppendRange ==
    ASSUME NEW S, NEW q \in Seq(S), NEW e \in S
    PROVE  Append(q, e) \in Seq(S) /\ Range(Append(q, e)) = Range(q) \cup {e}
<1>1. Append(q, e) \in Seq(S) /\ Len(Append(q, e)) = Len(q) + 1
  OBVIOUS
<1>2. \A i \in 1..Len(q) : Append(q, e)[i] = q[i]
  OBVIOUS
<1>3. Append(q, e)[Len(q) + 1] = e
  OBVIOUS
<1>4. DOMAIN q = 1..Len(q) /\ DOMAIN Append(q, e) = 1..(Len(q) + 1) /\ Len(q) \in Nat
  OBVIOUS
<1> QED
  BY <1>1, <1>2, <1>3, <1>4 DEF Range

LEMMA AddDoer ==
    ASSUME NEW effects, OneDoer(effects), NEW s, NEW who, ~\E e \in effects : e.row = s
    PROVE  OneDoer(effects \cup {[row |-> s, by |-> who]})
<1> DEFINE added == [row |-> s, by |-> who]
<1>1. added.row = s
  OBVIOUS
<1>2. ASSUME NEW e \in effects \cup {added}, NEW f \in effects \cup {added}, e.row = f.row
      PROVE  e = f
  <2>1. CASE e \in effects /\ f \in effects
    BY <1>2, <2>1 DEF OneDoer
  <2>2. CASE e = added \/ f = added
    BY <1>1, <1>2, <2>2
  <2> QED
    BY <2>1, <2>2
<1> QED
  BY <1>2 DEF OneDoer

\* With one doer each, a row has none, one or two effects.
LEMMA EffectsThere ==
    ASSUME NEW ms, NEW es, OneDoer(ms), OneDoer(es), NEW s
    PROVE  /\ EffectsOf(ms, es, s) = (IF \E m \in ms : m.row = s THEN 1 ELSE 0)
                                     + (IF \E e \in es : e.row = s THEN 1 ELSE 0)
           /\ EffectsOf(ms, es, s) \in 0..2
<1>1. ASSUME NEW fs, OneDoer(fs)
      PROVE  Cardinality({e \in fs : e.row = s}) = IF \E e \in fs : e.row = s THEN 1 ELSE 0
  <2>1. CASE \E e \in fs : e.row = s
    <3>1. PICK e \in fs : e.row = s
      BY <2>1
    <3>2. {d \in fs : d.row = s} = {e}
      BY <1>1, <3>1 DEF OneDoer
    <3> QED
      BY <2>1, <3>2, FS_Singleton
  <2>2. CASE ~\E e \in fs : e.row = s
    <3>1. {e \in fs : e.row = s} = {}
      BY <2>2
    <3> QED
      BY <2>2, <3>1, FS_EmptySet
  <2> QED
    BY <2>1, <2>2
<1> QED
  BY <1>1 DEF EffectsOf

\* The effects of a row grow with the tables.
LEMMA EffectsGrow ==
    ASSUME EffectsOnce, EffectsOnce', moves \subseteq moves', entries \subseteq entries', NEW s
    PROVE  /\ EffectsOf(moves, entries, s) <= EffectsOf(moves', entries', s)
           /\ EffectsOf(moves, entries, s) \in 0..2 /\ EffectsOf(moves', entries', s) \in 0..2
           /\ Done(s) => Done(s)'
<1>1. OneDoer(moves) /\ OneDoer(entries) /\ OneDoer(moves') /\ OneDoer(entries')
  BY DEF EffectsOnce, OneDoer
<1>2. /\ EffectsOf(moves, entries, s) = (IF \E m \in moves : m.row = s THEN 1 ELSE 0)
                                        + (IF \E e \in entries : e.row = s THEN 1 ELSE 0)
      /\ EffectsOf(moves, entries, s) \in 0..2
  BY <1>1, EffectsThere
<1>3. /\ EffectsOf(moves', entries', s) = (IF \E m \in moves' : m.row = s THEN 1 ELSE 0)
                                          + (IF \E e \in entries' : e.row = s THEN 1 ELSE 0)
      /\ EffectsOf(moves', entries', s) \in 0..2
  BY <1>1, EffectsThere
<1>4. Done(s) => Done(s)'
  BY DEF Done, Moved, Posted
<1> QED
  BY <1>2, <1>3, <1>4

\* A dispatch books each effect of the row at most once, takes none away,
\* leaves the row with all of them, and what it adds is of that row.
LEMMA DispatchEffects ==
    ASSUME NEW s \in Rows, NEW who \in Runs \cup {Inline}, EffectsOnce, Dispatch(s, who), ReplayTypeOK
    PROVE  /\ EffectsOnce' /\ moves \subseteq moves' /\ entries \subseteq entries'
           /\ Done(s)'
           /\ moves' \subseteq Effect /\ entries' \subseteq Effect /\ onHand' \in Nat
           /\ \A e \in (moves' \cup entries') \ (moves \cup entries) : e.by = who /\ e.row = s
           /\ moves' # moves \/ entries' # entries =>
                 EffectsOf(moves', entries', s) > EffectsOf(moves, entries, s)
<1> DEFINE effect == [row |-> s, by |-> who]
<1>0. effect.row = s /\ effect.by = who /\ effect \in Effect
  BY DEF Effect
<1> HIDE DEF effect
<1>1. /\ OneDoer(moves') /\ moves \subseteq moves' /\ Moved(s)' /\ onHand' \in Nat
      /\ moves' = moves \/ (~Moved(s) /\ moves' = moves \cup {effect})
  <2>1. CASE Moved(s)
    BY <2>1 DEF EffectsOnce, Dispatch, Deduct, Moved, ReplayTypeOK
  <2>2. CASE ~Moved(s)
    <3>1. moves' = moves \cup {effect} /\ onHand' = onHand - Qty[s] /\ onHand >= Qty[s]
      BY <2>2 DEF Dispatch, Deduct, Accepted, effect
    <3>2. OneDoer(moves')
      BY <2>2, <3>1, AddDoer DEF EffectsOnce, Moved, effect
    <3>3. onHand' \in Nat
      BY <3>1, ReplayAssumption DEF ReplayTypeOK
    <3> QED
      BY <1>0, <2>2, <3>1, <3>2, <3>3 DEF Moved
  <2> QED
    BY <2>1, <2>2
<1>2. /\ OneDoer(entries') /\ entries \subseteq entries' /\ (Cost[s] > 0 => Posted(s)')
      /\ entries' = entries \/ (~Posted(s) /\ entries' = entries \cup {effect})
  <2>1. CASE Cost[s] > 0 /\ ~Posted(s)
    <3>1. entries' = entries \cup {effect}
      BY <2>1 DEF Dispatch, Post, effect
    <3>2. OneDoer(entries')
      BY <2>1, <3>1, AddDoer DEF EffectsOnce, Posted, effect
    <3> QED
      BY <1>0, <2>1, <3>1, <3>2 DEF Posted
  <2>2. CASE ~(Cost[s] > 0 /\ ~Posted(s))
    BY <2>2 DEF EffectsOnce, Dispatch, Post, Posted
  <2> QED
    BY <2>1, <2>2
<1>3. EffectsOnce'
  BY <1>1, <1>2 DEF EffectsOnce, OneDoer
<1>4. Done(s)'
  BY <1>1, <1>2 DEF Done, Moved, Posted
<1>5. moves' # moves \/ entries' # entries =>
         EffectsOf(moves', entries', s) > EffectsOf(moves, entries, s)
  <2>1. /\ EffectsOf(moves, entries, s) = (IF Moved(s) THEN 1 ELSE 0) + (IF Posted(s) THEN 1 ELSE 0)
    BY EffectsThere DEF EffectsOnce, Moved, Posted
  <2>2. EffectsOf(moves', entries', s) = (IF \E m \in moves' : m.row = s THEN 1 ELSE 0)
                                         + (IF \E e \in entries' : e.row = s THEN 1 ELSE 0)
    BY <1>1, <1>2, EffectsThere
  <2>3. /\ Moved(s) => \E m \in moves' : m.row = s
        /\ Posted(s) => \E e \in entries' : e.row = s
        /\ moves' # moves => ~Moved(s) /\ \E m \in moves' : m.row = s
        /\ entries' # entries => ~Posted(s) /\ \E e \in entries' : e.row = s
    BY <1>0, <1>1, <1>2 DEF Moved, Posted
  <2> QED
    BY <2>1, <2>2, <2>3
<1>6. moves' \subseteq Effect /\ entries' \subseteq Effect
  BY <1>0, <1>1, <1>2 DEF ReplayTypeOK
<1> QED
  BY <1>0, <1>1, <1>2, <1>3, <1>4, <1>5, <1>6

-------------------------------------------------------------------------------
(***************************************************************************)
(* Outbox replay: the rows of a run.                                       *)
(***************************************************************************)

LEMMA MinOfPlaces ==
    ASSUME NEW q \in Seq(Rows), NEW todos, todos # {}, todos \subseteq Range(q)
    PROVE  LET P == {i \in DOMAIN q : q[i] \in todos} IN
           Min(P) \in P /\ \A i \in P : Min(P) <= i
<1> DEFINE P == {i \in DOMAIN q : q[i] \in todos}
           f == [i \in P |-> i]
<1>1. DOMAIN q = 1..Len(q) /\ Len(q) \in Nat
  OBVIOUS
<1>2. P # {} /\ P \subseteq 1..Len(q) /\ P \subseteq Int
  BY <1>1 DEF Range
<1>3. IsFiniteSet(P)
  <2> HIDE DEF P
  <2>1. IsFiniteSet(1..Len(q))
    BY <1>1, FS_Interval
  <2> QED
    BY <1>2, <2>1, FS_Subset
<1>4. \A i \in P : f[i] = i /\ f[i] \in Int
  BY <1>2
<1> HIDE DEF P, f
<1>5. \E i \in P : \A j \in P : f[i] <= f[j]
  BY <1>2, <1>3, <1>4, FiniteLeast
<1>6. \E i \in P : \A j \in P : i <= j
  BY <1>4, <1>5
<1>7. Min(P) \in P /\ \A i \in P : Min(P) <= i
  BY <1>6 DEF Min
<1> QED
  BY <1>7 DEF P

LEMMA CurrentThere ==
    ASSUME NEW r \in Runs, outbox \in Seq(Rows), todo[r] # {}, todo[r] \subseteq Range(outbox)
    PROVE  Current(r) \in todo[r] /\ Current(r) \in Rows
<1>1. Current(r) \in todo[r]
  BY MinOfPlaces DEF Current
<1> QED
  BY <1>1 DEF Range

\* A new row comes behind the others.
LEMMA CurrentStays ==
    ASSUME NEW r \in Runs, outbox \in Seq(Rows), todo[r] # {}, todo[r] \subseteq Range(outbox),
           todo'[r] = todo[r],
           \/ outbox' = outbox
           \/ \E s \in Rows : s \notin Range(outbox) /\ outbox' = Append(outbox, s)
    PROVE  Current(r)' = Current(r)
<1> DEFINE P == {i \in DOMAIN outbox : outbox[i] \in todo[r]}
<1>1. CASE outbox' = outbox
  BY <1>1 DEF Current
<1>2. ASSUME NEW s \in Rows, s \notin Range(outbox), outbox' = Append(outbox, s)
      PROVE  Current(r)' = Current(r)
  <2>1. /\ DOMAIN outbox = 1..Len(outbox) /\ DOMAIN outbox' = 1..(Len(outbox) + 1)
        /\ Len(outbox) \in Nat
        /\ \A i \in 1..Len(outbox) : outbox'[i] = outbox[i]
        /\ outbox'[Len(outbox) + 1] = s
    BY <1>2
  <2>2. {i \in DOMAIN outbox' : outbox'[i] \in todo'[r]} = P
    <3>1. s \notin todo[r]
      BY <1>2
    <3>2. \A i : i \in 1..(Len(outbox) + 1) /\ outbox'[i] \in todo[r]
                 <=> i \in 1..Len(outbox) /\ outbox[i] \in todo[r]
      BY <2>1, <3>1
    <3> QED
      BY <2>1, <3>2
  <2>3. Min(P) \in P
    BY MinOfPlaces
  <2>4. outbox'[Min(P)] = outbox[Min(P)]
    BY <2>1, <2>3
  <2> HIDE DEF P
  <2> QED
    BY <2>2, <2>4 DEF Current, P
<1> QED
  BY <1>1, <1>2

-------------------------------------------------------------------------------
(***************************************************************************)
(* Outbox replay: ReplayInv is inductive.                                  *)
(***************************************************************************)

LEMMA RunTypes ==
    ReplayTypeOK => /\ todo \in [Runs -> SUBSET Rows] /\ snapshot \in [Runs -> SUBSET Rows]
                    /\ succeeded \in [Runs -> SUBSET Rows] /\ skipped \in [Runs -> SUBSET Rows]
                    /\ failed \in [Runs -> SUBSET Rows]
BY DEF ReplayTypeOK

LEMMA InitReplayInv == ReplayInit => ReplayInv
<1> SUFFICES ASSUME ReplayInit PROVE ReplayInv
  OBVIOUS
<1>0. Old \in Seq(Rows) /\ Range(Old) \subseteq Rows
  BY ReplayAssumption DEF Range
<1>1. /\ \A m \in moves : m = [row |-> m.row, by |-> Inline] /\ m.row \in Range(Old)
      /\ \A e \in entries : e = [row |-> e.row, by |-> Inline] /\ e.row \in Range(Old)
  BY DEF ReplayInit
<1>2. ReplayTypeOK
  <2>1. moves \subseteq Effect /\ entries \subseteq Effect
    BY <1>0, <1>1 DEF Effect
  <2> QED
    BY <1>0, <2>1, ReplayAssumption DEF ReplayInit, ReplayTypeOK
<1>3. EffectsOnce
  BY <1>1 DEF EffectsOnce, OneDoer
<1>4. NothingLost
  BY DEF ReplayInit, NothingLost
<1>5. \A r \in Runs : Accounted(r)
  <2>1. \A e \in moves \cup entries : e.by = Inline
    BY <1>1
  <2> QED
    BY <2>1, ReplayAssumption DEF ReplayInit, Accounted
<1> QED
  BY <1>2, <1>3, <1>4, <1>5 DEF ReplayInv

SameRun(q) ==
    /\ phase'[q] = phase[q] /\ todo'[q] = todo[q] /\ snapshot'[q] = snapshot[q]
    /\ before'[q] = before[q] /\ succeeded'[q] = succeeded[q] /\ skipped'[q] = skipped[q]
    /\ failed'[q] = failed[q]

OutboxGrows ==
    \/ outbox' = outbox
    \/ \E s \in Rows : s \notin Range(outbox) /\ outbox' = Append(outbox, s)

\* What a run has accounted for, while others work.
LEMMA AccountedStays ==
    ASSUME ReplayInv, NEW q \in Runs, SameRun(q), OutboxGrows, dispatched \subseteq dispatched',
           EffectsOnce', moves \subseteq moves', entries \subseteq entries',
           \A e \in (moves' \cup entries') \ (moves \cup entries) : e.by # q
    PROVE  Accounted(q)'
<1>0. Accounted(q) /\ outbox \in Seq(Rows) /\ EffectsOnce
  BY DEF ReplayInv, ReplayTypeOK
<1>1. Range(outbox) \subseteq Range(outbox')
  <2>1. ASSUME NEW s \in Rows, outbox' = Append(outbox, s) PROVE <1>1!:
    <3>1. Range(Append(outbox, s)) = Range(outbox) \cup {s}
      BY <1>0, AppendRange
    <3> QED
      BY <2>1, <3>1
  <2>2. CASE outbox' = outbox
    BY <2>2
  <2> QED
    BY <2>1, <2>2 DEF OutboxGrows
<1>2. todo[q] # {} => Current(q)' = Current(q)
  BY <1>0, CurrentStays DEF Accounted, SameRun, OutboxGrows
<1>3. before[q] # NotCounted =>
        /\ todo[q] # {} /\ Current(q) \notin Malformed
        /\ before[q] <= EffectsOf(moves', entries', Current(q))
  <2> SUFFICES ASSUME before[q] # NotCounted
               PROVE  before[q] <= EffectsOf(moves', entries', Current(q))
    BY <1>0 DEF Accounted
  <2> DEFINE s == Current(q)
  <2>1. before[q] <= EffectsOf(moves, entries, s) /\ before[q] \in 0..2
    BY <1>0 DEF Accounted, ReplayInv, ReplayTypeOK
  <2>2. /\ EffectsOf(moves, entries, s) <= EffectsOf(moves', entries', s)
        /\ EffectsOf(moves, entries, s) \in 0..2 /\ EffectsOf(moves', entries', s) \in 0..2
    <3>1. PICK c : c = s
      OBVIOUS
    <3>2. /\ EffectsOf(moves, entries, c) <= EffectsOf(moves', entries', c)
          /\ EffectsOf(moves, entries, c) \in 0..2 /\ EffectsOf(moves', entries', c) \in 0..2
      BY <1>0, EffectsGrow
    <3> QED
      BY <3>1, <3>2
  <2> HIDE DEF s
  <2>3. before[q] <= EffectsOf(moves', entries', s)
    BY <2>1, <2>2
  <2> QED
    BY <2>3 DEF s
<1>4. before'[q] # NotCounted =>
        /\ todo'[q] # {} /\ Current(q)' \notin Malformed
        /\ before'[q] <= EffectsOf(moves', entries', Current(q)')
  BY <1>2, <1>3 DEF SameRun
<1>5. \A e \in moves' \cup entries' : e.by = q => e.row \in succeeded'[q]
  BY <1>0 DEF Accounted, SameRun
<1> QED
  BY <1>0, <1>1, <1>4, <1>5 DEF Accounted, SameRun

\* The steps of a run that leave the tables and the outbox.
LEMMA QuietRun ==
    ASSUME ReplayInv, ReplayTypeOK', UNCHANGED <<outbox, Ledgers, dispatched>>, NEW r \in Runs,
           \A q \in Runs \ {r} : SameRun(q), Accounted(r)'
    PROVE  ReplayInv'
<1>1. EffectsOnce' /\ NothingLost'
  BY DEF ReplayInv, EffectsOnce, OneDoer, NothingLost, Done, Moved, Posted, Ledgers
<1>2. \A q \in Runs \ {r} : Accounted(q)'
  BY <1>1, AccountedStays DEF OutboxGrows, Ledgers
<1> QED
  BY <1>1, <1>2 DEF ReplayInv

LEMMA StartKeeps ==
    ASSUME ReplayInv, NEW r \in Runs, StartReplay(r)
    PROVE  ReplayInv'
<1>0. ReplayTypeOK /\ Accounted(r) /\ Range(outbox) \subseteq Rows
  BY DEF ReplayInv, ReplayTypeOK, Range
<1>1. /\ phase[r] = "idle" /\ phase' = [phase EXCEPT ![r] = "running"]
      /\ todo' = [todo EXCEPT ![r] = Pending] /\ snapshot' = [snapshot EXCEPT ![r] = Pending]
      /\ UNCHANGED <<Shop, Ledgers, dispatched, before, Summary>>
  BY DEF StartReplay
<1>2. /\ phase'[r] = "running" /\ todo'[r] = Pending /\ snapshot'[r] = Pending
      /\ \A q \in Runs \ {r} : SameRun(q)
  BY <1>0, <1>1, RunTypes DEF ReplayTypeOK, SameRun, Summary
<1>3. Pending \subseteq Range(outbox)
  BY DEF Pending
<1>4. ReplayTypeOK'
  BY <1>0, <1>1, <1>3, RunTypes DEF ReplayTypeOK, Shop, Ledgers, Summary
<1>5. /\ succeeded[r] = {} /\ skipped[r] = {} /\ failed[r] = {} /\ before[r] = NotCounted
  BY <1>0, <1>1 DEF Accounted
<1>6. Accounted(r)'
  BY <1>0, <1>1, <1>2, <1>3, <1>5 DEF Accounted, Shop, Ledgers, Summary
<1> QED
  BY <1>1, <1>2, <1>4, <1>6, QuietRun DEF Shop

LEMMA CountBeforeKeeps ==
    ASSUME ReplayInv, NEW r \in Runs, CountBefore(r)
    PROVE  ReplayInv'
<1>0. ReplayTypeOK /\ Accounted(r) /\ EffectsOnce
  BY DEF ReplayInv
<1>1. /\ phase[r] = "running" /\ todo[r] # {} /\ Current(r) \notin Malformed
      /\ UNCHANGED <<Shop, Ledgers, dispatched, phase, todo, snapshot, Summary>>
  BY DEF CountBefore, Running
<1>2. PICK n : n = EffectsOf(moves, entries, Current(r))
  OBVIOUS
<1>3. before' = [before EXCEPT ![r] = n] /\ n \in 0..2
  BY <1>0, <1>2, EffectsThere DEF CountBefore, EffectsOnce
<1>4. /\ before'[r] = n /\ Current(r)' = Current(r)
      /\ \A q \in Runs \ {r} : SameRun(q)
  BY <1>0, <1>1, <1>3 DEF ReplayTypeOK, SameRun, Summary, Current, Shop
<1>5. ReplayTypeOK'
  BY <1>0, <1>1, <1>3, RunTypes DEF ReplayTypeOK, Shop, Ledgers, Summary
<1>6. Accounted(r)'
  BY <1>0, <1>1, <1>2, <1>3, <1>4 DEF Accounted, Shop, Ledgers, Summary
<1> QED
  BY <1>1, <1>4, <1>5, <1>6, QuietRun DEF Shop

\* A malformed row, or one whose handlers raised.
LEMMA FailKeeps ==
    ASSUME ReplayInv, NEW r \in Runs, SkipMalformed(r) \/ FailRow(r)
    PROVE  ReplayInv'
<1>0. ReplayTypeOK /\ Accounted(r) /\ outbox \in Seq(Rows)
  BY DEF ReplayInv, ReplayTypeOK
<1>1. PICK s : s = Current(r)
  OBVIOUS
<1>2. /\ phase[r] = "running" /\ todo[r] # {}
      /\ failed' = [failed EXCEPT ![r] = failed[r] \cup {s}]
      /\ todo' = [todo EXCEPT ![r] = todo[r] \ {s}]
      /\ before' = [before EXCEPT ![r] = NotCounted]
      /\ UNCHANGED <<Shop, Ledgers, dispatched, phase, snapshot, succeeded, skipped>>
  BY <1>1 DEF SkipMalformed, FailRow, Running, NextRow
<1>3. s \in todo[r] /\ s \in Rows
  BY <1>0, <1>1, <1>2, CurrentThere DEF Accounted
<1>4. /\ failed'[r] = failed[r] \cup {s} /\ todo'[r] = todo[r] \ {s} /\ before'[r] = NotCounted
      /\ \A q \in Runs \ {r} : SameRun(q)
  BY <1>0, <1>2, RunTypes DEF ReplayTypeOK, SameRun
<1>5. ReplayTypeOK'
  BY <1>0, <1>2, <1>3, RunTypes DEF ReplayTypeOK, Shop, Ledgers
<1>6. Accounted(r)'
  BY <1>0, <1>2, <1>3, <1>4 DEF Accounted, Shop, Ledgers
<1> QED
  BY <1>2, <1>4, <1>5, <1>6, QuietRun DEF Shop

LEMMA EndReplayKeeps ==
    ASSUME ReplayInv, NEW r \in Runs, EndReplay(r) \/ Crash(r)
    PROVE  ReplayInv'
<1>0. ReplayTypeOK /\ Accounted(r)
  BY DEF ReplayInv
<1>1. PICK how \in {"done", "dead"} :
        /\ phase' = [phase EXCEPT ![r] = how] /\ (how = "done" => todo[r] = {})
        /\ UNCHANGED <<Shop, Ledgers, dispatched, todo, snapshot, before, Summary>>
  BY DEF EndReplay, Crash
<1>2. phase'[r] = how /\ Current(r)' = Current(r) /\ \A q \in Runs \ {r} : SameRun(q)
  BY <1>0, <1>1 DEF ReplayTypeOK, SameRun, Summary, Current, Shop
<1>3. ReplayTypeOK'
  BY <1>0, <1>1, RunTypes DEF ReplayTypeOK, Shop, Ledgers, Summary
<1>4. Accounted(r)'
  BY <1>0, <1>1, <1>2 DEF Accounted, Shop, Ledgers, Summary
<1> QED
  BY <1>1, <1>2, <1>3, <1>4, QuietRun DEF Shop

LEMMA ShipKeeps ==
    ASSUME ReplayInv, NEW s \in Rows, Ship(s)
    PROVE  ReplayInv'
<1>0. ReplayTypeOK /\ EffectsOnce /\ outbox \in Seq(Rows) /\ Inline \notin Runs
  BY ReplayAssumption DEF ReplayInv, ReplayTypeOK
<1>1. /\ s \notin Range(outbox) /\ outbox' = Append(outbox, s)
      /\ Dispatch(s, Inline) /\ UNCHANGED <<closed, dispatched, RunVars>>
  BY DEF Ship
<1>2. outbox' \in Seq(Rows) /\ Range(outbox') = Range(outbox) \cup {s}
  <2>1. Append(outbox, s) \in Seq(Rows) /\ Range(Append(outbox, s)) = Range(outbox) \cup {s}
    BY <1>0, AppendRange
  <2> QED
    BY <1>1, <2>1
<1>3. /\ EffectsOnce' /\ moves \subseteq moves' /\ entries \subseteq entries' /\ Done(s)'
      /\ moves' \subseteq Effect /\ entries' \subseteq Effect /\ onHand' \in Nat
      /\ \A e \in (moves' \cup entries') \ (moves \cup entries) : e.by = Inline
  BY <1>0, <1>1, DispatchEffects
<1>4. ReplayTypeOK'
  BY <1>0, <1>1, <1>2, <1>3, RunTypes DEF ReplayTypeOK, RunVars, Summary
<1>5. \A o : Done(o) => Done(o)'
  BY <1>0, <1>3, EffectsGrow
<1>6. NothingLost'
  BY <1>1, <1>2, <1>3, <1>5 DEF ReplayInv, NothingLost
<1>7. ASSUME NEW q \in Runs PROVE Accounted(q)'
  BY <1>0, <1>1, <1>3, AccountedStays DEF SameRun, OutboxGrows, RunVars, Summary
<1> QED
  BY <1>3, <1>4, <1>6, <1>7 DEF ReplayInv

\* Adjustments and closed periods are no effects of a row.
LEMMA ShopKeeps ==
    ASSUME ReplayInv, UNCHANGED <<outbox, Ledgers, dispatched, RunVars>>,
           onHand' \in Nat, closed' \subseteq Closable
    PROVE  ReplayInv'
<1>1. EffectsOnce' /\ NothingLost'
  BY DEF ReplayInv, EffectsOnce, OneDoer, NothingLost, Done, Moved, Posted, Ledgers
<1>2. ReplayTypeOK'
  BY RunTypes DEF ReplayInv, ReplayTypeOK, Ledgers, RunVars, Summary
<1>3. \A q \in Runs : Accounted(q)'
  BY <1>1, AccountedStays DEF OutboxGrows, Ledgers, RunVars, Summary, SameRun
<1> QED
  BY <1>1, <1>2, <1>3 DEF ReplayInv

\* A row that a run has carried out is reported as succeeded if the run wrote
\* anything for it: what it counted before was no more than what was there.
LEMMA RedispatchKeeps ==
    ASSUME ReplayInv, NEW r \in Runs, Redispatch(r)
    PROVE  ReplayInv'
<1>0. ReplayTypeOK /\ EffectsOnce /\ Accounted(r) /\ outbox \in Seq(Rows)
  BY DEF ReplayInv, ReplayTypeOK
<1>1. PICK s : s = Current(r)
  OBVIOUS
<1>2. /\ phase[r] = "running" /\ todo[r] # {} /\ before[r] # NotCounted
      /\ Dispatch(s, r) /\ dispatched' = dispatched \cup {s}
      /\ todo' = [todo EXCEPT ![r] = todo[r] \ {s}]
      /\ before' = [before EXCEPT ![r] = NotCounted]
      /\ UNCHANGED <<outbox, closed, phase, snapshot, failed>>
  BY <1>1 DEF Redispatch, Running, NextRow
<1>3. /\ s \in todo[r] /\ s \in Rows /\ s \notin Malformed /\ s \in Range(outbox)
      /\ before[r] <= EffectsOf(moves, entries, s) /\ before[r] \in 0..2
  BY <1>0, <1>1, <1>2, CurrentThere DEF Accounted, ReplayTypeOK
<1>4. /\ EffectsOnce' /\ moves \subseteq moves' /\ entries \subseteq entries' /\ Done(s)'
      /\ moves' \subseteq Effect /\ entries' \subseteq Effect /\ onHand' \in Nat
      /\ \A e \in (moves' \cup entries') \ (moves \cup entries) : e.by = r /\ e.row = s
      /\ moves' # moves \/ entries' # entries =>
            EffectsOf(moves', entries', s) > EffectsOf(moves, entries, s)
  BY <1>0, <1>2, <1>3, DispatchEffects
<1>5. PICK more \in BOOLEAN :
        /\ more <=> EffectsOf(moves', entries', s) > before[r]
        /\ succeeded' = IF more THEN [succeeded EXCEPT ![r] = succeeded[r] \cup {s}] ELSE succeeded
        /\ skipped' = IF more THEN skipped ELSE [skipped EXCEPT ![r] = skipped[r] \cup {s}]
  BY <1>1 DEF Redispatch
<1>6. moves' # moves \/ entries' # entries => more
  <2>1. EffectsOf(moves, entries, s) \in 0..2 /\ EffectsOf(moves', entries', s) \in 0..2
    BY <1>0, <1>4, EffectsGrow
  <2> QED
    BY <1>3, <1>4, <1>5, <2>1
<1>7. /\ todo'[r] = todo[r] \ {s} /\ before'[r] = NotCounted
      /\ succeeded'[r] = IF more THEN succeeded[r] \cup {s} ELSE succeeded[r]
      /\ skipped'[r] = IF more THEN skipped[r] ELSE skipped[r] \cup {s}
      /\ \A q \in Runs \ {r} : SameRun(q)
  BY <1>0, <1>2, <1>5, RunTypes DEF ReplayTypeOK, SameRun
<1>8. ReplayTypeOK'
  <2>1. /\ todo' \in [Runs -> SUBSET Rows] /\ succeeded' \in [Runs -> SUBSET Rows]
        /\ skipped' \in [Runs -> SUBSET Rows] /\ before' \in [Runs -> 0..2 \cup {NotCounted}]
    BY <1>0, <1>2, <1>3, <1>5, RunTypes DEF ReplayTypeOK
  <2> QED
    BY <1>0, <1>2, <1>3, <1>4, <2>1, RunTypes DEF ReplayTypeOK
<1>9. NothingLost'
  <2>1. \A o : Done(o) => Done(o)'
    BY <1>0, <1>4, EffectsGrow
  <2> QED
    BY <1>2, <1>3, <1>4, <2>1 DEF ReplayInv, NothingLost
<1>10. ASSUME NEW q \in Runs \ {r} PROVE Accounted(q)'
  BY <1>2, <1>4, <1>7, AccountedStays DEF OutboxGrows
<1>11. Accounted(r)'
  <2>1. \A e \in moves' \cup entries' : e.by = r => e.row \in succeeded'[r]
    BY <1>0, <1>4, <1>6, <1>7 DEF Accounted
  <2>2. s \notin succeeded[r] \cup skipped[r] \cup failed[r]
    BY <1>0, <1>3 DEF Accounted
  <2>3. /\ snapshot'[r] = snapshot[r] /\ failed'[r] = failed[r] /\ phase'[r] = "running"
        /\ outbox' = outbox
    BY <1>2
  <2>4. CASE more
    BY <1>0, <1>2, <1>3, <1>7, <2>1, <2>2, <2>3, <2>4 DEF Accounted
  <2>5. CASE ~more
    BY <1>0, <1>2, <1>3, <1>7, <2>1, <2>2, <2>3, <2>5 DEF Accounted
  <2> QED
    BY <2>4, <2>5
<1> QED
  BY <1>4, <1>8, <1>9, <1>10, <1>11 DEF ReplayInv

LEMMA NextReplayInv == ReplayInv /\ [ReplayNext]_replayVars => ReplayInv'
<1> SUFFICES ASSUME ReplayInv, [ReplayNext]_replayVars PROVE ReplayInv'
  OBVIOUS
<1>0. onHand \in Nat /\ closed \subseteq Closable
  BY DEF ReplayInv, ReplayTypeOK
<1>1. ASSUME NEW s \in Rows, Ship(s) PROVE ReplayInv'
  BY <1>1, ShipKeeps
<1>2. ASSUME NEW d \in Deltas, Adjust(d) PROVE ReplayInv'
  <2>1. onHand' \in Nat /\ closed' \subseteq Closable
    BY <1>0, <1>2, ReplayAssumption DEF Adjust
  <2> QED
    BY <1>2, <2>1, ShopKeeps DEF Adjust
<1>3. ASSUME NEW p \in Closable, ClosePeriod(p) PROVE ReplayInv'
  <2>1. onHand' \in Nat /\ closed' \subseteq Closable
    BY <1>0, <1>3 DEF ClosePeriod
  <2> QED
    BY <1>3, <2>1, ShopKeeps DEF ClosePeriod
<1>4. ASSUME NEW r \in Runs, StartReplay(r) \/ AdvanceRun(r) \/ Crash(r) PROVE ReplayInv'
  BY <1>4, StartKeeps, CountBeforeKeeps, FailKeeps, RedispatchKeeps, EndReplayKeeps DEF AdvanceRun
<1>5. CASE UNCHANGED replayVars
  BY <1>0, <1>5, ShopKeeps DEF replayVars, Shop
<1> QED
  BY <1>1, <1>2, <1>3, <1>4, <1>5 DEF ReplayNext, ShopRequests

\* Every row a run has selected is still to do or in one list of its summary,
\* what it counted ahead of the handlers is never more than what is there, and
\* the tables keep their types, in every reachable state.
THEOREM ReplayInductive == ReplaySpec => []ReplayInv
<1>1. ReplayInit => ReplayInv
  BY InitReplayInv
<1>2. ReplayInv /\ [ReplayNext]_replayVars => ReplayInv'
  BY NextReplayInv
<1> QED
  BY <1>1, <1>2, PTL DEF ReplaySpec

\* Whoever dispatches a row, inline or in any number of replay runs at once,
\* its stock and its cost are booked once (handle_goods_shipped,
\* handle_posting_event).
THEOREM BookedOnce == ReplaySpec => []EffectsOnce
<1>1. ReplayInv => EffectsOnce
  BY DEF ReplayInv
<1> QED
  BY <1>1, ReplayInductive, PTL

\* No row is published, or marked dispatched by a replay, without every effect
\* its handlers owe (publish, replay_outbox).
THEOREM NoEffectLost == ReplaySpec => []NothingLost
<1>1. ReplayInv => NothingLost
  BY DEF ReplayInv
<1> QED
  BY <1>1, ReplayInductive, PTL

\* A run that ended has accounted for each row it selected, once, dispatched
\* those that did not fail, and reports what it wrote as succeeded, however
\* requests and other runs interleave and crash (replay_outbox).
THEOREM SummariesTrue == ReplaySpec => []SummaryTrue
<1>1. ReplayInv => SummaryTrue
  BY DEF ReplayInv, Accounted, SummaryTrue
<1> QED
  BY <1>1, ReplayInductive, PTL

-------------------------------------------------------------------------------
(***************************************************************************)
(* Plugins: UpdatesInv holds whatever the settings switch off. That every  *)
(* enabled plugin has its prerequisites enabled (AllMet) holds as long as  *)
(* settings.disabled_plugins never switches off a plugin that has any      *)
(* (DependentsStayOn). Run MCPluginsRestart shows that it needs that.      *)
(***************************************************************************)

USE PluginsAssumption

\* Every conjunct of the invariants is a predicate of the variables alone.
LEMMA UpdatesStutter ==
    UpdatesInv /\ UNCHANGED vars => UpdatesInv'
BY DEF UpdatesInv, TypeOK, LoadedBySettings, Holders, Served, StillAllowed, vars,
       Enabled, Config, Merged, DependenciesAllow

LEMMA InitUpdatesInv == Init => UpdatesInv
<1> SUFFICES ASSUME Init PROVE UpdatesInv
    OBVIOUS
<1> PICK off \in Settings : LoadableWith(off) /\ loaded = Active(off)
    BY DEF Init
<1>1. TypeOK
    BY DEF Init, TypeOK, Active
<1> QED
    BY <1>1 DEF UpdatesInv, Init, LoadedBySettings, Holders, Served, StillAllowed

\* A company without rows runs the defaults, which Invariant A closes upward.
LEMMA InitPluginsInv ==
    ASSUME DependentsStayOn, Init
    PROVE  PluginsInv
<1> PICK off \in Settings : LoadableWith(off) /\ loaded = Active(off)
    BY DEF Init
<1>1. AllMet
    <2> SUFFICES ASSUME NEW p \in Plugins, p \in DefaultEnabled, NEW q \in Requires[p]
                 PROVE  q \in DefaultEnabled
        BY DEF AllMet, Enabled, Init
    <2>1. p \in Active(off)
        BY DEF DependentsStayOn, Active
    <2> QED
        BY <2>1 DEF LoadableWith, UpwardClosed
<1> QED
    BY <1>1, InitUpdatesInv DEF PluginsInv

\* A merged row is well typed once its configuration is accepted.
LEMMA MergedRow ==
    ASSUME TypeOK, NEW r \in Requests, ConfigAccepted(Merged(r))
    PROVE  Merged(r) \in Row
<1>1. r.plugin \in Plugins /\ r.enabled \in BOOLEAN \cup {Omitted}
    BY DEF Requests, EnableRequests, DisableRequests, ConfigureRequests
<1>2. Enabled(r.plugin) \in BOOLEAN
    <2>1. CASE rows[r.plugin] = NoRow
        BY <2>1 DEF Enabled
    <2>2. CASE rows[r.plugin] # NoRow
        <3>1. rows[r.plugin] \in Row
            BY <1>1, <2>2 DEF TypeOK
        <3> QED
            BY <2>2, <3>1 DEF Enabled, Row
    <2> QED
        BY <2>1, <2>2
<1>3. Merged(r).enabled \in BOOLEAN
    BY <1>1, <1>2 DEF Merged
<1> QED
    BY <1>3 DEF Merged, Row, ConfigAccepted

\* Enabled and Config of a plugin depend on its row alone.
LEMMA SameRows ==
    ASSUME rows' = rows
    PROVE  /\ \A p : Enabled(p)' = Enabled(p) /\ Config(p)' = Config(p)
           /\ AllMet => AllMet'
BY DEF Enabled, Config, AllMet

\* Every action of a transaction preserves the invariant.
LEMMA UpdateBeginKeeps ==
    ASSUME UpdatesInv, NEW t \in Txns, NEW r \in Requests, Begin(t, r)
    PROVE  UpdatesInv'
<1> USE DEF UpdatesInv, Begin, Goto
<1>1. TypeOK'
    BY DEF TypeOK
<1>2. LoadedBySettings'
    BY DEF LoadedBySettings
<1>3. Holders' = Holders
    BY DEF Holders, TypeOK
<1>4. ASSUME NEW u \in Txns PROVE Served(u)' /\ StillAllowed(u)'
    BY DEF TypeOK, Served, StillAllowed, Merged, DependenciesAllow, Enabled, Config
<1> QED
    BY <1>1, <1>2, <1>3, <1>4

\* An aborted transaction, or a refused one, leaves the rows alone.
LEMMA RefuseKeeps ==
    ASSUME UpdatesInv, NEW t \in Txns, Refuse(t)
    PROVE  UpdatesInv'
<1> USE DEF UpdatesInv, Refuse, Goto
<1>1. TypeOK'
    BY DEF TypeOK
<1>2. LoadedBySettings'
    BY DEF LoadedBySettings
<1>3. Holders' \subseteq Holders
    BY DEF Holders, TypeOK
<1>4. ASSUME NEW u \in Txns PROVE Served(u)' /\ StillAllowed(u)'
    BY DEF TypeOK, Served, StillAllowed, Merged, DependenciesAllow, Enabled, Config
<1> QED
    BY <1>1, <1>2, <1>3, <1>4

\* The lock is granted to a transaction when no other has it.
LEMMA LockKeeps ==
    ASSUME UpdatesInv, NEW t \in Txns, LockCompany(t)
    PROVE  UpdatesInv'
<1> USE DEF UpdatesInv, LockCompany, Goto
<1>1. TypeOK'
    BY DEF TypeOK
<1>2. LoadedBySettings'
    BY DEF LoadedBySettings
<1>3. Holders' = {t}
    BY DEF Holders, TypeOK
<1>4. ASSUME NEW u \in Txns PROVE Served(u)' /\ StillAllowed(u)'
    BY DEF TypeOK, Served, StillAllowed, Merged, DependenciesAllow, Enabled, Config
<1> QED
    BY <1>1, <1>2, <1>3, <1>4

\* What a transaction will write is what it has just checked.
LEMMA LoadKeeps ==
    ASSUME UpdatesInv, NEW t \in Txns, LoadRows(t)
    PROVE  UpdatesInv'
<1> DEFINE row == Merged(req[t])
<1>1. CASE Refuse(t)
    BY <1>1, RefuseKeeps
<1>2. CASE /\ ConfigAccepted(row) /\ DependenciesAllow(req[t].plugin, row.enabled)
           /\ pc[t] = "load"
           /\ new' = [new EXCEPT ![t] = row]
           /\ Goto(t, "commit")
           /\ UNCHANGED <<loaded, rows, req>>
    <2> HIDE DEF row
    <2>1. req[t] \in Requests /\ Served(t)
        BY <1>2 DEF UpdatesInv, Served
    <2>2. row \in Row
        BY <1>2, <2>1, MergedRow DEF row, UpdatesInv
    <2>3. TypeOK'
        BY <1>2, <2>2 DEF UpdatesInv, TypeOK, Goto
    <2>4. LoadedBySettings'
        BY <1>2 DEF UpdatesInv, LoadedBySettings
    <2>5. Holders' = Holders
        BY <1>2 DEF UpdatesInv, Holders, TypeOK, Goto
    <2>6. ASSUME NEW u \in Txns PROVE Served(u)'
        BY <1>2, <2>1 DEF UpdatesInv, TypeOK, Served, Goto
    <2>7. ASSUME NEW u \in Txns PROVE StillAllowed(u)'
        <3>1. CASE u = t
            <4>1. new'[t] = row /\ req'[t] = req[t]
                BY <1>2 DEF UpdatesInv, TypeOK
            <4>2. Merged(req[t])' = row
                BY <1>2 DEF row, Merged, Enabled, Config
            <4>3. DependenciesAllow(req[t].plugin, row.enabled)'
                BY <1>2, <4>2 DEF DependenciesAllow, Enabled, row, Merged, Config
            <4> QED
                BY <3>1, <4>1, <4>2, <4>3, <2>2, <1>2 DEF StillAllowed, DependenciesAllow, Enabled
        <3>2. CASE u # t
            BY <3>2, <1>2
            DEF UpdatesInv, TypeOK, StillAllowed, Goto, Merged, DependenciesAllow, Enabled, Config
        <3> QED
            BY <3>1, <3>2
    <2> QED
        BY <2>3, <2>4, <2>5, <2>6, <2>7 DEF UpdatesInv
<1> QED
    BY <1>1, <1>2 DEF LoadRows

\* A commit ends the one transaction that has the lock.
LEMMA CommitKeeps ==
    ASSUME UpdatesInv, NEW t \in Txns, Commit(t)
    PROVE  UpdatesInv'
<1>1. /\ pc[t] = "commit" /\ pc' = [pc EXCEPT ![t] = "committed"]
      /\ rows' = [rows EXCEPT ![req[t].plugin] = new[t]]
      /\ UNCHANGED <<loaded, req, new>>
    BY DEF Commit, Goto
<1>2. new[t] \in Row
    BY <1>1 DEF UpdatesInv, StillAllowed
<1>3. TypeOK'
    BY <1>1, <1>2 DEF UpdatesInv, TypeOK
<1>4. LoadedBySettings'
    BY <1>1 DEF UpdatesInv, LoadedBySettings
<1>5. Holders' = {}
    BY <1>1 DEF UpdatesInv, Holders, TypeOK
<1>6. ASSUME NEW u \in Txns PROVE Served(u)' /\ StillAllowed(u)'
    <2>1. pc'[u] \notin {"load", "commit"}
        BY <1>5 DEF Holders
    <2>2. Served(u)'
        BY <1>1, <2>1 DEF UpdatesInv, Served, TypeOK
    <2> QED
        BY <2>1, <2>2 DEF StillAllowed
<1> QED
    BY <1>3, <1>4, <1>5, <1>6 DEF UpdatesInv

\* A restart leaves the rows and no transaction that runs.
LEMMA RestartKeeps ==
    ASSUME UpdatesInv, NEW off \in Settings, Restart(off)
    PROVE  UpdatesInv'
<1> USE DEF UpdatesInv, Restart
<1>1. TypeOK'
    BY DEF TypeOK, Active
<1>2. LoadedBySettings'
    BY DEF LoadedBySettings, LoadableWith, Active
<1>3. ASSUME NEW u \in Txns PROVE pc'[u] \notin {"lock", "load", "commit"}
    BY DEF TypeOK
<1>4. Holders' = {}
    BY <1>3 DEF Holders
<1> QED
    BY <1>1, <1>2, <1>3, <1>4 DEF Served, StillAllowed

LEMMA NextUpdatesInv ==
    ASSUME UpdatesInv, [Next]_vars
    PROVE  UpdatesInv'
<1>1. ASSUME NEW t \in Txns, NEW r \in Requests, Begin(t, r) PROVE UpdatesInv'
    BY <1>1, UpdateBeginKeeps
<1>2. ASSUME NEW t \in Txns, Advance(t) PROVE UpdatesInv'
    BY <1>2, LockKeeps, LoadKeeps, CommitKeeps DEF Advance
<1>3. ASSUME NEW t \in Txns, Rollback(t) PROVE UpdatesInv'
    BY <1>3, RefuseKeeps DEF Rollback
<1>4. ASSUME NEW off \in Settings, Restart(off) PROVE UpdatesInv'
    BY <1>4, RestartKeeps
<1>5. CASE UNCHANGED vars
    BY <1>5, UpdatesStutter
<1> QED
    BY <1>1, <1>2, <1>3, <1>4, <1>5 DEF Next

\* Loading stops at no plugin that has prerequisites.
LEMMA DependentsLoaded ==
    ASSUME DependentsStayOn, LoadedBySettings, loaded # {},
           NEW p \in Plugins, Requires[p] # {}
    PROVE  p \in loaded
BY DEF DependentsStayOn, LoadedBySettings, Active

\* The row that is written was checked against the rows that are still there.
LEMMA CommitMeets ==
    ASSUME DependentsStayOn, PluginsInv, NEW t \in Txns, Commit(t)
    PROVE  AllMet'
<1> DEFINE p == req[t].plugin
           row == new[t]
<1>1. /\ pc[t] = "commit" /\ rows' = [rows EXCEPT ![p] = row] /\ loaded' = loaded
    BY DEF Commit, Goto
<1>2. /\ p \in loaded /\ p \in Plugins
      /\ row \in Row /\ row # NoRow
      /\ DependenciesAllow(p, row.enabled)
    BY <1>1 DEF PluginsInv, UpdatesInv, TypeOK, Served, StillAllowed, Row
<1> HIDE DEF p, row
<1>3. ASSUME NEW q \in Plugins PROVE Enabled(q)' = IF q = p THEN row.enabled ELSE Enabled(q)
    <2>1. rows'[q] = IF q = p THEN row ELSE rows[q]
        BY <1>1 DEF PluginsInv, UpdatesInv, TypeOK
    <2> QED
        BY <2>1, <1>2 DEF Enabled
<1> SUFFICES ASSUME NEW a \in Plugins, Enabled(a)', NEW b \in Requires[a]
             PROVE  Enabled(b)'
    BY DEF AllMet
<1>4. b \in Plugins
    OBVIOUS
<1>5. CASE a = p
    BY <1>5, <1>4, <1>2, <1>3 DEF DependenciesAllow
<1>6. CASE a # p
    <2>1. Enabled(a)
        BY <1>6, <1>3
    <2>2. Enabled(b)
        BY <2>1 DEF PluginsInv, AllMet
    <2>3. a \in loaded
        BY <1>2, DependentsLoaded DEF PluginsInv, UpdatesInv
    <2>4. b = p => row.enabled
        BY <2>1, <2>3, <1>2 DEF DependenciesAllow
    <2> QED
        BY <2>2, <2>4, <1>4, <1>3
<1> QED
    BY <1>5, <1>6

\* Only a commit writes a row.
LEMMA OthersLeaveRows ==
    ASSUME [Next]_vars
    PROVE  rows' = rows \/ \E t \in Txns : Commit(t)
BY DEF Next, Begin, Advance, LockCompany, LoadRows, Rollback, Refuse, Restart, vars

LEMMA PluginsStutter ==
    PluginsInv /\ UNCHANGED vars => PluginsInv'
BY UpdatesStutter, SameRows DEF PluginsInv, vars

LEMMA NextPluginsInv ==
    ASSUME DependentsStayOn, PluginsInv, [Next]_vars
    PROVE  PluginsInv'
<1>1. UpdatesInv'
    BY NextUpdatesInv DEF PluginsInv
<1>2. AllMet'
    BY OthersLeaveRows, CommitMeets, SameRows DEF PluginsInv
<1> QED
    BY <1>1, <1>2 DEF PluginsInv

\* The row an update is about to write was checked against the rows that are
\* still there, and no invalid configuration is stored, whatever the settings
\* switch off (update_company_plugin).
THEOREM UpdatesInductive == Spec => []UpdatesInv
<1>1. Init => UpdatesInv
    BY InitUpdatesInv
<1>2. UpdatesInv /\ [Next]_vars => UpdatesInv'
    BY NextUpdatesInv
<1> QED
    BY <1>1, <1>2, PTL DEF Spec

\* Besides, every enabled plugin, loaded or not, has its prerequisites enabled in
\* every reachable state, if the settings switch off none that has any.
THEOREM PluginsInductive ==
    ASSUME DependentsStayOn
    PROVE  Spec => []PluginsInv
<1>1. Init => PluginsInv
    BY InitPluginsInv
<1>2. PluginsInv /\ [Next]_vars => PluginsInv'
    BY NextPluginsInv
<1> QED
    BY <1>1, <1>2, PTL DEF Spec

\* The variables keep their types, so that no invalid configuration is stored.
THEOREM PluginsTyped == Spec => []TypeOK
<1>1. UpdatesInv => TypeOK
    BY DEF UpdatesInv
<1> QED
    BY <1>1, UpdatesInductive, PTL

\* Whatever updates race, an enabled plugin has its prerequisites enabled: the
\* induction ADR-010 speaks of.
THEOREM PrerequisitesEnabled ==
    ASSUME DependentsStayOn
    PROVE  Spec => []DependenciesMet
<1>1. PluginsInv => DependenciesMet
    BY DEF PluginsInv, UpdatesInv, AllMet, DependenciesMet, TypeOK
<1> QED
    BY <1>1, PluginsInductive, PTL

\* A committed update changes what it names and overwrites nothing else, whatever
\* the settings switch off.
THEOREM UpdatesKept == Spec => NothingOverwritten
<1> DEFINE Kept(t) ==
        LET r == req[t] IN
        /\ Wants(rows'[r.plugin].enabled, r.enabled, Enabled(r.plugin))
        /\ Wants(rows'[r.plugin].config, r.config, Config(r.plugin))
        /\ \A q \in Plugins \ {r.plugin} : rows'[q] = rows[q]
    A == \A t \in Txns : pc[t] = "commit" /\ pc'[t] = "committed" => Kept(t)
<1>1. UpdatesInv /\ [Next]_vars => [A]_vars
    <2> SUFFICES ASSUME UpdatesInv, Next, NEW t \in Txns, pc[t] = "commit", pc'[t] = "committed"
                 PROVE  Kept(t)
        OBVIOUS
    <2>1. Commit(t)
        BY DEF Next, Advance, Begin, LockCompany, LoadRows, Commit, Rollback, Refuse, Restart, Goto,
               UpdatesInv, TypeOK
    <2>2. req[t].plugin \in Plugins /\ new[t] = Merged(req[t])
        BY DEF UpdatesInv, TypeOK, Served, StillAllowed
    <2>3. rows'[req[t].plugin] = Merged(req[t])
        BY <2>1, <2>2 DEF Commit, UpdatesInv, TypeOK
    <2>4. \A q \in Plugins \ {req[t].plugin} : rows'[q] = rows[q]
        BY <2>1 DEF Commit, UpdatesInv, TypeOK
    <2> QED
        BY <2>3, <2>4 DEF Merged, Wants
<1> QED
    BY <1>1, UpdatesInductive, PTL DEF Spec, NothingOverwritten

-------------------------------------------------------------------------------
(***************************************************************************)
(* Gate: the firings of a hook or an event.                                *)
(***************************************************************************)

LEMMA LoadedOrdered ==
    ASSUME LoadedBySettings
    PROVE  /\ \A p \in loaded : Requires[p] \subseteq loaded
           /\ \A S \in SUBSET loaded : S # {} => \E p \in S : Requires[p] \cap S = {}
BY DEF LoadedBySettings, LoadableWith, Complete, Cyclic

\* The next handler is one of those left, and its plugin needs none of them.
LEMMA FirstThere ==
    ASSUME PluginsInv, NEW left \in SUBSET loaded, left # {}
    PROVE  First(left) \in left /\ Requires[First(left)] \cap left = {}
<1> DEFINE ready == {p \in left : Requires[p] \cap left = {}}
<1>1. ready # {} /\ ready \subseteq Plugins
    BY LoadedOrdered DEF PluginsInv, UpdatesInv, TypeOK
<1>2. IsFiniteSet(ready) /\ \A p \in ready : Rank[p] \in Int
    BY <1>1, FS_Subset, GateAssumption
<1>3. First(left) \in ready
    <2> HIDE DEF ready
    <2>1. \E p \in ready : \A q \in ready : Rank[p] <= Rank[q]
        BY <1>1, <1>2, FiniteLeast
    <2>2. Least(ready) \in ready
        BY <2>1 DEF Least
    <2> QED
        BY <2>2 DEF First, ready
<1> QED
    BY <1>3

LEMMA ConfigValid ==
    ASSUME PluginsInv, NEW p \in loaded
    PROVE  Config(p) \in ValidConfigs
BY DEF PluginsInv, UpdatesInv, TypeOK, Config, Row

\* What the gate has to keep of one firing.
Due(f) ==
    /\ TurnTaken(f) /\ firing[f].phase # "broken"
    /\ firing[f].phase = "invoke" => Requires[Handler(f)] \subseteq firing[f].ran \cup touched[f]

LEMMA DueThere == GateInv <=> PluginsInv /\ FiringTypeOK /\ \A f \in Firings : Due(f)
BY DEF GateInv, PrerequisitesRunFirst, Due

\* A firing that does not move.
LEMMA DueStays ==
    ASSUME GateInv, NEW f \in Firings, firing'[f] = firing[f], loaded' = loaded, Observe
    PROVE  Due(f)'
<1>1. Due(f) /\ loaded \subseteq Plugins /\ Handler(f)' = Handler(f)
    BY DueThere DEF GateInv, PluginsInv, UpdatesInv, TypeOK, Handler
<1>2. CASE firing[f].phase \notin Underway
    BY <1>1, <1>2 DEF Due, TurnTaken, Underway
<1>3. CASE firing[f].phase \in Underway
    <2>1. touched'[f] = touched[f] \cup {p \in Plugins : rows'[p] # rows[p]}
        BY <1>3 DEF Observe
    <2>2. \A p \in loaded : Enabled(p)' = Enabled(p) \/ p \in touched'[f]
        BY <1>1, <2>1 DEF Enabled
    <2>3. TurnTaken(f)'
        BY <1>1, <2>1, <2>2 DEF Due, TurnTaken
    <2> QED
        BY <1>1, <2>1, <2>3 DEF Due
<1> QED
    BY <1>2, <1>3

\* What a firing becomes as it goes on to the next handler.
LEMMA OnwardDue ==
    ASSUME GateInv, UNCHANGED vars, Observe, NEW f \in Firings,
           NEW left \in SUBSET loaded, NEW ran \in SUBSET Plugins, Onward(f, left, ran),
           \A p \in loaded \ left : Enabled(p) => p \in ran \cup touched[f]
    PROVE  FiringTypeOK' /\ Due(f)' /\ \A g \in Firings \ {f} : firing'[g] = firing[g]
<1>0. FiringTypeOK /\ loaded \subseteq Plugins
    BY DEF GateInv, PluginsInv, UpdatesInv, TypeOK
<1> DEFINE next == IF left = {} THEN [NoFiring EXCEPT !.phase = "done"]
                   ELSE [phase |-> "ask", left |-> left, config |-> NoRow, ran |-> ran]
<1>1. firing' = [firing EXCEPT ![f] = next]
    BY DEF Onward, EndFiring
<1>2. /\ next \in [phase  : {"idle", "ask", "invoke", "done", "broken", "vetoed", "dead"},
                   left   : SUBSET Plugins,
                   config : ValidConfigs \cup {NoRow},
                   ran    : SUBSET Plugins]
      /\ next.phase \in {"ask", "done"}
      /\ next.phase = "ask" => next.left = left /\ next.ran = ran /\ left # {}
    BY <1>0 DEF NoFiring
<1> HIDE DEF next
<1>3. firing'[f] = next /\ \A g \in Firings \ {f} : firing'[g] = firing[g]
    BY <1>0, <1>1 DEF FiringTypeOK
<1>4. FiringTypeOK'
    BY <1>0, <1>1, <1>2 DEF FiringTypeOK, Observe
<1>5. next.phase = "ask" => touched[f] \subseteq touched'[f]
    BY <1>3 DEF Observe, Underway
<1>6. loaded' = loaded /\ \A p : Enabled(p)' = Enabled(p)
    BY DEF vars, Enabled
<1>7. Due(f)'
    BY <1>2, <1>3, <1>5, <1>6 DEF Due, TurnTaken, Underway
<1> QED
    BY <1>3, <1>4, <1>7

LEMMA EndDue ==
    ASSUME GateInv, UNCHANGED vars, Observe, NEW f \in Firings, EndFiring(f, "vetoed")
    PROVE  FiringTypeOK' /\ Due(f)' /\ \A g \in Firings \ {f} : firing'[g] = firing[g]
<1>0. FiringTypeOK
    BY DEF GateInv
<1>1. firing'[f].phase = "vetoed" /\ \A g \in Firings \ {f} : firing'[g] = firing[g]
    BY <1>0 DEF EndFiring, FiringTypeOK, NoFiring
<1>2. FiringTypeOK'
    BY <1>0 DEF EndFiring, FiringTypeOK, NoFiring, Observe
<1> QED
    BY <1>1, <1>2 DEF Due, TurnTaken, Underway

LEMMA FiringKeeps ==
    ASSUME GateInv, UNCHANGED vars, Observe, NEW f \in Firings, Fire(f) \/ Ask(f) \/ Invoke(f)
    PROVE  FiringTypeOK' /\ Due(f)' /\ \A g \in Firings \ {f} : firing'[g] = firing[g]
<1>0. /\ PluginsInv /\ FiringTypeOK /\ Due(f) /\ loaded \subseteq Plugins
      /\ firing[f].ran \subseteq Plugins
    BY DueThere DEF GateInv, PluginsInv, UpdatesInv, TypeOK, FiringTypeOK
<1>1. CASE Fire(f)
    BY <1>0, <1>1, OnwardDue DEF Fire
<1>2. ASSUME firing[f].phase \in Underway
      PROVE  /\ firing[f].left \subseteq loaded /\ Handler(f) \in firing[f].left
             /\ Rest(f) \subseteq loaded
             /\ Requires[Handler(f)] \cap firing[f].left = {}
             /\ \A p \in loaded \ Rest(f) :
                   p = Handler(f) \/ (Enabled(p) => p \in firing[f].ran \cup touched[f])
    BY <1>0, <1>2, FirstThere DEF Due, TurnTaken, Handler, Rest
<1>3. CASE Invoke(f)
    <2>1. CASE EndFiring(f, "vetoed")
        BY <2>1, EndDue
    <2>2. CASE Onward(f, Rest(f), firing[f].ran \cup {Handler(f)})
        <3>1. firing[f].phase \in Underway
            BY <1>3 DEF Invoke, Underway
        <3>2. PICK ran : ran = firing[f].ran \cup {Handler(f)}
            OBVIOUS
        <3>3. ran \in SUBSET Plugins /\ Rest(f) \in SUBSET loaded /\ Onward(f, Rest(f), ran)
            BY <1>0, <1>2, <2>2, <3>1, <3>2
        <3>4. \A p \in loaded \ Rest(f) : Enabled(p) => p \in ran \cup touched[f]
            BY <1>2, <3>1, <3>2
        <3> QED
            BY <3>3, <3>4, OnwardDue
    <2> QED
        BY <1>3, <2>1, <2>2 DEF Invoke
<1>4. CASE Ask(f)
    <2>0. firing[f].phase \in Underway
        BY <1>4 DEF Ask, Underway
    <2>1. CASE ~Enabled(Handler(f))
        <3>1. Onward(f, Rest(f), firing[f].ran)
            BY <1>4, <2>1 DEF Ask
        <3> QED
            <4>1. firing[f].ran \in SUBSET Plugins /\ Rest(f) \in SUBSET loaded
                BY <1>0, <1>2, <2>0 DEF FiringTypeOK
            <4>2. \A p \in loaded \ Rest(f) : Enabled(p) => p \in firing[f].ran \cup touched[f]
                BY <1>2, <2>0, <2>1
            <4> QED
                BY <3>1, <4>1, <4>2, OnwardDue
    <2>2. CASE Enabled(Handler(f))
        <3>1. Config(Handler(f)) \in ValidConfigs
            BY <1>0, <1>2, <2>0, ConfigValid
        <3>2. firing' = [firing EXCEPT ![f].phase = "invoke", ![f].config = Config(Handler(f))]
            BY <1>4, <2>2, <3>1 DEF Ask
        <3>3. /\ firing'[f].phase = "invoke" /\ firing'[f].left = firing[f].left
              /\ firing'[f].ran = firing[f].ran
              /\ \A g \in Firings \ {f} : firing'[g] = firing[g]
            BY <1>0, <3>2 DEF FiringTypeOK
        <3>4. FiringTypeOK'
            <4>1. PICK c : c = Config(Handler(f))
                OBVIOUS
            <4>2. firing' = [firing EXCEPT ![f] = [firing[f] EXCEPT !.phase = "invoke", !.config = c]]
                BY <3>2, <4>1
            <4>3. [firing[f] EXCEPT !.phase = "invoke", !.config = c]
                  \in [phase  : {"idle", "ask", "invoke", "done", "broken", "vetoed", "dead"},
                      left   : SUBSET Plugins,
                      config : ValidConfigs \cup {NoRow},
                      ran    : SUBSET Plugins]
                <5>1. PICK was : was = firing[f]
                    OBVIOUS
                <5>2. was \in [phase  : {"idle", "ask", "invoke", "done", "broken", "vetoed", "dead"},
                               left   : SUBSET Plugins,
                               config : ValidConfigs \cup {NoRow},
                               ran    : SUBSET Plugins]
                    BY <1>0, <5>1 DEF FiringTypeOK
                <5>3. c \in ValidConfigs
                    BY <3>1, <4>1
                <5> QED
                    BY <5>1, <5>2, <5>3
            <4>4. touched' \in [Firings -> SUBSET Plugins]
                BY <1>0 DEF FiringTypeOK, Observe
            <4> QED
                BY <1>0, <4>2, <4>3, <4>4 DEF FiringTypeOK
        <3>5. /\ touched[f] \subseteq touched'[f] /\ loaded' = loaded /\ Handler(f)' = Handler(f)
              /\ \A p : Enabled(p)' = Enabled(p)
            BY <3>3 DEF Observe, Underway, vars, Handler, Enabled
        <3>6. Requires[Handler(f)] \subseteq firing[f].ran \cup touched[f]
            <4> SUFFICES ASSUME NEW q \in Requires[Handler(f)]
                         PROVE  q \in firing[f].ran \cup touched[f]
                OBVIOUS
            <4>1. Handler(f) \in loaded /\ q \in loaded /\ q \notin firing[f].left
                BY <1>0, <1>2, <2>0, LoadedOrdered DEF PluginsInv, UpdatesInv
            <4>2. Enabled(q)
                BY <1>0, <2>2, <4>1 DEF PluginsInv, AllMet
            <4> QED
                BY <1>0, <2>0, <4>1, <4>2 DEF Due, TurnTaken
        <3>7. TurnTaken(f)'
            BY <1>0, <2>0, <3>3, <3>5 DEF Due, TurnTaken
        <3> QED
            BY <3>3, <3>4, <3>5, <3>6, <3>7 DEF Due
    <2> QED
        BY <2>1, <2>2
<1> QED
    BY <1>1, <1>3, <1>4

LEMMA NextGateInv ==
    ASSUME DependentsStayOn, GateInv, [GateNext]_<<vars, gateVars>>
    PROVE  GateInv'
<1>0. PluginsInv /\ FiringTypeOK
    BY DEF GateInv
<1>1. ASSUME NEW t \in Txns, Update(t), UNCHANGED firing, Observe PROVE GateInv'
    <2>1. PluginsInv'
        BY <1>0, <1>1, NextPluginsInv DEF Update, Next
    <2>2. loaded' = loaded
        BY <1>1 DEF Update, Begin, Advance, LockCompany, LoadRows, Commit, Rollback, Refuse
    <2>3. FiringTypeOK'
        BY <1>0, <1>1 DEF FiringTypeOK, Observe
    <2> QED
        BY <1>1, <2>1, <2>2, <2>3, DueThere, DueStays DEF GateInv, PrerequisitesRunFirst, Due
<1>2. ASSUME NEW off \in Settings, RestartGate(off), Observe PROVE GateInv'
    <2>1. PluginsInv'
        BY <1>0, <1>2, RestartKeeps, SameRows DEF RestartGate, Restart, PluginsInv
    <2>2. FiringTypeOK'
        BY <1>0, <1>2 DEF FiringTypeOK, Observe, RestartGate, NoFiring
    <2>3. \A f \in Firings : firing'[f].phase \notin Underway /\ firing'[f].phase # "broken"
        BY <1>0, <1>2, DueThere DEF RestartGate, NoFiring, Underway, Due
    <2> QED
        BY <2>1, <2>2, <2>3 DEF GateInv, PrerequisitesRunFirst, TurnTaken, Underway
<1>3. ASSUME NEW f \in Firings, Fire(f) \/ Ask(f) \/ Invoke(f), UNCHANGED vars, Observe
      PROVE  GateInv'
    <2>1. PluginsInv' /\ loaded' = loaded
        BY <1>0, <1>3, PluginsStutter DEF vars
    <2>2. FiringTypeOK' /\ Due(f)' /\ \A g \in Firings \ {f} : firing'[g] = firing[g]
        BY <1>3, FiringKeeps
    <2>3. \A g \in Firings \ {f} : Due(g)'
        BY <1>3, <2>1, <2>2, DueStays
    <2> QED
        BY <2>1, <2>2, <2>3 DEF GateInv, PrerequisitesRunFirst, Due
<1>4. CASE UNCHANGED <<vars, gateVars>>
    <2>1. PluginsInv'
        BY <1>0, <1>4, PluginsStutter
    <2> QED
        BY <1>4, <2>1 DEF GateInv, FiringTypeOK, PrerequisitesRunFirst, TurnTaken, Handler, Enabled,
                          vars, gateVars
<1> QED
    BY <1>1, <1>2, <1>3, <1>4 DEF GateNext

\* A handler runs only after the handlers of its plugin's prerequisites ran in
\* the same firing, unless one was updated meanwhile, and no firing meets a
\* configuration that its schema refuses, for all manifests, updates, restarts
\* and firings (execute_with_plugin_gate_unchecked, bootstrap_plugins).
THEOREM HandlersInOrder ==
    ASSUME DependentsStayOn
    PROVE  GateSpec => []PrerequisitesRunFirst
<1>1. GateInit => GateInv
    <2> SUFFICES ASSUME GateInit PROVE GateInv
        OBVIOUS
    <2>1. PluginsInv
        BY InitPluginsInv DEF GateInit
    <2> QED
        BY <2>1 DEF GateInit, GateInv, FiringTypeOK, NoFiring, PrerequisitesRunFirst, TurnTaken, Underway
<1>2. GateInv /\ [GateNext]_<<vars, gateVars>> => GateInv'
    BY NextGateInv
<1>3. GateInv => PrerequisitesRunFirst
    BY DEF GateInv
<1> QED
    BY <1>1, <1>2, <1>3, PTL DEF GateSpec
===============================================================================
