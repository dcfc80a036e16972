---------------------------------- MODULE Sums ----------------------------------
(***************************************************************************)
(* What SumFunction of the community modules adds up, for functions into   *)
(* the integers on a finite domain: the sum of a part, of two parts, of    *)
(* two functions and along a correspondence. The proofs go by induction    *)
(* over the subsets of the domain.                                         *)
(***************************************************************************)
EXTENDS Integers, FiniteSets, Functions, FiniteSetTheorems, TLAPS

\* Of a set of subsets of a finite set, some member contains no other.
LEMMA MinimalSubset ==
    ASSUME NEW S, IsFiniteSet(S), NEW T, T \subseteq SUBSET S, T # {}
    PROVE  \E x \in T : \A y \in T : y \subseteq x => y = x
<1>1. IsWellFoundedOn(StrictSubsetOrdering(S), SUBSET S)
  BY FS_StrictSubsetOrderingWellFounded, FS_FiniteSubsetsOfFinite
<1>2. \E x \in T : \A y \in T : ~ (<<y, x>> \in StrictSubsetOrdering(S))
  BY <1>1, WFMin
<1> QED
  BY <1>2 DEF StrictSubsetOrdering

\* A set holds a set of elements whenever it holds what is left without each one.
Inductive(G, S) == \A s \in SUBSET S : (\A x \in s : s \ {x} \in G) => s \in G

\* Induction over the subsets of a finite set, for a set of them.
LEMMA SubsetInduction ==
    ASSUME NEW S, IsFiniteSet(S), NEW G,
           Inductive(G, S)
    PROVE  SUBSET S \subseteq G
<1> DEFINE B == (SUBSET S) \ G
<1> SUFFICES ASSUME B # {} PROVE FALSE
  OBVIOUS
<1>0. B \subseteq SUBSET S
  OBVIOUS
<1> HIDE DEF B
<1>1. PICK s \in B : \A y \in B : y \subseteq s => y = s
  BY <1>0, MinimalSubset
<1>2. \A x \in s : s \ {x} \in G
  BY <1>1 DEF B
<1> QED
  BY <1>1, <1>2 DEF B, Inductive

\* The step of the recursion behind SumFunction.
Picked(s) == CHOOSE x \in s : TRUE
Step(f, g, s) == IF s = {} THEN 0 ELSE f[Picked(s)] + g[s \ {Picked(s)}]
Adds(f, g) == g = [s \in SUBSET DOMAIN f |-> Step(f, g, s)]

LEMMA SumIsChosen ==
    ASSUME NEW f PROVE SumFunction(f) = (CHOOSE g : Adds(f, g))[DOMAIN f]
BY DEF SumFunction, SumFunctionOnSet, FoldFunctionOnSet, MapThenFoldSet, Adds, Step, Picked

LEMMA PickedIn == ASSUME NEW s, s # {} PROVE Picked(s) \in s
BY DEF Picked

\* The recursion has a solution.
LEMMA AddsExists ==
    ASSUME NEW D, IsFiniteSet(D), NEW f \in [D -> Int]
    PROVE  \E g : Adds(f, g)
<1> DEFINE Upto(g, n) == \A s \in SUBSET D : Cardinality(s) <= n => g[s] = Step(f, g, s)
           Good == {u \in SUBSET D : \E g \in [SUBSET D -> Int] : Upto(g, Cardinality(u))}
<1>0. \A s \in SUBSET D : IsFiniteSet(s) /\ Cardinality(s) \in Nat
  BY FS_Subset, FS_CardinalityType
<1>1. ASSUME NEW u \in SUBSET D, \A x \in u : u \ {x} \in Good
      PROVE  u \in Good
  <2>1. CASE u = {}
    <3> DEFINE g == [s \in SUBSET D |-> 0]
    <3>1. \A s \in SUBSET D : Cardinality(s) <= Cardinality(u) => s = {}
      BY <1>0, <2>1, FS_EmptySet
    <3>2. g \in [SUBSET D -> Int] /\ Upto(g, Cardinality(u))
      BY <3>1 DEF Step
    <3> HIDE DEF g
    <3> QED
      BY <3>2
  <2>2. CASE u # {}
    <3>1. PICK x \in u : TRUE
      BY <2>2
    <3>2. PICK g \in [SUBSET D -> Int] : Upto(g, Cardinality(u \ {x}))
      BY <1>1
    <3>3. Cardinality(u \ {x}) = Cardinality(u) - 1
      BY <1>0, FS_RemoveElement
    <3> DEFINE h == [s \in SUBSET D |-> IF Cardinality(s) < Cardinality(u) THEN g[s] ELSE Step(f, g, s)]
    <3>4. ASSUME NEW s \in SUBSET D, s # {}
          PROVE  /\ Picked(s) \in D /\ s \ {Picked(s)} \in SUBSET D
                 /\ Cardinality(s \ {Picked(s)}) = Cardinality(s) - 1
      BY <1>0, <3>4, PickedIn, FS_RemoveElement
    <3>5. h \in [SUBSET D -> Int]
      BY <3>4 DEF Step
    <3>6. ASSUME NEW s \in SUBSET D, Cardinality(s) <= Cardinality(u)
          PROVE  h[s] = Step(f, h, s)
      <4>1. CASE s = {}
        BY <1>0, <2>2, <3>2, <3>3, <4>1, FS_EmptySet DEF Step
      <4>2. CASE s # {}
        <5>1. h[s \ {Picked(s)}] = g[s \ {Picked(s)}]
          <6>1. Cardinality(s \ {Picked(s)}) < Cardinality(u)
            BY <1>0, <3>4, <3>6, <4>2
          <6> QED
            BY <3>4, <4>2, <6>1
        <5>2. h[s] = Step(f, g, s)
          BY <1>0, <3>2, <3>3, <3>6
        <5> QED
          BY <5>1, <5>2, <4>2 DEF Step
      <4> QED
        BY <4>1, <4>2
    <3> QED
      BY <3>5, <3>6
  <2> QED
    BY <2>1, <2>2
<1>2. Inductive(Good, D)
  BY <1>1 DEF Inductive
<1> HIDE DEF Good
<1>3. D \in Good
  BY <1>2, SubsetInduction
<1>4. PICK g \in [SUBSET D -> Int] : Upto(g, Cardinality(D))
  BY <1>3 DEF Good
<1>5. \A s \in SUBSET D : g[s] = Step(f, g, s)
  BY <1>0, <1>4, FS_Subset
<1> QED
  BY <1>5 DEF Adds

\* A solution is an integer everywhere.
LEMMA AddsInt ==
    ASSUME NEW D, IsFiniteSet(D), NEW f \in [D -> Int], NEW g, Adds(f, g)
    PROVE  \A s \in SUBSET D : g[s] \in Int
<1> DEFINE Good == {s \in SUBSET D : g[s] \in Int}
<1>0. \A s \in SUBSET D : g[s] = Step(f, g, s)
  BY DEF Adds
<1>1. ASSUME NEW s \in SUBSET D, \A x \in s : s \ {x} \in Good
      PROVE  s \in Good
  <2>1. s # {} => Picked(s) \in D /\ g[s \ {Picked(s)}] \in Int
    BY <1>1, PickedIn
  <2> QED
    BY <1>0, <2>1 DEF Step
<1>2. Inductive(Good, D)
  BY <1>1 DEF Inductive
<1> HIDE DEF Good
<1>3. SUBSET D \subseteq Good
  BY <1>2, SubsetInduction
<1> QED
  BY <1>3 DEF Good

AnyOrder(f, g, D) == \A s \in SUBSET D : \A x \in s : g[s] = f[x] + g[s \ {x}]

\* A solution is the sum in any order.
LEMMA AddsAnyOrder ==
    ASSUME NEW D, IsFiniteSet(D), NEW f \in [D -> Int], NEW g, Adds(f, g)
    PROVE  AnyOrder(f, g, D)
<1> DEFINE Good == {s \in SUBSET D : \A x \in s : g[s] = f[x] + g[s \ {x}]}
<1>0. \A s \in SUBSET D : g[s] = Step(f, g, s) /\ g[s] \in Int
  BY AddsInt DEF Adds
<1>1. ASSUME NEW s \in SUBSET D, \A x \in s : s \ {x} \in Good, NEW x \in s
      PROVE  g[s] = f[x] + g[s \ {x}]
  <2> DEFINE c == Picked(s)
  <2>1. c \in s /\ g[s] = f[c] + g[s \ {c}]
    BY <1>0, PickedIn DEF Step
  <2> HIDE DEF c
  <2>2. CASE x # c
    <3>1. g[s \ {c}] = f[x] + g[(s \ {c}) \ {x}] /\ g[s \ {x}] = f[c] + g[(s \ {x}) \ {c}]
      BY <1>1, <2>1, <2>2
    <3>2. (s \ {c}) \ {x} = (s \ {x}) \ {c} /\ (s \ {x}) \ {c} \in SUBSET D /\ x \in D /\ c \in D
      BY <2>1
    <3> HIDE <1>1
    <3>3. f[x] \in Int /\ f[c] \in Int /\ g[(s \ {x}) \ {c}] \in Int
      BY <1>0, <3>2
    <3>4. g[(s \ {c}) \ {x}] = g[(s \ {x}) \ {c}]
      BY <3>2
    <3> QED
      BY <2>1, <3>1, <3>3, <3>4
  <2> QED
    BY <2>1, <2>2
<1>2. Inductive(Good, D)
  BY <1>1 DEF Inductive
<1> HIDE DEF Good
<1>3. SUBSET D \subseteq Good
  BY <1>2, SubsetInduction
<1> QED
  BY <1>3 DEF Good, AnyOrder

\* Solutions agree where the functions do.
LEMMA AddsAgree ==
    ASSUME NEW D, IsFiniteSet(D), NEW f, DOMAIN f = D, NEW h, D \subseteq DOMAIN h,
           \A x \in D : f[x] = h[x], NEW g, Adds(f, g), NEW k, Adds(h, k)
    PROVE  \A s \in SUBSET D : g[s] = k[s]
<1> DEFINE Good == {s \in SUBSET D : g[s] = k[s]}
<1>0. \A s \in SUBSET D : g[s] = Step(f, g, s) /\ k[s] = Step(h, k, s)
  BY DEF Adds
<1>1. ASSUME NEW s \in SUBSET D, \A x \in s : s \ {x} \in Good
      PROVE  s \in Good
  <2>1. g[s] = Step(f, g, s) /\ k[s] = Step(h, k, s)
    BY <1>0
  <2>2. CASE s = {}
    BY <2>1, <2>2 DEF Step
  <2>3. CASE s # {}
    <3>1. Picked(s) \in s /\ Picked(s) \in D
      BY <2>3, PickedIn
    <3>2. g[s \ {Picked(s)}] = k[s \ {Picked(s)}] /\ f[Picked(s)] = h[Picked(s)]
      BY <1>1, <3>1
    <3> QED
      BY <2>1, <2>3, <3>2 DEF Step
  <2> QED
    BY <2>2, <2>3
<1>2. Inductive(Good, D)
  BY <1>1 DEF Inductive
<1> HIDE DEF Good
<1>3. SUBSET D \subseteq Good
  BY <1>2, SubsetInduction
<1> QED
  BY <1>3 DEF Good

\* The sum of nothing is zero: SUM over no rows, coalesced to 0.
THEOREM SumEmpty == ASSUME NEW f, DOMAIN f = {} PROVE SumFunction(f) = 0
<1> DEFINE h == [x \in {} |-> 0]
<1>1. f \in [{} -> Int] /\ IsFiniteSet({})
  BY FS_EmptySet, SMT
<1>2. Adds(f, CHOOSE g : Adds(f, g))
  BY <1>1, AddsExists
<1>3. SumFunction(f) = (CHOOSE g : Adds(f, g))[{}]
  BY SumIsChosen
<1> QED
  BY <1>2, <1>3 DEF Adds, Step

\* A function on a part of its domain.
Part(f, s) == [x \in s |-> f[x]]

\* The sum is one term and the sum of the others, whichever term it is.
THEOREM SumSplit ==
    ASSUME NEW D, IsFiniteSet(D), NEW f \in [D -> Int], NEW x \in D
    PROVE  /\ SumFunction(f) = f[x] + SumFunction(Part(f, D \ {x}))
           /\ SumFunction(Part(f, D \ {x})) \in Int
<1> DEFINE E == D \ {x}
           h == [y \in E |-> f[y]]
           g == CHOOSE i : Adds(f, i)
           k == CHOOSE i : Adds(h, i)
<1>1. IsFiniteSet(E) /\ h \in [E -> Int] /\ DOMAIN h = E /\ \A y \in E : h[y] = f[y]
  BY FS_RemoveElement
<1> HIDE DEF h
<1>2. Adds(f, g)
  BY AddsExists
<1>3. Adds(h, k)
  BY <1>1, AddsExists
<1>4. SumFunction(f) = g[D] /\ SumFunction(h) = k[E]
  BY <1>1, SumIsChosen
<1> HIDE DEF g, k, E
<1>5. g[D] = f[x] + g[D \ {x}] /\ g[D \ {x}] \in Int
  <2>1. AnyOrder(f, g, D)
    BY <1>2, AddsAnyOrder
  <2>2. \A s \in SUBSET D : g[s] \in Int
    BY <1>2, AddsInt
  <2> QED
    BY <2>1, <2>2 DEF AnyOrder
<1>6. k[E] = g[E]
  BY <1>1, <1>2, <1>3, AddsAgree DEF E
<1> QED
  BY <1>4, <1>5, <1>6 DEF h, E, Part

\* What a function makes of a finite set is finite.
LEMMA ImageFinite ==
    ASSUME NEW S, IsFiniteSet(S), NEW f, f = [x \in S |-> f[x]]
    PROVE  IsFiniteSet({f[x] : x \in S})
<1> DEFINE T == {f[x] : x \in S}
<1>1. f \in Surjection(S, T)
  BY DEF Surjection
<1> HIDE DEF T
<1>2. IsFiniteSet(T)
  BY <1>1, FS_Surjection
<1> QED
  BY <1>2 DEF T

HasLowest(s) == \E x \in s : \A y \in s : x <= y
HasHighest(s) == \E x \in s : \A y \in s : x >= y

\* A finite set of integers has a lowest and a highest element.
THEOREM Extremes ==
    ASSUME NEW S, IsFiniteSet(S), S \subseteq Int, S # {}
    PROVE  HasLowest(S) /\ HasHighest(S)
<1> DEFINE G == {s \in SUBSET S : s # {} => HasLowest(s) /\ HasHighest(s)}
<1>1. ASSUME NEW s \in SUBSET S, \A x \in s : s \ {x} \in G
      PROVE  s \in G
  <2> SUFFICES ASSUME s # {} PROVE HasLowest(s) /\ HasHighest(s)
    OBVIOUS
  <2>1. PICK x \in s : TRUE
    OBVIOUS
  <2>2. CASE s = {x}
    BY <2>1, <2>2 DEF HasLowest, HasHighest
  <2>3. CASE s # {x}
    <3>0. HasLowest(s \ {x}) /\ HasHighest(s \ {x})
      BY <1>1, <2>1, <2>3
    <3>1. PICK l \in s \ {x} : \A y \in s \ {x} : l <= y
      BY <3>0 DEF HasLowest
    <3>2. PICK h \in s \ {x} : \A y \in s \ {x} : h >= y
      BY <3>0 DEF HasHighest
    <3>3. x \in Int /\ l \in Int /\ h \in Int /\ l \in s /\ h \in s /\ s \subseteq Int
      BY <2>1
    <3>4. HasLowest(s)
      <4>1. CASE l <= x
        BY <3>3, <3>1, <4>1 DEF HasLowest
      <4>2. CASE ~(l <= x)
        <5>1. \A y \in s : x <= y
          BY <3>3, <3>1, <4>2
        <5> QED
          BY <2>1, <5>1 DEF HasLowest
      <4> QED
        BY <4>1, <4>2
    <3>5. HasHighest(s)
      <4>1. CASE h >= x
        BY <3>3, <3>2, <4>1 DEF HasHighest
      <4>2. CASE ~(h >= x)
        <5>1. \A y \in s : x >= y
          BY <3>3, <3>2, <4>2
        <5> QED
          BY <2>1, <5>1 DEF HasHighest
      <4> QED
        BY <4>1, <4>2
    <3> QED
      BY <3>4, <3>5
  <2> QED
    BY <2>2, <2>3
<1>2. Inductive(G, S)
  BY <1>1 DEF Inductive
<1> HIDE DEF G
<1>3. S \in G
  BY <1>2, SubsetInduction
<1> QED
  BY <1>3 DEF G

\* The sum of integers is an integer.
THEOREM SumInt ==
    ASSUME NEW D, IsFiniteSet(D), NEW f \in [D -> Int]
    PROVE  SumFunction(f) \in Int
<1>1. CASE D = {}
  BY <1>1, SumEmpty
<1>2. CASE D # {}
  <2>1. PICK x \in D : TRUE
    BY <1>2
  <2>2. /\ SumFunction(f) = f[x] + SumFunction(Part(f, D \ {x}))
        /\ SumFunction(Part(f, D \ {x})) \in Int
    BY SumSplit
  <2> QED
    BY <2>2
<1> QED
  BY <1>1, <1>2

-------------------------------------------------------------------------------
(* The sum of a function over a part of its domain. *)

\* The sum of f on a part of its domain.
SumOver(f, s) == SumFunction(Part(f, s))

LEMMA SumOverAll ==
    ASSUME NEW D, NEW f \in [D -> Int] PROVE SumFunction(f) = SumOver(f, D)
<1>1. Part(f, D) = f
  BY DEF Part
<1> QED
  BY <1>1 DEF SumOver

LEMMA SumOverEmpty == ASSUME NEW f PROVE SumOver(f, {}) = 0
<1>1. DOMAIN Part(f, {}) = {}
  BY DEF Part
<1> QED
  BY <1>1, SumEmpty DEF SumOver

LEMMA SumOverStep ==
    ASSUME NEW D, IsFiniteSet(D), NEW f \in [D -> Int], NEW s \in SUBSET D
    PROVE  /\ SumOver(f, s) \in Int
           /\ \A x \in s : SumOver(f, s) = f[x] + SumOver(f, s \ {x})
<1>1. IsFiniteSet(s) /\ Part(f, s) \in [s -> Int]
  BY FS_Subset DEF Part
<1>2. SumOver(f, s) \in Int
  BY <1>1, SumInt DEF SumOver
<1>3. ASSUME NEW x \in s PROVE SumOver(f, s) = f[x] + SumOver(f, s \ {x})
  <2>0. PICK h : h = Part(f, s)
    OBVIOUS
  <2>1. h[x] = f[x] /\ Part(h, s \ {x}) = Part(f, s \ {x})
    BY <2>0 DEF Part
  <2>2. SumFunction(h) = h[x] + SumFunction(Part(h, s \ {x}))
    BY <1>1, <2>0, SumSplit
  <2> QED
    BY <2>0, <2>1, <2>2 DEF SumOver
<1> QED
  BY <1>2, <1>3

\* One element more.
THEOREM SumOverAdd ==
    ASSUME NEW D, IsFiniteSet(D), NEW f \in [D -> Int], NEW s \in SUBSET D,
           NEW x \in D, x \notin s
    PROVE  SumOver(f, s \cup {x}) = f[x] + SumOver(f, s)
<1>1. s \cup {x} \in SUBSET D /\ x \in s \cup {x} /\ (s \cup {x}) \ {x} = s
  OBVIOUS
<1>2. SumOver(f, s \cup {x}) = f[x] + SumOver(f, (s \cup {x}) \ {x})
  BY <1>1, SumOverStep
<1> QED
  BY <1>1, <1>2

\* The sums of two disjoint parts.
THEOREM SumOverUnion ==
    ASSUME NEW D, IsFiniteSet(D), NEW f \in [D -> Int],
           NEW A \in SUBSET D, NEW B \in SUBSET D, A \cap B = {}
    PROVE  SumOver(f, A \cup B) = SumOver(f, A) + SumOver(f, B)
<1> DEFINE G == {s \in SUBSET B : SumOver(f, A \cup s) = SumOver(f, A) + SumOver(f, s)}
<1>0. IsFiniteSet(B)
  BY FS_Subset
<1>1. ASSUME NEW s \in SUBSET B, \A x \in s : s \ {x} \in G
      PROVE  SumOver(f, A \cup s) = SumOver(f, A) + SumOver(f, s)
  <2>0. SumOver(f, A) \in Int
    BY SumOverStep
  <2>1. CASE s = {}
    <3>1. SumOver(f, {}) = 0
      BY SumOverEmpty
    <3>2. A \cup s = A
      BY <2>1
    <3> QED
      BY <2>0, <2>1, <3>1, <3>2
  <2>2. CASE s # {}
    <3>1. PICK x \in s : TRUE
      BY <2>2
    <3>2. /\ A \cup s \in SUBSET D /\ s \in SUBSET D /\ s \ {x} \in SUBSET D
          /\ x \in A \cup s /\ (A \cup s) \ {x} = A \cup (s \ {x}) /\ x \in D
      OBVIOUS
    <3>3. SumOver(f, A \cup (s \ {x})) = SumOver(f, A) + SumOver(f, s \ {x})
      BY <1>1
    <3>4. SumOver(f, A \cup s) = f[x] + SumOver(f, A \cup (s \ {x}))
      BY <3>2, SumOverStep
    <3>5. SumOver(f, s) = f[x] + SumOver(f, s \ {x}) /\ SumOver(f, s \ {x}) \in Int
      BY <3>2, SumOverStep
    <3>6. f[x] \in Int
      BY <3>2
    <3> QED
      BY <2>0, <3>3, <3>4, <3>5, <3>6
  <2> QED
    BY <2>1, <2>2
<1>2. Inductive(G, B)
  BY <1>1 DEF Inductive
<1> HIDE DEF G
<1>3. B \in G
  BY <1>0, <1>2, SubsetInduction
<1> QED
  BY <1>3 DEF G

\* The sum along a one-to-one correspondence h of A and B.
THEOREM SumOverImage ==
    ASSUME NEW A, IsFiniteSet(A), NEW B, IsFiniteSet(B),
           NEW g \in [A -> Int], NEW f \in [B -> Int], NEW h \in [A -> B],
           \A x, y \in A : h[x] = h[y] => x = y, \A x \in A : g[x] = f[h[x]]
    PROVE  SumOver(g, A) = SumOver(f, {h[x] : x \in A})
<1> DEFINE G == {s \in SUBSET A : SumOver(g, s) = SumOver(f, {h[x] : x \in s})}
<1>1. ASSUME NEW s \in SUBSET A, \A x \in s : s \ {x} \in G
      PROVE  SumOver(g, s) = SumOver(f, {h[x] : x \in s})
  <2>1. CASE s = {}
    <3>1. {h[x] : x \in s} = {}
      BY <2>1
    <3> QED
      BY <2>1, <3>1, SumOverEmpty
  <2>2. CASE s # {}
    <3>1. PICK x \in s : TRUE
      BY <2>2
    <3> DEFINE I == {h[y] : y \in s}
    <3>2. SumOver(g, s \ {x}) = SumOver(f, {h[y] : y \in s \ {x}})
      BY <1>1
    <3>3. {h[y] : y \in s \ {x}} = I \ {h[x]}
      OBVIOUS
    <3>4. I \in SUBSET B /\ h[x] \in I
      OBVIOUS
    <3>5. SumOver(g, s) = g[x] + SumOver(g, s \ {x})
      BY SumOverStep
    <3> HIDE DEF I
    <3>6. SumOver(f, I) = f[h[x]] + SumOver(f, I \ {h[x]})
      BY <3>4, SumOverStep
    <3> QED
      BY <3>2, <3>3, <3>5, <3>6 DEF I
  <2> QED
    BY <2>1, <2>2
<1>2. Inductive(G, A)
  BY <1>1 DEF Inductive
<1> HIDE DEF G
<1>3. A \in G
  BY <1>2, SubsetInduction
<1> QED
  BY <1>3 DEF G

\* k is f plus g on s.
Adding(k, f, g, s) == \A x \in s : k[x] = f[x] + g[x]

\* The sum of two functions, term by term.
THEOREM SumOverTerms ==
    ASSUME NEW D, IsFiniteSet(D), NEW f \in [D -> Int], NEW g \in [D -> Int],
           NEW k \in [D -> Int], Adding(k, f, g, D)
    PROVE  SumOver(k, D) = SumOver(f, D) + SumOver(g, D)
<1> DEFINE G == {s \in SUBSET D : SumOver(k, s) = SumOver(f, s) + SumOver(g, s)}
<1>1. ASSUME NEW s \in SUBSET D, \A x \in s : s \ {x} \in G
      PROVE  SumOver(k, s) = SumOver(f, s) + SumOver(g, s)
  <2>1. CASE s = {}
    BY <2>1, SumOverEmpty
  <2>2. CASE s # {}
    <3>1. PICK x \in s : TRUE
      BY <2>2
    <3>2. SumOver(k, s \ {x}) = SumOver(f, s \ {x}) + SumOver(g, s \ {x})
      BY <1>1
    <3>3. SumOver(k, s) = k[x] + SumOver(k, s \ {x})
      BY SumOverStep
    <3>4. SumOver(f, s) = f[x] + SumOver(f, s \ {x}) /\ SumOver(f, s \ {x}) \in Int
      BY SumOverStep
    <3>5. SumOver(g, s) = g[x] + SumOver(g, s \ {x}) /\ SumOver(g, s \ {x}) \in Int
      BY SumOverStep
    <3>6. f[x] \in Int /\ g[x] \in Int /\ k[x] = f[x] + g[x]
      BY DEF Adding
    <3> QED
      BY <3>2, <3>3, <3>4, <3>5, <3>6
  <2> QED
    BY <2>1, <2>2
<1>2. Inductive(G, D)
  BY <1>1 DEF Inductive
<1> HIDE DEF G
<1>3. D \in G
  BY <1>2, SubsetInduction
<1> QED
  BY <1>3 DEF G

\* A sum of zeros.
THEOREM SumOverZeros ==
    ASSUME NEW D, IsFiniteSet(D), NEW f \in [D -> Int], \A x \in D : f[x] = 0
    PROVE  SumOver(f, D) = 0
<1>1. Adding(f, f, f, D)
  <2> SUFFICES ASSUME NEW x \in D PROVE f[x] = f[x] + f[x]
    BY DEF Adding
  <2>1. f[x] = 0
    OBVIOUS
  <2> QED
    BY <2>1
<1>2. SumOver(f, D) = SumOver(f, D) + SumOver(f, D)
  BY <1>1, SumOverTerms
<1>3. SumOver(f, D) \in Int
  BY SumOverStep
<1>4. ASSUME NEW n \in Int, n = n + n PROVE n = 0
  BY <1>4
<1> QED
  BY <1>2, <1>3, <1>4, Zenon

\* The sum of what is opposite.
THEOREM SumOverOpposite ==
    ASSUME NEW D, IsFiniteSet(D), NEW f \in [D -> Int], NEW g \in [D -> Int],
           \A x \in D : g[x] = -f[x]
    PROVE  SumOver(g, D) = -SumOver(f, D)
<1> DEFINE k == [x \in D |-> 0]
<1>1. k \in [D -> Int] /\ \A x \in D : k[x] = 0
  OBVIOUS
<1>0. Adding(k, f, g, D)
  <2> SUFFICES ASSUME NEW x \in D PROVE k[x] = f[x] + g[x]
    BY DEF Adding
  <2>1. f[x] \in Int /\ g[x] = -f[x] /\ k[x] = 0
    OBVIOUS
  <2> QED
    BY <2>1
<1> HIDE DEF k
<1>5. k \in [D -> Int]
  BY <1>1
<1>2. SumOver(k, D) = SumOver(f, D) + SumOver(g, D)
  BY <1>0, <1>5, SumOverTerms
<1>4. SumOver(k, D) = 0
  BY <1>1, SumOverZeros
<1>3. SumOver(f, D) \in Int /\ SumOver(g, D) \in Int
  BY SumOverStep
<1> QED
  BY <1>2, <1>3, <1>4

\* f is nowhere above g.
Below(f, g, s) == \A x \in s : f[x] <= g[x]

\* The sum of what is nowhere more is no more.
THEOREM SumOverAtMost ==
    ASSUME NEW D, IsFiniteSet(D), NEW f \in [D -> Int], NEW g \in [D -> Int],
           NEW A \in SUBSET D, Below(f, g, A)
    PROVE  SumOver(f, A) <= SumOver(g, A)
<1> DEFINE G == {s \in SUBSET A : SumOver(f, s) <= SumOver(g, s)}
<1>0. IsFiniteSet(A)
  BY FS_Subset
<1>1. ASSUME NEW s \in SUBSET A, \A x \in s : s \ {x} \in G
      PROVE  SumOver(f, s) <= SumOver(g, s)
  <2>1. CASE s = {}
    <3>1. SumOver(f, s) = 0 /\ SumOver(g, s) = 0
      BY <2>1, SumOverEmpty
    <3> QED
      BY <3>1
  <2>2. CASE s # {}
    <3>1. PICK x \in s : TRUE
      BY <2>2
    <3>2. SumOver(f, s \ {x}) <= SumOver(g, s \ {x})
      BY <1>1
    <3>3. f[x] \in Int /\ g[x] \in Int /\ f[x] <= g[x]
      BY DEF Below
    <3>4. s \in SUBSET D /\ s \ {x} \in SUBSET D
      OBVIOUS
    <3>5. /\ SumOver(f, s) = f[x] + SumOver(f, s \ {x}) /\ SumOver(f, s \ {x}) \in Int
          /\ SumOver(g, s) = g[x] + SumOver(g, s \ {x}) /\ SumOver(g, s \ {x}) \in Int
      BY <3>4, SumOverStep
    <3> QED
      BY <3>2, <3>3, <3>5
  <2> QED
    BY <2>1, <2>2
<1>2. Inductive(G, A)
  <2>1. ASSUME NEW s \in SUBSET A, \A x \in s : s \ {x} \in G PROVE s \in G
    BY <1>1, <2>1
  <2> QED
    BY <2>1 DEF Inductive
<1>3. SUBSET A \subseteq G
  BY <1>0, <1>2, SubsetInduction
<1> QED
  BY <1>3 DEF G

\* A sum with fewer and smaller terms is no more.
THEOREM SumAtMost ==
    ASSUME NEW S, IsFiniteSet(S), NEW T \in SUBSET S,
           NEW f \in [S -> Nat], NEW g \in [T -> Nat], Below(g, f, T)
    PROVE  SumFunction(g) <= SumFunction(f)
<1> DEFINE h == [x \in S |-> IF x \in T THEN g[x] ELSE 0]
           E == S \ T
           z == [x \in E |-> 0]
<1>1. h \in [S -> Int] /\ f \in [S -> Int] /\ z \in [E -> Int]
  OBVIOUS
<1>2. Below(h, f, S)
  BY DEF Below
<1>3. Part(h, T) = g /\ Part(h, E) = z /\ Part(z, E) = z
  BY DEF Part
<1>4. IsFiniteSet(E) /\ \A x \in E : z[x] = 0
  BY FS_Subset
<1> HIDE DEF h, z
<1>5. SumOver(h, S) <= SumOver(f, S)
  BY <1>1, <1>2, SumOverAtMost
<1>6. SumOver(f, S) = SumFunction(f)
  BY <1>1, SumOverAll
<1>7. SumOver(h, T) = SumFunction(g) /\ SumOver(h, E) = SumOver(z, E)
  BY <1>3 DEF SumOver
<1>8. SumOver(z, E) = 0
  BY <1>1, <1>4, SumOverZeros
<1>9. T \cup E = S /\ T \cap E = {} /\ E \in SUBSET S
  OBVIOUS
<1>10. SumOver(h, S) = SumOver(h, T) + SumOver(h, E)
  BY <1>1, <1>9, SumOverUnion
<1>11. SumOver(h, T) \in Int
  BY <1>1, SumOverStep
<1> QED
  BY <1>5, <1>6, <1>7, <1>8, <1>10, <1>11

\* And with one new term it is more by that term at most.
THEOREM SumAtMostWith ==
    ASSUME NEW S, IsFiniteSet(S), NEW T, IsFiniteSet(T), NEW y \in T, T \ {y} \subseteq S,
           NEW f \in [S -> Nat], NEW g \in [T -> Nat], Below(g, f, T \ {y})
    PROVE  SumFunction(g) <= SumFunction(f) + g[y]
<1> DEFINE R == T \ {y}
           h == Part(g, R)
<1>1. h \in [R -> Nat] /\ g \in [T -> Int] /\ f \in [S -> Int]
  BY DEF Part
<1>2. Below(h, f, R)
  BY DEF Below, Part
<1>3. SumFunction(h) <= SumFunction(f)
  BY <1>1, <1>2, SumAtMost
<1>4. SumFunction(g) = g[y] + SumFunction(h) /\ SumFunction(h) \in Int
  BY <1>1, SumSplit
<1>5. SumFunction(f) \in Int
  BY <1>1, SumInt
<1> QED
  BY <1>3, <1>4, <1>5
=================================================================================
