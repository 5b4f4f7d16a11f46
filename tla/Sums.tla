-------------------------------- MODULE Sums --------------------------------
(***************************************************************************)
(* The total of a function over a finite set, as MapThenSumSet computes    *)
(* it: what it is of zeros, its type, and what a change of one value does  *)
(* to it.  The accounts of credits in FlowGate and BlockStream are such    *)
(* totals.                                                                 *)
(*                                                                         *)
(* MapThenSumSet takes the elements one by one.  An induction over it is   *)
(* an argument about a smallest subset for which a statement fails, which  *)
(* exists because the strict subsets of a finite set are well-founded.     *)
(***************************************************************************)
EXTENDS Integers, FiniteSetsExt, FiniteSetTheorems, WellFoundedInduction, TLAPS

Total(f, S) == MapThenSumSet(LAMBDA x : f[x], S)

\* The element taken first, and the sums over every subset of S.
Pick(s) == CHOOSE x \in s : TRUE
Add(g, f, s) == IF s = {} THEN 0 ELSE f[Pick(s)] + g[s \ {Pick(s)}]
IsSum(g, f, S) == g = [s \in SUBSET S |-> Add(g, f, s)]
Sum(f, S) == CHOOSE g : IsSum(g, f, S)

LEMMA TotalIsSum == ASSUME NEW f, NEW S PROVE Total(f, S) = Sum(f, S)[S]
BY DEF Total, MapThenSumSet, MapThenFoldSet, Pick, Add, IsSum, Sum

LEMMA SmallestSubset ==
  ASSUME NEW S, IsFiniteSet(S), NEW T, T \subseteq SUBSET S, T # {}
  PROVE  \E s \in T : \A t \in T : ~(t \subseteq s /\ t # s)
<1>1. IsWellFoundedOn(StrictSubsetOrdering(S), FiniteSubsetsOf(S))
  BY FS_StrictSubsetOrderingWellFounded
<1>2. T \subseteq FiniteSubsetsOf(S)
  BY FS_Subset DEF FiniteSubsetsOf
<1>3. \E s \in T : \A t \in T : ~(<<t, s>> \in StrictSubsetOrdering(S))
  BY <1>1, <1>2, WFMin
<1> QED  BY <1>3 DEF StrictSubsetOrdering

\* What is left when the first element is taken is smaller.
LEMMA PickLeaves ==
  ASSUME NEW s, s # {}
  PROVE  Pick(s) \in s /\ s \ {Pick(s)} \subseteq s /\ s \ {Pick(s)} # s
BY DEF Pick

LEMMA SumAt ==
  ASSUME NEW f, NEW S, NEW g, IsSum(g, f, S), NEW s \in SUBSET S
  PROVE  g[s] = Add(g, f, s)
BY DEF IsSum

-----------------------------------------------------------------------------
(* The recursion has exactly one solution.                                 *)

LEMMA SumsAgree ==
  ASSUME NEW f, NEW S, IsFiniteSet(S), NEW T, S \subseteq T,
         NEW g, IsSum(g, f, S), NEW h, IsSum(h, f, T)
  PROVE  \A s \in SUBSET S : g[s] = h[s]
<1> DEFINE Bad == {s \in SUBSET S : g[s] # h[s]}
<1> SUFFICES ASSUME Bad # {} PROVE FALSE
  OBVIOUS
<1>1. PICK s \in Bad : \A t \in Bad : ~(t \subseteq s /\ t # s)
  <2>1. Bad \subseteq SUBSET S
    OBVIOUS
  <2> HIDE DEF Bad
  <2> QED  BY <2>1, SmallestSubset
<1>2. s \in SUBSET S /\ s \in SUBSET T
  OBVIOUS
<1>3. g[s] = Add(g, f, s) /\ h[s] = Add(h, f, s)
  BY <1>2, SumAt
<1>4. Add(g, f, s) = Add(h, f, s)
  <2>1. CASE s = {}
    BY <2>1 DEF Add
  <2>2. CASE s # {}
    <3>1. s \ {Pick(s)} \notin Bad /\ s \ {Pick(s)} \in SUBSET S
      BY <1>1, <1>2, <2>2, PickLeaves
    <3>2. g[s \ {Pick(s)}] = h[s \ {Pick(s)}]
      BY <3>1
    <3> QED  BY <3>2 DEF Add
  <2> QED  BY <2>1, <2>2
<1> QED  BY <1>1, <1>3, <1>4

LEMMA SumExists ==
  ASSUME NEW f, NEW S, IsFiniteSet(S) PROVE IsSum(Sum(f, S), f, S)
<1> DEFINE Bad == {s \in SUBSET S : ~ \E g : IsSum(g, f, s)}
<1>1. Bad = {}
  <2> SUFFICES ASSUME Bad # {} PROVE FALSE
    OBVIOUS
  <2>1. PICK s \in Bad : \A t \in Bad : ~(t \subseteq s /\ t # s)
    <3>1. Bad \subseteq SUBSET S
      OBVIOUS
    <3> HIDE DEF Bad
    <3> QED  BY <3>1, SmallestSubset
  <2>2. s \in SUBSET S
    OBVIOUS
  <2>3. \A t \in SUBSET s : t # s => IsSum(Sum(f, t), f, t)
    <3> SUFFICES ASSUME NEW t \in SUBSET s, t # s PROVE IsSum(Sum(f, t), f, t)
      OBVIOUS
    <3>1. \E g : IsSum(g, f, t)
      BY <2>1, <2>2
    <3> QED  BY <3>1 DEF Sum
  <2> DEFINE g == [t \in SUBSET s |-> IF t = s THEN Add(Sum(f, s \ {Pick(s)}), f, s)
                                                ELSE Sum(f, t)[t]]
  <2>4. ASSUME NEW t \in SUBSET s PROVE g[t] = Add(g, f, t)
    <3>1. CASE t = {}
      <4>1. Add(Sum(f, s \ {Pick(s)}), f, {}) = 0 /\ Add(g, f, {}) = 0
        BY DEF Add
      <4>2. s # {} => Sum(f, {})[{}] = 0
        <5> SUFFICES ASSUME s # {} PROVE Sum(f, {})[{}] = 0
          OBVIOUS
        <5>1. IsSum(Sum(f, {}), f, {})
          BY <2>3
        <5>2. Sum(f, {})[{}] = Add(Sum(f, {}), f, {})
          BY <5>1, SumAt
        <5> QED  BY <5>2 DEF Add
      <4>3. g[t] = IF t = s THEN Add(Sum(f, s \ {Pick(s)}), f, s) ELSE Sum(f, t)[t]
        OBVIOUS
      <4> HIDE DEF g
      <4> QED  BY <3>1, <4>1, <4>2, <4>3
    <3>2. CASE t # {}
      <4> DEFINE u == t \ {Pick(t)}
      <4>1. u \subseteq t /\ u # t /\ u \in SUBSET s /\ u # s
        BY <3>2, PickLeaves
      <4>2. g[u] = Sum(f, u)[u]
        BY <4>1
      <4>3. g[t] = IF t = s THEN Add(Sum(f, s \ {Pick(s)}), f, s) ELSE Sum(f, t)[t]
        OBVIOUS
      <4>4. Add(g, f, t) = f[Pick(t)] + g[u]
        BY <3>2 DEF Add
      <4> HIDE DEF g
      <4>5. CASE t = s
        <5>1. Add(Sum(f, u), f, t) = f[Pick(t)] + Sum(f, u)[u]
          BY <3>2 DEF Add
        <5> QED  BY <4>2, <4>3, <4>4, <4>5, <5>1
      <4>6. CASE t # s
        <5>1. IsSum(Sum(f, t), f, t) /\ IsSum(Sum(f, u), f, u)
          BY <2>3, <4>1, <4>6
        <5>2. Sum(f, t)[t] = Add(Sum(f, t), f, t)
          BY <5>1, SumAt
        <5>3. Add(Sum(f, t), f, t) = f[Pick(t)] + Sum(f, t)[u]
          BY <3>2 DEF Add
        <5>4. IsFiniteSet(u)
          BY <2>2, <4>1, FS_Subset
        <5> HIDE DEF u
        <5>5. Sum(f, u)[u] = Sum(f, t)[u]
          BY <4>1, <5>1, <5>4, SumsAgree
        <5> QED  BY <4>2, <4>3, <4>4, <4>6, <5>2, <5>3, <5>5
      <4> QED  BY <4>5, <4>6
    <3> QED  BY <3>1, <3>2
  <2>5. IsSum(g, f, s)
    <3>1. g = [t \in SUBSET s |-> g[t]]
      OBVIOUS
    <3> HIDE DEF g
    <3> QED  BY <2>4, <3>1 DEF IsSum
  <2> QED  BY <2>1, <2>5
<1>2. \E g : IsSum(g, f, S)
  BY <1>1
<1> QED  BY <1>2 DEF Sum

-----------------------------------------------------------------------------
(* What the accounts use.                                                  *)

\* The total of naturals is a natural.
LEMMA TotalType ==
  ASSUME NEW S, IsFiniteSet(S), NEW f \in [S -> Nat] PROVE Total(f, S) \in Nat
<1> DEFINE g == Sum(f, S)
           Bad == {s \in SUBSET S : g[s] \notin Nat}
<1>1. IsSum(g, f, S)
  BY SumExists
<1> HIDE DEF g
<1>2. Bad = {}
  <2> SUFFICES ASSUME Bad # {} PROVE FALSE
    OBVIOUS
  <2>1. PICK s \in Bad : \A t \in Bad : ~(t \subseteq s /\ t # s)
    <3>1. Bad \subseteq SUBSET S
      OBVIOUS
    <3> HIDE DEF Bad
    <3> QED  BY <3>1, SmallestSubset
  <2>2. s \in SUBSET S
    OBVIOUS
  <2>3. g[s] = Add(g, f, s)
    BY <1>1, <2>2, SumAt
  <2>4. CASE s = {}
    BY <2>1, <2>3, <2>4 DEF Add
  <2>5. CASE s # {}
    <3> DEFINE t == s \ {Pick(s)}
    <3>1. t \in SUBSET S /\ t \notin Bad /\ Pick(s) \in S
      BY <2>1, <2>2, <2>5, PickLeaves
    <3>2. g[t] \in Nat /\ f[Pick(s)] \in Nat
      BY <3>1
    <3> QED  BY <2>1, <2>3, <2>5, <3>2 DEF Add
  <2> QED  BY <2>4, <2>5
<1>3. S \in SUBSET S
  OBVIOUS
<1> QED  BY <1>2, <1>3, TotalIsSum DEF g

\* The total of zeros is zero.
LEMMA TotalOfZeros ==
  ASSUME NEW S, IsFiniteSet(S), NEW f, \A x \in S : f[x] = 0
  PROVE  Total(f, S) = 0
<1> DEFINE g == Sum(f, S)
           Bad == {s \in SUBSET S : g[s] # 0}
<1>1. IsSum(g, f, S)
  BY SumExists
<1> HIDE DEF g
<1>2. Bad = {}
  <2> SUFFICES ASSUME Bad # {} PROVE FALSE
    OBVIOUS
  <2>1. PICK s \in Bad : \A t \in Bad : ~(t \subseteq s /\ t # s)
    <3>1. Bad \subseteq SUBSET S
      OBVIOUS
    <3> HIDE DEF Bad
    <3> QED  BY <3>1, SmallestSubset
  <2>2. s \in SUBSET S
    OBVIOUS
  <2>3. g[s] = Add(g, f, s)
    BY <1>1, <2>2, SumAt
  <2>4. CASE s = {}
    BY <2>1, <2>3, <2>4 DEF Add
  <2>5. CASE s # {}
    <3> DEFINE t == s \ {Pick(s)}
    <3>1. t \in SUBSET S /\ t \notin Bad /\ Pick(s) \in S
      BY <2>1, <2>2, <2>5, PickLeaves
    <3>2. g[t] = 0 /\ f[Pick(s)] = 0
      BY <3>1
    <3> QED  BY <2>1, <2>3, <2>5, <3>2 DEF Add
  <2> QED  BY <2>4, <2>5
<1>3. S \in SUBSET S
  OBVIOUS
<1> QED  BY <1>2, <1>3, TotalIsSum DEF g

\* A change of one value changes the total by as much.
LEMMA TotalChanges ==
  ASSUME NEW S, IsFiniteSet(S), NEW f \in [S -> Nat], NEW h \in [S -> Nat],
         NEW a \in S, \A x \in S \ {a} : h[x] = f[x]
  PROVE  Total(h, S) = Total(f, S) + (h[a] - f[a])
<1> DEFINE F == Sum(f, S)
           H == Sum(h, S)
           d == h[a] - f[a]
           Good(s) == F[s] \in Int /\ IF a \in s THEN H[s] = F[s] + d ELSE H[s] = F[s]
           Bad == {s \in SUBSET S : ~Good(s)}
<1>1. IsSum(F, f, S) /\ IsSum(H, h, S)
  BY SumExists
<1>2. d \in Int /\ h[a] = f[a] + d
  OBVIOUS
<1> HIDE DEF F, H, d
<1>3. Bad = {}
  <2> SUFFICES ASSUME Bad # {} PROVE FALSE
    OBVIOUS
  <2>1. PICK s \in Bad : \A t \in Bad : ~(t \subseteq s /\ t # s)
    <3>1. Bad \subseteq SUBSET S
      OBVIOUS
    <3> HIDE DEF Bad
    <3> QED  BY <3>1, SmallestSubset
  <2>2. s \in SUBSET S
    OBVIOUS
  <2>3. F[s] = Add(F, f, s) /\ H[s] = Add(H, h, s)
    BY <1>1, <2>2, SumAt
  <2>4. CASE s = {}
    BY <2>1, <2>3, <2>4 DEF Add
  <2>5. CASE s # {}
    <3> DEFINE p == Pick(s)
               t == s \ {p}
    <3>1. t \in SUBSET S /\ t \notin Bad /\ p \in S /\ p \in s
      BY <2>1, <2>2, <2>5, PickLeaves
    <3>2. F[s] = f[p] + F[t] /\ H[s] = h[p] + H[t]
      BY <2>3, <2>5 DEF Add
    <3>3. Good(t) /\ f[p] \in Int /\ h[p] \in Int
      BY <3>1
    <3>4. p = a => a \notin t
      OBVIOUS
    <3>5. p # a => h[p] = f[p] /\ (a \in s <=> a \in t)
      BY <3>1
    <3> HIDE DEF p, t
    <3>6. CASE p = a
      BY <1>2, <2>1, <3>1, <3>2, <3>3, <3>4, <3>6
    <3>7. CASE p # a
      BY <1>2, <2>1, <3>1, <3>2, <3>3, <3>5, <3>7
    <3> QED  BY <3>6, <3>7
  <2> QED  BY <2>4, <2>5
<1>4. S \in SUBSET S
  OBVIOUS
<1>5. H[S] = F[S] + d
  BY <1>3, <1>4
<1> QED  BY <1>5, TotalIsSum DEF F, H, d
=============================================================================
