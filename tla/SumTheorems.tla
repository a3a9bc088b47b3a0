------------------------------ MODULE SumTheorems ------------------------------
(***************************************************************************)
(* Facts about the sum of a function over a finite set, as MapThenSumSet    *)
(* computes it: by a table over the subsets of the set, one element chosen  *)
(* and taken away at a time.  The order of the choices does not matter, and *)
(* adding an element adds its value.                                        *)
(*                                                                         *)
(* The proofs go by a smallest counterexample: a non-empty collection of    *)
(* subsets of a finite set has a member that includes no other.             *)
(***************************************************************************)
EXTENDS Integers, FiniteSetsExt, FiniteSetTheorems, WellFoundedInduction, TLAPS

Total(f, S) == MapThenSumSet(LAMBDA x : f[x], S)

Pick(s) == CHOOSE x \in s : TRUE

\* g tabulates the sums of f over the subsets of S.
Tabulates(g, f, S) ==
  g = [s \in SUBSET S |-> IF s = {} THEN 0 ELSE f[Pick(s)] + g[s \ {Pick(s)}]]

LEMMA SmallestSubset ==
  ASSUME NEW S, IsFiniteSet(S), NEW T, T \subseteq SUBSET S, T # {}
  PROVE  \E x \in T : \A y \in T : y \subseteq x => y = x
  <1>1. IsWellFoundedOn(StrictSubsetOrdering(S), SUBSET S)
    BY FS_StrictSubsetOrderingWellFounded, FS_FiniteSubsetsOfFinite
  <1>2. PICK x \in T : \A y \in T : ~ (<<y, x>> \in StrictSubsetOrdering(S))
    BY <1>1, WFMin
  <1>3. \A y \in T : y \subseteq x => y = x
    BY <1>2 DEF StrictSubsetOrdering
  <1> QED
    BY <1>3

LEMMA PickIsMember ==
  ASSUME NEW s, s # {}
  PROVE  Pick(s) \in s
  BY DEF Pick

LEMMA TableUnique ==
  ASSUME NEW S, IsFiniteSet(S), NEW T, NEW f, NEW g, NEW h,
         Tabulates(g, f, S), Tabulates(h, f, T)
  PROVE  \A s \in SUBSET (S \cap T) : g[s] = h[s]
  <1> DEFINE bad == {s \in SUBSET (S \cap T) : g[s] # h[s]}
  <1> SUFFICES ASSUME bad # {} PROVE FALSE
    OBVIOUS
  <1>0. bad \subseteq SUBSET S
    OBVIOUS
  <1>1. PICK s \in bad : \A t \in bad : t \subseteq s => t = s
    <2> HIDE DEF bad
    <2> QED
      BY <1>0, SmallestSubset
  <1>2. s # {}
    BY <1>1 DEF Tabulates
  <1>3. Pick(s) \in s
    BY <1>2, PickIsMember
  <1>4. s \ {Pick(s)} \in SUBSET (S \cap T) /\ s \ {Pick(s)} # s
    BY <1>3
  <1>5. g[s \ {Pick(s)}] = h[s \ {Pick(s)}]
    BY <1>1, <1>4
  <1>6. g[s] = f[Pick(s)] + g[s \ {Pick(s)}]
    BY <1>2, <1>1 DEF Tabulates
  <1>7. h[s] = f[Pick(s)] + h[s \ {Pick(s)}]
    BY <1>2, <1>1 DEF Tabulates
  <1> QED
    BY <1>1, <1>5, <1>6, <1>7

Table(f, S) == CHOOSE g : Tabulates(g, f, S)

LEMMA TableExists ==
  ASSUME NEW S, IsFiniteSet(S), NEW f
  PROVE  Tabulates(Table(f, S), f, S)
  <1> DEFINE bad == {s \in SUBSET S : ~ \E g : Tabulates(g, f, s)}
  <1>0. \A s : (\E g : Tabulates(g, f, s)) => Tabulates(Table(f, s), f, s)
    BY DEF Table
  <1> SUFFICES ASSUME bad # {} PROVE FALSE
    BY <1>0
  <1>1. PICK s \in bad : \A t \in bad : t \subseteq s => t = s
    <2>1. bad \subseteq SUBSET S
      OBVIOUS
    <2> HIDE DEF bad
    <2> QED
      BY <2>1, SmallestSubset
  <1> DEFINE sum(u) == Table(f, u)[u]
             h == [t \in SUBSET s |->
                     IF t = {} THEN 0 ELSE f[Pick(t)] + sum(t \ {Pick(t)})]
  <1>2. \A t \in SUBSET s : t # s => Tabulates(Table(f, t), f, t)
    BY <1>0, <1>1
  <1>3. ASSUME NEW t \in SUBSET s, t # s
        PROVE  h[t] = sum(t)
    <2>1. Tabulates(Table(f, t), f, t)
      BY <1>2, <1>3
    <2>2. CASE t = {}
      BY <2>1, <2>2 DEF Tabulates
    <2>3. CASE t # {}
      <3>1. Pick(t) \in t
        BY <2>3, PickIsMember
      <3> DEFINE u == t \ {Pick(t)}
      <3>2. u \in SUBSET s /\ u # s /\ u \in SUBSET t
        BY <1>3, <3>1
      <3>3. Tabulates(Table(f, u), f, u)
        BY <1>2, <3>2
      <3>4. IsFiniteSet(t)
        BY FS_Subset
      <3>5. Table(f, t)[u] = Table(f, u)[u]
        BY <2>1, <3>2, <3>3, <3>4, TableUnique
      <3>6. Table(f, t)[t] = f[Pick(t)] + Table(f, t)[u]
        BY <2>1, <2>3 DEF Tabulates
      <3>7. h[t] = f[Pick(t)] + sum(u)
        BY <2>3
      <3> QED
        BY <3>5, <3>6, <3>7
    <2> QED
      BY <2>2, <2>3
  <1>4. ASSUME NEW t \in SUBSET s, t # {}
        PROVE  h[t] = f[Pick(t)] + h[t \ {Pick(t)}]
    <2>1. Pick(t) \in t
      BY <1>4, PickIsMember
    <2>2. t \ {Pick(t)} \in SUBSET s /\ t \ {Pick(t)} # s
      BY <2>1
    <2>3. h[t \ {Pick(t)}] = sum(t \ {Pick(t)})
      BY <1>3, <2>2
    <2>4. h[t] = f[Pick(t)] + sum(t \ {Pick(t)})
      BY <1>4
    <2> QED
      BY <2>3, <2>4
  <1>5. h[{}] = 0
    OBVIOUS
  <1>6. h = [t \in SUBSET s |-> h[t]]
    OBVIOUS
  <1> HIDE DEF h
  <1>7. Tabulates(h, f, s)
    BY <1>4, <1>5, <1>6 DEF Tabulates
  <1> QED
    BY <1>1, <1>7

LEMMA TotalIsTabulated ==
  ASSUME NEW S, IsFiniteSet(S), NEW f
  PROVE  Total(f, S) = Table(f, S)[S]
  BY DEF Total, MapThenSumSet, MapThenFoldSet, Table, Tabulates, Pick

LEMMA TotalOfNone ==
  ASSUME NEW f
  PROVE  Total(f, {}) = 0
  <1>1. IsFiniteSet({})
    BY FS_EmptySet
  <1>2. Tabulates(Table(f, {}), f, {})
    BY <1>1, TableExists
  <1>3. Table(f, {})[{}] = 0
    BY <1>2 DEF Tabulates
  <1> QED
    BY <1>1, <1>3, TotalIsTabulated

\* The table of a set holds the total of each subset.
LEMMA TableHoldsTotals ==
  ASSUME NEW S, IsFiniteSet(S), NEW f, NEW s \in SUBSET S
  PROVE  Table(f, S)[s] = Total(f, s)
  <1>1. IsFiniteSet(s)
    BY FS_Subset
  <1>2. Tabulates(Table(f, S), f, S) /\ Tabulates(Table(f, s), f, s)
    BY <1>1, TableExists
  <1>3. Table(f, S)[s] = Table(f, s)[s]
    BY <1>2, TableUnique
  <1> QED
    BY <1>1, <1>3, TotalIsTabulated

LEMMA TotalUnfolds ==
  ASSUME NEW S, IsFiniteSet(S), S # {}, NEW f
  PROVE  /\ Pick(S) \in S
         /\ Total(f, S) = f[Pick(S)] + Total(f, S \ {Pick(S)})
  <1>1. Tabulates(Table(f, S), f, S)
    BY TableExists
  <1>2. Table(f, S)[S] = f[Pick(S)] + Table(f, S)[S \ {Pick(S)}]
    BY <1>1 DEF Tabulates
  <1>3. Pick(S) \in S /\ S \ {Pick(S)} \in SUBSET S
    BY PickIsMember
  <1> QED
    BY <1>2, <1>3, TableHoldsTotals, TotalIsTabulated

\* The total depends on the values on the set alone.
LEMMA TotalSame ==
  ASSUME NEW S, IsFiniteSet(S), NEW f, NEW g, \A x \in S : f[x] = g[x]
  PROVE  Total(f, S) = Total(g, S)
  <1> DEFINE bad == {s \in SUBSET S : Total(f, s) # Total(g, s)}
  <1> SUFFICES ASSUME bad # {} PROVE FALSE
    OBVIOUS
  <1>1. PICK s \in bad : \A t \in bad : t \subseteq s => t = s
    <2>1. bad \subseteq SUBSET S
      OBVIOUS
    <2> HIDE DEF bad
    <2> QED
      BY <2>1, SmallestSubset
  <1>2. s # {} /\ IsFiniteSet(s)
    <2>1. \A h : Total(h, {}) = 0
      BY TotalOfNone
    <2>2. ASSUME s = {} PROVE FALSE
      BY <2>1, <2>2, <1>1
    <2> QED
      BY <2>2, FS_Subset
  <1>3. /\ Pick(s) \in s
        /\ Total(f, s) = f[Pick(s)] + Total(f, s \ {Pick(s)})
        /\ Total(g, s) = g[Pick(s)] + Total(g, s \ {Pick(s)})
    BY <1>2, TotalUnfolds
  <1>4. Total(f, s \ {Pick(s)}) = Total(g, s \ {Pick(s)})
    BY <1>1, <1>3
  <1> QED
    BY <1>1, <1>3, <1>4

LEMMA TotalType ==
  ASSUME NEW S, IsFiniteSet(S), NEW f, \A x \in S : f[x] \in Nat
  PROVE  Total(f, S) \in Nat
  <1> DEFINE bad == {s \in SUBSET S : Total(f, s) \notin Nat}
  <1> SUFFICES ASSUME bad # {} PROVE FALSE
    OBVIOUS
  <1>1. PICK s \in bad : \A t \in bad : t \subseteq s => t = s
    <2>1. bad \subseteq SUBSET S
      OBVIOUS
    <2> HIDE DEF bad
    <2> QED
      BY <2>1, SmallestSubset
  <1>2. s # {} /\ IsFiniteSet(s)
    <2>1. \A h : Total(h, {}) = 0
      BY TotalOfNone
    <2>2. ASSUME s = {} PROVE FALSE
      BY <2>1, <2>2, <1>1
    <2> QED
      BY <2>2, FS_Subset
  <1>3. /\ Pick(s) \in s
        /\ Total(f, s) = f[Pick(s)] + Total(f, s \ {Pick(s)})
    BY <1>2, TotalUnfolds
  <1>4. Total(f, s \ {Pick(s)}) \in Nat
    BY <1>1, <1>3
  <1>5. f[Pick(s)] \in Nat
    BY <1>1, <1>3
  <1> QED
    BY <1>1, <1>3, <1>4, <1>5

\* Whichever element is taken away first.
LEMMA TotalRemove ==
  ASSUME NEW S, IsFiniteSet(S), NEW f, \A x \in S : f[x] \in Nat, NEW y \in S
  PROVE  Total(f, S) = f[y] + Total(f, S \ {y})
  <1> DEFINE bad == {s \in SUBSET S :
                       \E e \in s : Total(f, s) # f[e] + Total(f, s \ {e})}
  <1> SUFFICES ASSUME bad # {} PROVE FALSE
    OBVIOUS
  <1>1. PICK s \in bad : \A t \in bad : t \subseteq s => t = s
    <2>1. bad \subseteq SUBSET S
      OBVIOUS
    <2> HIDE DEF bad
    <2> QED
      BY <2>1, SmallestSubset
  <1>2. PICK e \in s : Total(f, s) # f[e] + Total(f, s \ {e})
    BY <1>1
  <1>3. \A t \in SUBSET s : t # s => \A d \in t : Total(f, t) = f[d] + Total(f, t \ {d})
    BY <1>1
  <1>4. s \in SUBSET S /\ IsFiniteSet(s) /\ s # {}
    BY <1>1, <1>2, FS_Subset
  <1> DEFINE p == Pick(s)
  <1>5. p \in s /\ Total(f, s) = f[p] + Total(f, s \ {p})
    BY <1>4, TotalUnfolds
  <1>6. p # e
    BY <1>2, <1>5
  <1> HIDE DEF p, bad
  <1>7. Total(f, s \ {p}) = f[e] + Total(f, (s \ {p}) \ {e})
    BY <1>3, <1>5, <1>6
  <1>8. Total(f, s \ {e}) = f[p] + Total(f, (s \ {e}) \ {p})
    BY <1>3, <1>5, <1>6
  <1>9. (s \ {p}) \ {e} = (s \ {e}) \ {p}
    OBVIOUS
  <1>10. f[p] \in Nat /\ f[e] \in Nat
    BY <1>4, <1>5
  <1>11. Total(f, (s \ {p}) \ {e}) \in Nat
    <2>1. IsFiniteSet((s \ {p}) \ {e}) /\ (s \ {p}) \ {e} \subseteq S
      BY <1>4, FS_Subset
    <2> QED
      BY <2>1, TotalType
  <1> QED
    BY <1>2, <1>5, <1>7, <1>8, <1>9, <1>10, <1>11

\* An element that is added adds its value.
LEMMA TotalAdd ==
  ASSUME NEW S, IsFiniteSet(S), NEW f, NEW y, y \notin S,
         \A x \in S \cup {y} : f[x] \in Nat
  PROVE  /\ IsFiniteSet(S \cup {y})
         /\ Total(f, S \cup {y}) = Total(f, S) + f[y]
  <1>1. IsFiniteSet(S \cup {y})
    BY FS_AddElement
  <1>2. (S \cup {y}) \ {y} = S
    OBVIOUS
  <1>3. Total(f, S \cup {y}) = f[y] + Total(f, S)
    BY <1>1, <1>2, TotalRemove
  <1>4. f[y] \in Nat /\ Total(f, S) \in Nat
    BY TotalType
  <1> QED
    BY <1>1, <1>3, <1>4

\* A subset of natural values sums to no more.
LEMMA TotalMonotone ==
  ASSUME NEW S, IsFiniteSet(S), NEW f, \A x \in S : f[x] \in Nat, NEW t \in SUBSET S
  PROVE  Total(f, t) <= Total(f, S)
  <1> DEFINE bad == {s \in SUBSET S : t \subseteq s /\ ~(Total(f, t) <= Total(f, s))}
  <1> SUFFICES ASSUME bad # {} PROVE FALSE
    OBVIOUS
  <1>1. PICK s \in bad : \A u \in bad : u \subseteq s => u = s
    <2>1. bad \subseteq SUBSET S
      OBVIOUS
    <2> HIDE DEF bad
    <2> QED
      BY <2>1, SmallestSubset
  <1>2. IsFiniteSet(s) /\ IsFiniteSet(t)
    BY FS_Subset
  <1>3. Total(f, s) \in Nat /\ Total(f, t) \in Nat
    BY <1>2, TotalType
  <1>4. PICK y \in s : y \notin t
    <2>1. s # t
      BY <1>1, <1>3
    <2>2. t \subseteq s
      OBVIOUS
    <2> HIDE DEF bad
    <2> QED
      BY <2>1, <2>2
  <1>5. Total(f, s) = f[y] + Total(f, s \ {y})
    BY <1>2, TotalRemove
  <1>6. Total(f, t) <= Total(f, s \ {y})
    BY <1>1, <1>4
  <1>7. f[y] \in Nat /\ Total(f, s \ {y}) \in Nat
    <2>1. IsFiniteSet(s \ {y})
      BY <1>2, FS_Subset
    <2> QED
      BY <2>1, TotalType
  <1> QED
    BY <1>1, <1>3, <1>5, <1>6, <1>7

\* The sum over two disjoint sets.
LEMMA TotalUnion ==
  ASSUME NEW S, IsFiniteSet(S), NEW T, IsFiniteSet(T), S \cap T = {}, NEW f,
         \A x \in S \cup T : f[x] \in Nat
  PROVE  Total(f, S \cup T) = Total(f, S) + Total(f, T)
<1> DEFINE Bad == {t \in SUBSET T : Total(f, S \cup t) # Total(f, S) + Total(f, t)}
<1>1. ASSUME Bad # {} PROVE FALSE
  <2>1. Bad \subseteq SUBSET T
    OBVIOUS
  <2>2. PICK t \in Bad : \A y \in Bad : y \subseteq t => y = t
    <3> HIDE DEF Bad
    <3> QED
      BY <2>1, <1>1, SmallestSubset
  <2>3. t # {}
    <3>1. ASSUME t = {} PROVE FALSE
      <4>1. S \cup t = S /\ Total(f, t) = 0
        BY <3>1, TotalOfNone
      <4>2. Total(f, S) \in Nat
        BY TotalType
      <4>3. QED
        BY <4>1, <4>2
    <3>2. QED
      BY <3>1
  <2>4. PICK y \in t : TRUE
    BY <2>3
  <2> DEFINE u == t \ {y}
  <2>5. IsFiniteSet(t) /\ IsFiniteSet(u) /\ IsFiniteSet(S \cup t) /\ t \subseteq T
    BY FS_Subset, FS_Union
  <2>6. u \notin Bad
    BY <2>2, <2>4
  <2>7. Total(f, S \cup u) = Total(f, S) + Total(f, u)
    BY <2>5, <2>6
  <2>8. Total(f, t) = f[y] + Total(f, u)
    BY <2>4, <2>5, TotalRemove
  <2>9. Total(f, S \cup t) = f[y] + Total(f, (S \cup t) \ {y})
    BY <2>4, <2>5, TotalRemove
  <2>10. (S \cup t) \ {y} = S \cup u
    BY <2>4, <2>5
  <2>11. Total(f, S) \in Nat /\ Total(f, u) \in Nat /\ f[y] \in Nat
    BY <2>4, <2>5, TotalType
  <2>12. Total(f, S \cup t) = f[y] + (Total(f, S) + Total(f, u))
    BY <2>7, <2>9, <2>10
  <2>13. QED
    BY <2>8, <2>11, <2>12
<1>2. T \notin Bad
  BY <1>1
<1>3. QED
  BY <1>2

LEMMA TotalOfZeros ==
  ASSUME NEW S, IsFiniteSet(S), NEW f, \A x \in S : f[x] = 0
  PROVE  Total(f, S) = 0
<1> DEFINE Bad == {s \in SUBSET S : Total(f, s) # 0}
<1>1. ASSUME Bad # {} PROVE FALSE
  <2>1. Bad \subseteq SUBSET S
    OBVIOUS
  <2>2. PICK s \in Bad : \A t \in Bad : t \subseteq s => t = s
    <3> HIDE DEF Bad
    <3> QED
      BY <1>1, <2>1, SmallestSubset
  <2>3. s # {}
    BY TotalOfNone
  <2>4. IsFiniteSet(s)
    BY FS_Subset
  <2>5. Pick(s) \in s /\ Total(f, s) = f[Pick(s)] + Total(f, s \ {Pick(s)})
    BY <2>3, <2>4, TotalUnfolds
  <2>6. Total(f, s \ {Pick(s)}) = 0
    BY <2>2, <2>5
  <2> QED
    BY <2>2, <2>5, <2>6
<1> QED
  BY <1>1
===============================================================================
