---------------------------- MODULE TotalLemmas ----------------------------
(***************************************************************************)
(* What a sum over a finite set is: a number, that of its only summand,    *)
(* that of its parts together, and monotone.                               *)
(***************************************************************************)
EXTENDS Totals, FiniteSetTheorems, TLAPS

\* Numbers for the members of a finite set.
Rows(f, S) == IsFiniteSet(S) /\ \A x \in S : f[x] \in Nat

LEMMA InUnits ==
  ASSUME NEW f, NEW S, NEW u
  PROVE  u \in Units(f, S) <=> \E x \in S : u \in {x} \X (1..f[x])
BY DEF Units

\* A sum is a number.
LEMMA TotalIsNat ==
  ASSUME NEW f, NEW S, Rows(f, S)
  PROVE  IsFiniteSet(Units(f, S)) /\ Total(f, S) \in Nat
<1> DEFINE g == [x \in S |-> {x} \X (1..f[x])]
           T == {{x} \X (1..f[x]) : x \in S}
<1>1. g \in Surjection(S, T)
  BY DEF Surjection
<1>2. IsFiniteSet(T)
  BY <1>1, FS_Surjection DEF ExistsSurjection, Rows
<1>3. \A t \in T : IsFiniteSet(t)
  <2>1. ASSUME NEW x \in S PROVE IsFiniteSet({x} \X (1..f[x]))
    <3>1. IsFiniteSet({x}) /\ IsFiniteSet(1..f[x])
      <4>1. 1 \in Int /\ f[x] \in Int
        BY DEF Rows
      <4> QED BY <4>1, FS_Singleton, FS_Interval
    <3> QED BY <3>1, FS_Product
  <2> QED BY <2>1
<1> HIDE DEF T
<1>4. IsFiniteSet(UNION T)
  BY <1>2, <1>3, FS_UNION
<1>5. UNION T = Units(f, S)
  BY DEF T, Units
<1> QED BY <1>4, <1>5, FS_CardinalityType DEF Total

\* There is nothing to sum.
LEMMA TotalNothing ==
  ASSUME NEW f, NEW S, \A x \in S : f[x] = 0
  PROVE  Total(f, S) = 0
<1>1. Units(f, S) = {}
  <2>1. SUFFICES ASSUME NEW u, u \in Units(f, S) PROVE FALSE
    OBVIOUS
  <2>2. PICK x \in S : u \in {x} \X (1..f[x])
    BY <2>1, InUnits
  <2>3. 1..f[x] = {}
    OBVIOUS
  <2> QED BY <2>2, <2>3
<1> QED BY <1>1, FS_EmptySet DEF Total

\* One summand.
LEMMA TotalOne ==
  ASSUME NEW f, NEW x, f[x] \in Nat
  PROVE  Total(f, {x}) = f[x]
<1>1. Units(f, {x}) = {x} \X (1..f[x])
  BY DEF Units
<1>2. IsFiniteSet({x}) /\ Cardinality({x}) = 1
  BY FS_Singleton
<1>3. IsFiniteSet(1..f[x]) /\ Cardinality(1..f[x]) = f[x]
  <2>1. 1 \in Int /\ f[x] \in Int
    OBVIOUS
  <2>2. IsFiniteSet(1..f[x]) /\ Cardinality(1..f[x]) = IF 1 > f[x] THEN 0 ELSE f[x] - 1 + 1
    BY <2>1, FS_Interval
  <2>3. (IF 1 > f[x] THEN 0 ELSE f[x] - 1 + 1) = f[x]
    OBVIOUS
  <2> QED BY <2>2, <2>3
<1>4. Cardinality({x} \X (1..f[x])) = Cardinality({x}) * Cardinality(1..f[x])
  BY <1>2, <1>3, FS_Product
<1>5. Cardinality({x} \X (1..f[x])) = f[x]
  BY <1>2, <1>3, <1>4
<1> QED BY <1>1, <1>5 DEF Total

\* Members of disjoint sets.
LEMMA TotalParts ==
  ASSUME NEW f, NEW A, NEW B, Rows(f, A), Rows(f, B), A \cap B = {}
  PROVE  Total(f, A \cup B) = Total(f, A) + Total(f, B)
<1>1. Units(f, A \cup B) = Units(f, A) \cup Units(f, B)
  BY DEF Units
<1>2. Units(f, A) \cap Units(f, B) = {}
  <2>1. SUFFICES ASSUME NEW u, u \in Units(f, A), u \in Units(f, B) PROVE FALSE
    OBVIOUS
  <2>2. PICK x \in A : u \in {x} \X (1..f[x])
    BY <2>1, InUnits
  <2>3. PICK y \in B : u \in {y} \X (1..f[y])
    BY <2>1, InUnits
  <2>4. u[1] = x
    BY <2>2
  <2>5. u[1] = y
    BY <2>3
  <2> QED BY <2>4, <2>5
<1>3. IsFiniteSet(Units(f, A)) /\ IsFiniteSet(Units(f, B))
  BY TotalIsNat
<1>4. Cardinality(Units(f, A)) \in Nat /\ Cardinality(Units(f, B)) \in Nat
  BY <1>3, FS_CardinalityType
<1>5. Cardinality(Units(f, A) \cap Units(f, B)) = 0
  <2>1. Cardinality({}) = 0
    BY FS_EmptySet
  <2> QED BY <1>2, <2>1, Zenon
<1>6. Cardinality(Units(f, A) \cup Units(f, B))
        = Cardinality(Units(f, A)) + Cardinality(Units(f, B))
            - Cardinality(Units(f, A) \cap Units(f, B))
  BY <1>3, FS_Union
<1>7. Cardinality(Units(f, A) \cup Units(f, B)) = Cardinality(Units(f, A)) + Cardinality(Units(f, B))
  BY <1>4, <1>5, <1>6
<1> QED BY <1>1, <1>7 DEF Total

\* A set and some of its members.
LEMMA TotalSplit ==
  ASSUME NEW f, NEW S, NEW A \in SUBSET S, Rows(f, S)
  PROVE  /\ Total(f, S) = Total(f, A) + Total(f, S \ A)
         /\ Rows(f, A) /\ Rows(f, S \ A)
         /\ Total(f, A) \in Nat /\ Total(f, S \ A) \in Nat
<1>1. Rows(f, A) /\ Rows(f, S \ A)
  BY FS_Subset DEF Rows
<1>2. A \cup (S \ A) = S /\ A \cap (S \ A) = {}
  OBVIOUS
<1>3. Total(f, A \cup (S \ A)) = Total(f, A) + Total(f, S \ A)
  BY <1>1, <1>2, TotalParts
<1> QED BY <1>1, <1>2, <1>3, TotalIsNat

\* More or larger summands.
LEMMA TotalMonotone ==
  ASSUME NEW f, NEW g, NEW A, NEW B, Rows(g, B), A \subseteq B,
         \A x \in A : f[x] \in Nat /\ f[x] <= g[x]
  PROVE  Total(f, A) <= Total(g, B)
<1>1. Units(f, A) \subseteq Units(g, B)
  <2>1. SUFFICES ASSUME NEW u, u \in Units(f, A) PROVE u \in Units(g, B)
    OBVIOUS
  <2>2. PICK x \in A : u \in {x} \X (1..f[x])
    BY <2>1, InUnits
  <2>3. 1..f[x] \subseteq 1..g[x]
    BY DEF Rows
  <2>4. u \in {x} \X (1..g[x])
    BY <2>2, <2>3
  <2> QED BY <2>4, InUnits
<1>2. IsFiniteSet(Units(g, B))
  BY TotalIsNat
<1> QED BY <1>1, <1>2, FS_Subset DEF Total

\* The same summands.
LEMMA TotalSame ==
  ASSUME NEW f, NEW g, NEW S, \A x \in S : f[x] = g[x]
  PROVE  Total(f, S) = Total(g, S)
<1>1. {{x} \X (1..f[x]) : x \in S} = {{x} \X (1..g[x]) : x \in S}
  OBVIOUS
<1> QED BY <1>1 DEF Units, Total

\* One summand changes.
LEMMA TotalChanged ==
  ASSUME NEW f, NEW g, NEW S, NEW x \in S, Rows(f, S), Rows(g, S),
         \A y \in S \ {x} : f[y] = g[y]
  PROVE  Total(g, S) = Total(f, S) - f[x] + g[x]
<1>1. /\ Total(f, S) = Total(f, {x}) + Total(f, S \ {x}) /\ Total(f, S \ {x}) \in Nat
      /\ Total(g, S) = Total(g, {x}) + Total(g, S \ {x})
  BY TotalSplit, {x} \in SUBSET S
<1>2. f[x] \in Nat /\ g[x] \in Nat
  BY DEF Rows
<1>3. Total(f, {x}) = f[x] /\ Total(g, {x}) = g[x]
  BY <1>2, TotalOne
<1>4. Total(f, S \ {x}) = Total(g, S \ {x})
  BY TotalSame
<1> QED BY <1>1, <1>2, <1>3, <1>4
=============================================================================
