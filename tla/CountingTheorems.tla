-------------------------- MODULE CountingTheorems --------------------------
(***************************************************************************)
(* Facts about counting: sums over finite sets grow and shrink by elements,*)
(* and a finite set of integers can be put in order.                       *)
(***************************************************************************)
EXTENDS Weights, Ranks, Sequences, FiniteSetTheorems, TLAPS

(***************************************************************************)
(* A new element makes a finite set larger by one.                         *)
(***************************************************************************)
LEMMA OneMore ==
    ASSUME NEW S, NEW x, IsFiniteSet(S), x \notin S
    PROVE  Cardinality(S \cup {x}) = Cardinality(S) + 1
BY FS_AddElement

(***************************************************************************)
(* The units of finitely many naturals are finitely many.                  *)
(***************************************************************************)
LEMMA UnitsFinite ==
    ASSUME NEW S, IsFiniteSet(S), NEW w, \A x \in S : w[x] \in Nat
    PROVE  IsFiniteSet(Units(S, w))
<1> DEFINE T == {{x} \X (1..w[x]) : x \in S}
           f == [x \in S |-> {x} \X (1..w[x])]
<1>1. f \in Surjection(S, T)
  BY Zenon DEF Surjection
<1>2. IsFiniteSet(T)
  BY <1>1, FS_Surjection
<1>3. ASSUME NEW x \in S PROVE IsFiniteSet({x} \X (1..w[x]))
  <2>1. IsFiniteSet({x})
    BY FS_Singleton, Zenon
  <2>2. IsFiniteSet(1..w[x])
    BY FS_Interval
  <2> QED
    BY <2>1, <2>2, FS_Product
<1>4. \A U \in T : IsFiniteSet(U)
  BY <1>3
<1> QED
  BY <1>2, <1>4, FS_UNION, Zenon DEF Units

(***************************************************************************)
(* A sum of naturals is a natural.                                         *)
(***************************************************************************)
THEOREM WeightType ==
    ASSUME NEW S, IsFiniteSet(S), NEW w, \A x \in S : w[x] \in Nat
    PROVE  Weight(S, w) \in Nat
BY UnitsFinite, FS_CardinalityType DEF Weight

(***************************************************************************)
(* The empty sum.                                                          *)
(***************************************************************************)
THEOREM WeightEmpty ==
    ASSUME NEW w
    PROVE  Weight({}, w) = 0
<1>1. Units({}, w) = {}
  BY DEF Units
<1> QED
  BY <1>1, FS_EmptySet DEF Weight

(***************************************************************************)
(* Adding an element adds its weight.                                      *)
(***************************************************************************)
THEOREM WeightAdd ==
    ASSUME NEW S, IsFiniteSet(S), NEW y, y \notin S,
           NEW w, \A x \in S \cup {y} : w[x] \in Nat
    PROVE  Weight(S \cup {y}, w) = Weight(S, w) + w[y]
<1> DEFINE U == {y} \X (1..w[y])
<1>1. Units(S \cup {y}, w) = Units(S, w) \cup U
  BY DEF Units
<1>2. IsFiniteSet(Units(S, w))
  BY UnitsFinite
<1>3. /\ IsFiniteSet({y})
      /\ Cardinality({y}) = 1
  BY FS_Singleton, Zenon
<1>4. /\ IsFiniteSet(1..w[y])
      /\ Cardinality(1..w[y]) = w[y]
  BY FS_Interval
<1>5. /\ IsFiniteSet(U)
      /\ Cardinality(U) = 1 * w[y]
  BY <1>3, <1>4, FS_Product
<1>6. Units(S, w) \cap U = {}
  BY DEF Units
<1>7. /\ Cardinality(Units(S, w)) \in Nat
      /\ Cardinality(Units(S, w) \cap U) = 0
  BY <1>2, <1>6, FS_CardinalityType, FS_EmptySet, Zenon
<1>8. Cardinality(Units(S, w) \cup U) = Cardinality(Units(S, w)) + Cardinality(U)
                                        - Cardinality(Units(S, w) \cap U)
  BY <1>2, <1>5, FS_Union
<1>9. Cardinality(Units(S, w) \cup U) = Cardinality(Units(S, w)) + w[y]
  BY <1>5, <1>7, <1>8
<1> QED
  BY <1>1, <1>9, Zenon DEF Weight

(***************************************************************************)
(* Removing an element removes its weight.                                 *)
(***************************************************************************)
THEOREM WeightRemove ==
    ASSUME NEW S, IsFiniteSet(S), NEW y \in S,
           NEW w, \A x \in S : w[x] \in Nat
    PROVE  /\ Weight(S \ {y}, w) = Weight(S, w) - w[y]
           /\ w[y] <= Weight(S, w)
<1>1. IsFiniteSet(S \ {y})
  BY FS_RemoveElement
<1>2. (S \ {y}) \cup {y} = S
  OBVIOUS
<1>3. Weight(S, w) = Weight(S \ {y}, w) + w[y]
  BY <1>1, <1>2, WeightAdd, Zenon
<1>4. Weight(S \ {y}, w) \in Nat
  BY <1>1, WeightType
<1> QED
  BY <1>3, <1>4

(***************************************************************************)
(* Sums of zeros are zero.                                                 *)
(***************************************************************************)
THEOREM WeightZero ==
    ASSUME NEW S, NEW w, \A x \in S : w[x] = 0
    PROVE  Weight(S, w) = 0
<1>1. Units(S, w) = {}
  BY DEF Units
<1> QED
  BY <1>1, FS_EmptySet DEF Weight

(***************************************************************************)
(* Weights that agree on a set have the same sum over it.                  *)
(***************************************************************************)
THEOREM WeightSame ==
    ASSUME NEW S, NEW w, NEW v, \A x \in S : w[x] = v[x]
    PROVE  Weight(S, w) = Weight(S, v)
<1>1. Units(S, w) = Units(S, v)
  BY DEF Units
<1> QED
  BY <1>1 DEF Weight

(***************************************************************************)
(* Raising the weight of one element raises the sum as much.               *)
(***************************************************************************)
THEOREM WeightRaise ==
    ASSUME NEW S, IsFiniteSet(S), NEW w \in [S -> Nat], NEW v \in [S -> Nat],
           NEW y \in S, NEW k \in Nat,
           v[y] = w[y] + k, \A x \in S \ {y} : v[x] = w[x]
    PROVE  Weight(S, v) = Weight(S, w) + k
<1>1. v \in [S -> Nat] /\ w[y] \in Nat /\ v[y] = w[y] + k /\ \A x \in S \ {y} : v[x] = w[x]
  OBVIOUS
<1>2. Weight(S \ {y}, v) = Weight(S \ {y}, w)
  BY <1>1, WeightSame
<1>3. Weight(S \ {y}, v) = Weight(S, v) - v[y] /\ Weight(S, v) \in Nat
  BY <1>1, WeightRemove, WeightType
<1>4. Weight(S \ {y}, w) = Weight(S, w) - w[y] /\ Weight(S, w) \in Nat
  BY WeightRemove, WeightType
<1>5. Weight(S, v) - v[y] = Weight(S, w) - w[y]
  BY <1>2, <1>3, <1>4, Zenon
<1>6. \A m, n, i, j \in Nat : m - i = n - j /\ i = j + k => m = n + k
  OBVIOUS
<1> QED
  BY <1>1, <1>3, <1>4, <1>5, <1>6

-----------------------------------------------------------------------------
(***************************************************************************)
(* Ranks run from 0 up to one less than the number of members, and grow    *)
(* with the members.                                                       *)
(***************************************************************************)
LEMMA RankBounds ==
    ASSUME NEW S \in SUBSET Int, IsFiniteSet(S), NEW x \in S
    PROVE  /\ Rank(S, x) \in 0..(Cardinality(S) - 1)
           /\ \A z \in S : x < z => Rank(S, x) < Rank(S, z)
<1> DEFINE Below(v) == {y \in S : y < v}
<1>1. \A v \in S : IsFiniteSet(Below(v)) /\ Cardinality(Below(v)) \in Nat
  <2> TAKE v \in S
  <2>1. Below(v) \in SUBSET S
    OBVIOUS
  <2> QED
    BY <2>1, FS_Subset, FS_CardinalityType
<1>2. Cardinality(Below(x)) < Cardinality(S)
  <2>1. Below(x) \in SUBSET S /\ Below(x) # S
    OBVIOUS
  <2>2. Cardinality(Below(x)) <= Cardinality(S) /\ Cardinality(S) # Cardinality(Below(x))
    BY <2>1, FS_Subset
  <2>3. Cardinality(S) \in Nat /\ Cardinality(Below(x)) \in Nat
    BY <1>1, FS_CardinalityType
  <2> QED
    BY <2>2, <2>3
<1>3. ASSUME NEW z \in S, x < z PROVE Cardinality(Below(x)) < Cardinality(Below(z))
  <2>0. x \in Int /\ z \in Int /\ \A y \in S : y \in Int
    OBVIOUS
  <2>1. Below(x) \in SUBSET Below(z) /\ Below(x) # Below(z)
    <3>1. \A y \in S : y < x => y < z
      BY <1>3, <2>0
    <3>2. x \in Below(z) /\ x \notin Below(x)
      BY <1>3, <2>0
    <3> QED
      BY <3>1, <3>2, Zenon
  <2>2. IsFiniteSet(Below(z)) /\ Cardinality(Below(z)) \in Nat /\ Cardinality(Below(x)) \in Nat
    BY <1>1
  <2>3. Cardinality(Below(x)) <= Cardinality(Below(z))
        /\ Cardinality(Below(z)) # Cardinality(Below(x))
    BY <2>1, <2>2, FS_Subset
  <2> QED
    BY <2>2, <2>3
<1>4. Cardinality(S) \in Nat /\ \A v \in S : Rank(S, v) = Cardinality(Below(v))
  BY FS_CardinalityType DEF Rank
<1> HIDE DEF Below
<1> QED
  BY <1>1, <1>2, <1>3, <1>4

(***************************************************************************)
(* Every rank below the number of members is taken, by one member: there   *)
(* are as many ranks as members, and no two members share one.             *)
(***************************************************************************)
LEMMA RankTaken ==
    ASSUME NEW S \in SUBSET Int, IsFiniteSet(S), NEW n \in 0..(Cardinality(S) - 1)
    PROVE  Nth(S, n) \in S /\ Rank(S, Nth(S, n)) = n
<1> DEFINE T == 0..(Cardinality(S) - 1)
           rank == [x \in S |-> Rank(S, x)]
<1>1. rank \in [S -> T] /\ \A x, z \in S : rank[x] = rank[z] => x = z
  <2>1. rank \in [S -> T]
    BY RankBounds
  <2>2. ASSUME NEW x \in S, NEW z \in S, rank[x] = rank[z] PROVE x = z
    <3>1. Rank(S, x) = Rank(S, z) /\ Rank(S, x) \in Int
      BY <2>2, RankBounds
    <3>2. ~(x < z) /\ ~(z < x)
      BY <3>1, RankBounds
    <3> QED
      BY <3>2
  <2> QED
    BY <2>1, <2>2
<1>2. rank \in Injection(S, T)
  BY <1>1 DEF Injection, IsInjective
<1>3. IsFiniteSet(T) /\ Cardinality(T) = Cardinality(S)
  <2>1. Cardinality(S) \in Nat
    BY FS_CardinalityType
  <2>2. 0 \in Int /\ Cardinality(S) - 1 \in Int
    BY <2>1
  <2>3. IsFiniteSet(T)
        /\ Cardinality(T) = IF 0 > Cardinality(S) - 1 THEN 0 ELSE (Cardinality(S) - 1) - 0 + 1
    BY <2>2, FS_Interval, Zenon
  <2> QED
    BY <2>1, <2>3
<1>4. rank \in Surjection(S, T)
  BY <1>2, <1>3, FS_Injection
<1>5. \E x \in S : Rank(S, x) = n
  BY <1>4, Zenon DEF Surjection
<1> QED
  BY <1>5 DEF Nth

(***************************************************************************)
(* InOrder lists a set: each member once, in ascending order.              *)
(***************************************************************************)
THEOREM InOrderLists ==
    ASSUME NEW S \in SUBSET Int, IsFiniteSet(S)
    PROVE  /\ InOrder(S) \in Seq(S) /\ Len(InOrder(S)) = Cardinality(S)
           /\ InOrder(S) \in Bijection(1..Cardinality(S), S)
           /\ \A j, k \in 1..Cardinality(S) : j < k => InOrder(S)[j] < InOrder(S)[k]
<1> DEFINE N == Cardinality(S)
<1>0. N \in Nat
  BY FS_CardinalityType
<1>1. ASSUME NEW k \in 1..N
      PROVE  InOrder(S)[k] \in S /\ Rank(S, InOrder(S)[k]) = k - 1
  <2>1. k - 1 \in 0..(N - 1) /\ InOrder(S)[k] = Nth(S, k - 1)
    BY <1>0 DEF InOrder
  <2> QED
    BY <2>1, RankTaken
<1>2. InOrder(S) \in [1..N -> S]
  BY <1>1 DEF InOrder
<1>3. ASSUME NEW j \in 1..N, NEW k \in 1..N, j < k PROVE InOrder(S)[j] < InOrder(S)[k]
  <2>1. /\ InOrder(S)[j] \in S /\ InOrder(S)[k] \in S
        /\ Rank(S, InOrder(S)[j]) = j - 1 /\ Rank(S, InOrder(S)[k]) = k - 1
    BY <1>1
  <2>2. InOrder(S)[k] < InOrder(S)[j] => k - 1 < j - 1
    BY <2>1, RankBounds, Zenon
  <2>3. InOrder(S)[k] # InOrder(S)[j]
    BY <1>3, <2>1
  <2>4. InOrder(S)[j] \in Int /\ InOrder(S)[k] \in Int
    BY <2>1, Zenon
  <2>5. ~(InOrder(S)[k] < InOrder(S)[j])
    BY <1>3, <2>2
  <2> QED
    BY <2>3, <2>4, <2>5
<1>4. ASSUME NEW x \in S PROVE \E k \in 1..N : InOrder(S)[k] = x
  <2>1. Rank(S, x) \in 0..(N - 1)
    BY RankBounds
  <2>2. PICK k \in 1..N : k - 1 = Rank(S, x)
    BY <1>0, <2>1
  <2>3. InOrder(S)[k] \in S /\ Rank(S, InOrder(S)[k]) = Rank(S, x)
    BY <1>1, <2>2
  <2>4. InOrder(S)[k] < x => Rank(S, InOrder(S)[k]) < Rank(S, x)
    BY <2>3, RankBounds, Zenon
  <2>5. x < InOrder(S)[k] => Rank(S, x) < Rank(S, InOrder(S)[k])
    BY <2>3, RankBounds, Zenon
  <2>6. ~(InOrder(S)[k] < x) /\ ~(x < InOrder(S)[k])
    BY <1>0, <2>1, <2>3, <2>4, <2>5
  <2>7. InOrder(S)[k] \in Int /\ x \in Int
    BY <2>3, Zenon
  <2> QED
    BY <2>6, <2>7
<1>5. \A j, k \in 1..N : InOrder(S)[j] = InOrder(S)[k] => j = k
  <2> TAKE j, k \in 1..N
  <2>1. j < k => InOrder(S)[j] < InOrder(S)[k]
    BY <1>3
  <2>2. k < j => InOrder(S)[k] < InOrder(S)[j]
    BY <1>3
  <2>3. InOrder(S)[j] \in Int /\ InOrder(S)[k] \in Int
    BY <1>1, Zenon
  <2> QED
    BY <1>0, <2>1, <2>2, <2>3
<1>6. InOrder(S) \in Bijection(1..N, S)
  BY <1>2, <1>4, <1>5 DEF Bijection, Injection, Surjection, IsInjective
<1>7. InOrder(S) \in Seq(S) /\ Len(InOrder(S)) = N
  BY <1>0, <1>2
<1> QED
  BY <1>3, <1>6, <1>7

\* A finite set of integers has a least member.
LEMMA LeastMember ==
    ASSUME NEW S \in SUBSET Int, IsFiniteSet(S), S # {}
    PROVE  \E x \in S : \A y \in S : x <= y
<1>1. Cardinality(S) \in Nat /\ Cardinality(S) # 0
  BY FS_CardinalityType, FS_EmptySet
<1>2. 0 \in 0..(Cardinality(S) - 1)
  BY <1>1
<1>3. PICK x \in S : Rank(S, x) = 0
  BY <1>2, RankTaken, Zenon
<1>4. ASSUME NEW y \in S PROVE x <= y
  <2>1. y < x => Rank(S, y) < 0
    BY <1>3, RankBounds
  <2>2. Rank(S, y) \in Int /\ Rank(S, y) >= 0
    <3>1. Rank(S, y) \in 0..(Cardinality(S) - 1)
      BY RankBounds
    <3> QED
      BY <1>1, <3>1
  <2>3. x \in Int /\ y \in Int
    OBVIOUS
  <2> QED
    BY <2>1, <2>2, <2>3
<1> QED
  BY <1>4

=============================================================================
