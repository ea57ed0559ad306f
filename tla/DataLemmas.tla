----------------------------- MODULE DataLemmas -----------------------------
(***************************************************************************)
(* Facts about numbers and finite functions that proofs by induction rest  *)
(* on.  Induction is by the least counterexample: a set of numbers that is *)
(* not empty has a least element (LeastNumber), so a property of 0..n that *)
(* fails somewhere fails somewhere first.  Sums are the numbers of their   *)
(* units, so that facts about sums are facts about finite sets.            *)
(***************************************************************************)
EXTENDS Integers, Functions, FiniteSetTheorems, WellFoundedInduction, TLAPS

(* A set of natural numbers that is not empty has a least element.          *)
LEMMA LeastNumber ==
  ASSUME NEW S \in SUBSET Nat, S # {}
  PROVE  \E n \in S : \A m \in S : n <= m
<1> DEFINE less == {ss \in Nat \X Nat : ss[1] < ss[2]}
<1>1. IsWellFoundedOn(less, Nat)
  BY NatLessThanWellFounded, Zenon DEF OpToRel
<1> HIDE DEF less
<1>2. PICK n \in S : \A m \in S : ~(<<m, n>> \in less)
  BY <1>1, WFMin
<1>3. ASSUME NEW m \in S PROVE n <= m
  <2>1. m \in Nat /\ n \in Nat
    OBVIOUS
  <2>2. ~(m < n)
    BY <1>2, <2>1 DEF less
  <2>3. QED
    BY <2>1, <2>2
<1>4. QED
  BY <1>3

(* One that is bounded has a greatest.                                      *)
LEMMA GreatestNumber ==
  ASSUME NEW S \in SUBSET Nat, S # {}, NEW top \in Nat, \A m \in S : m <= top
  PROVE  \E n \in S : \A m \in S : m <= n
<1> DEFINE gap == {k \in Nat : \E m \in S : k = top - m}
<1>1. \A m \in S : m \in Nat /\ m <= top /\ top - m \in Nat
  OBVIOUS
<1>2. gap # {}
  BY <1>1
<1>3. PICK k \in gap : \A l \in gap : k <= l
  BY <1>2, LeastNumber
<1>4. PICK n \in S : k = top - n
  BY <1>3
<1>5. \A m \in S : m <= n
  BY <1>1, <1>3, <1>4
<1>6. QED
  BY <1>5

(* Induction over 0..n for a set of the numbers a property holds of.        *)
LEMMA UpTo ==
  ASSUME NEW n \in Nat, NEW S, 0 \in S,
         \A k \in 0..(n - 1) : k \in S => k + 1 \in S
  PROVE  0..n \subseteq S
<1> DEFINE bad == {k \in 0..n : k \notin S}
<1> SUFFICES ASSUME bad # {} PROVE FALSE
  OBVIOUS
<1>0. bad \in SUBSET Nat
  OBVIOUS
<1>1. PICK k \in bad : \A l \in bad : k <= l
  <2> HIDE DEF bad
  <2>1. QED
    BY <1>0, LeastNumber
<1>2. k \in 1..n /\ k \notin S
  BY <1>1
<1>3. k - 1 \in 0..(n - 1) /\ k - 1 \notin bad
  BY <1>1, <1>2
<1>4. k - 1 \in S
  BY <1>2, <1>3
<1>5. QED
  BY <1>2, <1>3, <1>4

(* A set listed without repetition by a function of 1..n has n elements.    *)
LEMMA CountedByIndex ==
  ASSUME NEW S, NEW n \in Nat, NEW f \in [1..n -> S],
         \A i, j \in 1..n : f[i] = f[j] => i = j,
         \A x \in S : \E i \in 1..n : f[i] = x
  PROVE  IsFiniteSet(S) /\ Cardinality(S) = n
<1>1. f \in Bijection(1..n, S)
  BY DEF Bijection, Injection, Surjection, IsInjective
<1>2. ExistsBijection(1..n, S)
  BY <1>1, Zenon DEF ExistsBijection
<1>3. QED
  BY <1>2, FS_CountingElements, FS_NatBijection

-----------------------------------------------------------------------------
(* Sums.                                                                   *)

(* f's values as sets of units: as many pairs with i as f[i] says.          *)
Units(f, T) == {u \in T \X Nat : 1 <= u[2] /\ u[2] <= f[u[1]]}

(* One index more adds its value to the number of units.                    *)
LEMMA UnitsOfOneMore ==
  ASSUME NEW S, NEW f \in [S -> Nat], NEW T \in SUBSET S, NEW x \in T,
         IsFiniteSet(Units(f, T \ {x}))
  PROVE  /\ IsFiniteSet(Units(f, T))
         /\ Cardinality(Units(f, T)) = f[x] + Cardinality(Units(f, T \ {x}))
<1>1. PICK n \in Nat : n = f[x]
  OBVIOUS
<1>2. PICK own : own = {u \in {x} \X Nat : 1 <= u[2] /\ u[2] <= n}
  OBVIOUS
<1>3. PICK list : list = [k \in 1..n |-> <<x, k>>]
  OBVIOUS
<1>4. list \in [1..n -> own] /\ \A i, j \in 1..n : list[i] = list[j] => i = j
  BY <1>1, <1>2, <1>3
<1>5. \A u \in own : \E k \in 1..n : list[k] = u
  <2> TAKE u \in own
  <2>1. u = <<x, u[2]>> /\ u[2] \in 1..n
    BY <1>1, <1>2
  <2>2. QED
    BY <1>3, <2>1
<1>6. IsFiniteSet(own) /\ Cardinality(own) = n
  BY <1>1, <1>4, <1>5, CountedByIndex, SMTT(30)
<1>7. PICK rest : rest = Units(f, T \ {x})
  OBVIOUS
<1>8. Units(f, T) = rest \cup own /\ rest \cap own = {}
  BY <1>1, <1>2, <1>7 DEF Units
<1>9. IsFiniteSet(rest \cup own) /\ Cardinality(rest \cup own) = Cardinality(rest) + n
  <2>1. IsFiniteSet(rest \cup own)
    BY <1>6, <1>7, FS_Union
  <2>2. /\ Cardinality(rest \cup own)
             = Cardinality(rest) + Cardinality(own) - Cardinality(rest \cap own)
        /\ Cardinality(rest \cap own) = 0
    BY <1>6, <1>7, <1>8, FS_Union, FS_EmptySet
  <2>3. Cardinality(rest) \in Nat
    BY <1>7, FS_CardinalityType
  <2>4. QED
    BY <1>1, <1>6, <2>1, <2>2, <2>3
<1>10. Cardinality(rest) \in Nat
  BY <1>7, FS_CardinalityType
<1>11. QED
  BY <1>1, <1>7, <1>8, <1>9, <1>10

(* The sum of a function's values is the number of their units.             *)
LEMMA SumIsCount ==
  ASSUME NEW S, IsFiniteSet(S), NEW f \in [S -> Nat]
  PROVE  IsFiniteSet(Units(f, S)) /\ SumFunction(f) = Cardinality(Units(f, S))
<1> DEFINE one(s) == CHOOSE x \in s : TRUE
           IsSum(g) == g = [s \in SUBSET S |-> IF s = {} THEN 0 ELSE f[one(s)] + g[s \ {one(s)}]]
<1>1. SumFunction(f) = (CHOOSE g : IsSum(g))[S]
  <2>1. DOMAIN f = S
    OBVIOUS
  <2>2. QED
    BY <2>1 DEF SumFunction, SumFunctionOnSet, FoldFunctionOnSet, MapThenFoldSet
<1>2. \A s : s # {} => one(s) \in s
  OBVIOUS
<1> HIDE DEF one
<1>3. ASSUME NEW T \in SUBSET S
      PROVE  /\ IsFiniteSet(Units(f, T))
             /\ T = {} => Cardinality(Units(f, T)) = 0
             /\ \A x \in T : Cardinality(Units(f, T)) = f[x] + Cardinality(Units(f, T \ {x}))
  <2>1. PICK n \in Nat : n = Cardinality(S)
    BY FS_CardinalityType
  <2>2. PICK ok : ok = {k \in 0..n : \A s \in SUBSET S :
                                        Cardinality(s) = k => IsFiniteSet(Units(f, s))}
    OBVIOUS
  <2>3. Units(f, {}) = {} /\ IsFiniteSet({}) /\ Cardinality({}) = 0
    BY FS_EmptySet DEF Units
  <2>4. 0 \in ok
    <3>1. \A s \in SUBSET S : Cardinality(s) = 0 => s = {}
      BY FS_Subset, FS_EmptySet
    <3>2. \A s \in SUBSET S : Cardinality(s) = 0 => IsFiniteSet(Units(f, s))
      BY <2>3, <3>1
    <3>3. 0 \in 0..n
      BY <2>1
    <3>4. QED
      BY <2>2, <3>2, <3>3
  <2>5. ASSUME NEW k \in 0..(n - 1), k \in ok PROVE k + 1 \in ok
    <3>1. ASSUME NEW s \in SUBSET S, Cardinality(s) = k + 1 PROVE IsFiniteSet(Units(f, s))
      <4>1. IsFiniteSet(s) /\ s # {}
        BY <2>1, <3>1, FS_Subset, FS_EmptySet
      <4>2. PICK x : x \in s
        BY <4>1
      <4>3. Cardinality(s \ {x}) = k /\ s \ {x} \in SUBSET S
        <5>1. Cardinality(s \ {x}) = Cardinality(s) - 1 /\ s \ {x} \in SUBSET S
          BY <4>1, <4>2, FS_RemoveElement
        <5>2. k + 1 - 1 = k
          OBVIOUS
        <5>3. QED
          BY <3>1, <5>1, <5>2
      <4>4. IsFiniteSet(Units(f, s \ {x}))
        BY <2>2, <2>5, <4>3
      <4>5. QED
        BY <4>2, <4>4, UnitsOfOneMore
    <3>2. k + 1 \in 0..n
      BY <2>1
    <3>3. QED
      BY <2>2, <3>1, <3>2
  <2>6. 0..n \subseteq ok
    BY <2>1, <2>4, <2>5, UpTo
  <2>7. \A s \in SUBSET S : IsFiniteSet(Units(f, s))
    <3> TAKE s \in SUBSET S
    <3>1. Cardinality(s) \in 0..n
      BY <2>1, FS_Subset, FS_CardinalityType
    <3>2. QED
      BY <2>2, <2>6, <3>1
  <2>8. \A x \in T : T \ {x} \in SUBSET S
    OBVIOUS
  <2>9. QED
    BY <2>3, <2>7, <2>8, UnitsOfOneMore
<1>4. \E g : IsSum(g)
  <2>1. PICK g : g = [s \in SUBSET S |-> Cardinality(Units(f, s))]
    OBVIOUS
  <2>2. ASSUME NEW s \in SUBSET S
        PROVE  g[s] = IF s = {} THEN 0 ELSE f[one(s)] + g[s \ {one(s)}]
    <3>1. s \ {one(s)} \in SUBSET S
      OBVIOUS
    <3>2. QED
      BY <1>2, <1>3, <2>1, <3>1
  <2>3. IsSum(g)
    BY <2>1, <2>2
  <2>4. QED
    BY <2>3
<1>5. PICK g : g = (CHOOSE h : IsSum(h)) /\ IsSum(g)
  BY <1>4
<1>6. \A s \in SUBSET S : g[s] = IF s = {} THEN 0 ELSE f[one(s)] + g[s \ {one(s)}]
  BY <1>5
<1> HIDE DEF IsSum
<1>7. PICK n \in Nat : n = Cardinality(S)
  BY FS_CardinalityType
<1>8. PICK ok : ok = {k \in 0..n : \A s \in SUBSET S :
                                      Cardinality(s) = k => g[s] = Cardinality(Units(f, s))}
  OBVIOUS
<1>9. 0 \in ok
  <2>1. \A s \in SUBSET S : Cardinality(s) = 0 => s = {}
    BY FS_Subset, FS_EmptySet
  <2>2. {} \in SUBSET S /\ g[{}] = 0 /\ Cardinality(Units(f, {})) = 0
    BY <1>3, <1>6
  <2>3. \A s \in SUBSET S : Cardinality(s) = 0 => g[s] = Cardinality(Units(f, s))
    BY <2>1, <2>2
  <2>4. 0 \in 0..n
    BY <1>7
  <2>5. QED
    BY <1>8, <2>3, <2>4
<1>10. ASSUME NEW k \in 0..(n - 1), k \in ok PROVE k + 1 \in ok
  <2>1. ASSUME NEW s \in SUBSET S, Cardinality(s) = k + 1 PROVE g[s] = Cardinality(Units(f, s))
    <3>1. IsFiniteSet(s) /\ s # {}
      BY <1>7, <2>1, FS_Subset, FS_EmptySet
    <3>2. PICK x : x = one(s) /\ x \in s
      BY <1>2, <3>1
    <3>3. Cardinality(s \ {x}) = k /\ s \ {x} \in SUBSET S
      <4>1. Cardinality(s \ {x}) = Cardinality(s) - 1 /\ s \ {x} \in SUBSET S
        BY <3>1, <3>2, FS_RemoveElement
      <4>2. k + 1 - 1 = k
        OBVIOUS
      <4>3. QED
        BY <2>1, <4>1, <4>2
    <3>4. g[s \ {x}] = Cardinality(Units(f, s \ {x}))
      BY <1>8, <1>10, <3>3
    <3>5. QED
      BY <1>3, <1>6, <3>1, <3>2, <3>4
  <2>2. k + 1 \in 0..n
    BY <1>7
  <2>3. QED
    BY <1>8, <2>1, <2>2
<1>11. 0..n \subseteq ok
  BY <1>7, <1>9, <1>10, UpTo
<1>12. g[S] = Cardinality(Units(f, S))
  <2>1. S \in SUBSET S /\ n \in 0..n
    BY <1>7
  <2>2. QED
    BY <1>7, <1>8, <1>11, <2>1
<1>13. QED
  BY <1>1, <1>3, <1>5, <1>12

=============================================================================
