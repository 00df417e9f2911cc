-------------------------- MODULE ArithmeticProofs --------------------------
(***************************************************************************)
(* What the parts that compute by themselves promise, for every reward,    *)
(* weight, target, limit and order of messages: a reward is split exactly, *)
(* over as many miners as the minimum allows and in proportion; a compact  *)
(* target credits no share above the job's and refuses few below it; a     *)
(* worker's factor overshoots by the jobs minted before it changed only; a *)
(* connection is served up to its limits and less than twice them.         *)
(***************************************************************************)
EXTENDS MCArithmetic, Sequences, TLAPS, FiniteSetTheorems, WellFoundedInduction

-----------------------------------------------------------------------------
(* Sums over finite sets *)

(***************************************************************************)
(* A sum is the value of a recursive function on the subsets of a set.     *)
(* That this function exists, that its values are natural numbers and that *)
(* they do not depend on the order of its choices each need induction: the *)
(* proofs below take a smallest counterexample and refute it.              *)
(***************************************************************************)
SumOf(f, ids) == MapThenSumSet(LAMBDA a : f[a], ids)

Pick(s) == CHOOSE x \in s : TRUE

SumStep(f, g, s) == IF s = {} THEN 0 ELSE f[Pick(s)] + g[s \ {Pick(s)}]

IsSum(f, g, ids) == g \in [SUBSET ids -> Nat] /\ \A s \in SUBSET ids : g[s] = SumStep(f, g, s)

SmallSubsets(ids, n) == {s \in SUBSET ids : Cardinality(s) =< n}

(* A nonempty set of natural numbers has a least element. *)
LEMMA LeastNat ==
  ASSUME NEW T \in SUBSET Nat, T # {}
  PROVE  \E n \in T : \A k \in T : n =< k
<1>1. IsWellFoundedOn(OpToRel(<, Nat), Nat)
  BY NatLessThanWellFounded
<1>2. PICK n \in T : \A k \in T : ~(<<k, n>> \in OpToRel(<, Nat))
  BY <1>1, WFMin
<1>3. \A k \in T : ~(k < n)
  BY <1>2 DEF OpToRel
<1> QED
  BY <1>3

(* The choice that the sum makes takes one element away. *)
LEMMA PickOne ==
  ASSUME NEW ids, IsFiniteSet(ids), NEW s \in SUBSET ids
  PROVE  /\ IsFiniteSet(s) /\ Cardinality(s) \in Nat
         /\ s # {} => /\ Pick(s) \in s
                      /\ s \ {Pick(s)} \in SUBSET ids
                      /\ Cardinality(s \ {Pick(s)}) = Cardinality(s) - 1
<1>1. IsFiniteSet(s) /\ Cardinality(s) \in Nat
  BY FS_Subset, FS_CardinalityType
<1>2. s # {} => Pick(s) \in s
  BY DEF Pick
<1> QED
  BY <1>1, <1>2, FS_RemoveElement

(* The subsets of at most n elements have a sum, for every n. *)
LEMMA SumExists ==
  ASSUME NEW ids, IsFiniteSet(ids), NEW f, \A a \in ids : f[a] \in Nat, NEW n \in Nat
  PROVE  \E g \in [SmallSubsets(ids, n) -> Nat] :
            \A s \in SmallSubsets(ids, n) : g[s] = SumStep(f, g, s)
<1> DEFINE Has(m) == \E g \in [SmallSubsets(ids, m) -> Nat] :
                        \A s \in SmallSubsets(ids, m) : g[s] = SumStep(f, g, s)
           Bad == {m \in Nat : ~Has(m)}
<1>1. SUFFICES ASSUME Bad # {} PROVE FALSE
  BY <1>1
<1>2. PICK m \in Bad : \A k \in Bad : m =< k
  BY <1>1, LeastNat
<1>3. \A s \in SUBSET ids : IsFiniteSet(s) /\ Cardinality(s) \in Nat
  BY PickOne
<1>4. CASE m = 0
  <2> DEFINE g == [s \in SmallSubsets(ids, 0) |-> 0]
  <2>1. \A s \in SmallSubsets(ids, 0) : s = {}
    BY <1>3, FS_EmptySet DEF SmallSubsets
  <2>2. g \in [SmallSubsets(ids, 0) -> Nat]
    OBVIOUS
  <2>3. \A s \in SmallSubsets(ids, 0) : g[s] = SumStep(f, g, s)
    BY <2>1 DEF SumStep
  <2>4. Has(0)
    BY <2>2, <2>3
  <2> QED
    BY <1>2, <1>4, <2>4
<1>5. CASE m # 0
  <2>1. m - 1 \in Nat /\ m - 1 \notin Bad
    BY <1>2, <1>5
  <2>2. PICK h \in [SmallSubsets(ids, m - 1) -> Nat] :
          \A s \in SmallSubsets(ids, m - 1) : h[s] = SumStep(f, h, s)
    BY <2>1
  <2> DEFINE g == [s \in SmallSubsets(ids, m) |-> SumStep(f, h, s)]
  <2>3. \A s \in SmallSubsets(ids, m) : s # {} =>
           s \ {Pick(s)} \in SmallSubsets(ids, m - 1) /\ Pick(s) \in ids
    BY <1>2, PickOne DEF SmallSubsets
  <2>4. ASSUME NEW s \in SmallSubsets(ids, m) PROVE SumStep(f, h, s) \in Nat
    <3>1. CASE s = {}
      BY <3>1 DEF SumStep
    <3>2. CASE s # {}
      <4>1. h[s \ {Pick(s)}] \in Nat /\ f[Pick(s)] \in Nat
        BY <2>2, <2>3, <3>2
      <4> QED
        BY <3>2, <4>1 DEF SumStep
    <3> QED
      BY <3>1, <3>2
  <2>5. g \in [SmallSubsets(ids, m) -> Nat]
    BY <2>4
  <2>6. \A t \in SmallSubsets(ids, m - 1) : t \in SmallSubsets(ids, m) /\ g[t] = h[t]
    BY <1>2, <1>3, <2>2 DEF SmallSubsets
  <2>7. \A s \in SmallSubsets(ids, m) : g[s] = SumStep(f, g, s)
    <3>1. ASSUME NEW s \in SmallSubsets(ids, m), s # {}
          PROVE  SumStep(f, h, s) = SumStep(f, g, s)
      BY <2>3, <2>6, <3>1 DEF SumStep
    <3>2. \A s \in SmallSubsets(ids, m) : s = {} => SumStep(f, h, s) = SumStep(f, g, s)
      BY DEF SumStep
    <3> QED
      BY <3>1, <3>2
  <2>8. Has(m)
    BY <2>5, <2>7
  <2> QED
    BY <1>2, <2>8
<1> QED
  BY <1>4, <1>5

(* Equal terms have equal sums. *)
LEMMA SumSame ==
  ASSUME NEW e, NEW f, NEW ids, \A a \in ids : e[a] = f[a]
  PROVE  SumOf(e, ids) = SumOf(f, ids)
<1> DEFINE E(g) == [s \in SUBSET ids |-> SumStep(e, g, s)]
           F(g) == [s \in SUBSET ids |-> SumStep(f, g, s)]
<1>1. ASSUME NEW g PROVE E(g) = F(g)
  <2>1. ASSUME NEW s \in SUBSET ids PROVE SumStep(e, g, s) = SumStep(f, g, s)
    BY DEF SumStep, Pick
  <2> QED
    BY <2>1
<1>2. (CHOOSE g : g = E(g)) = (CHOOSE g : g = F(g))
  <2> HIDE DEF E, F
  <2>1. \A g : g = E(g) <=> g = F(g)
    BY <1>1
  <2> QED
    BY <2>1
<1>3. SumOf(e, ids) = (CHOOSE g : g = E(g))[ids]
  BY DEF SumOf, MapThenSumSet, MapThenFoldSet, SumStep, Pick
<1>4. SumOf(f, ids) = (CHOOSE g : g = F(g))[ids]
  BY DEF SumOf, MapThenSumSet, MapThenFoldSet, SumStep, Pick
<1> QED
  BY <1>2, <1>3, <1>4

(* The sums over all subsets of ids are one function. *)
LEMMA SumsExist ==
  ASSUME NEW ids, IsFiniteSet(ids), NEW f, \A a \in ids : f[a] \in Nat
  PROVE  \E g : IsSum(f, g, ids)
<1>1. SmallSubsets(ids, Cardinality(ids)) = SUBSET ids
  BY FS_Subset DEF SmallSubsets
<1>2. Cardinality(ids) \in Nat
  BY FS_CardinalityType
<1>3. \E g \in [SmallSubsets(ids, Cardinality(ids)) -> Nat] :
        \A s \in SmallSubsets(ids, Cardinality(ids)) : g[s] = SumStep(f, g, s)
  BY <1>2, SumExists
<1> QED
  BY <1>1, <1>3 DEF IsSum

(* ... which says what one element adds, whichever it is. *)
LEMMA EachAdds ==
  ASSUME NEW ids, IsFiniteSet(ids), NEW f, \A a \in ids : f[a] \in Nat,
         NEW g, IsSum(f, g, ids), NEW t \in SUBSET ids, NEW e \in t
  PROVE  g[t] = f[e] + g[t \ {e}]
<1> SUFFICES \A s \in SUBSET ids : \A a \in s : g[s] = f[a] + g[s \ {a}]
  OBVIOUS
<1> g \in [SUBSET ids -> Nat] /\ \A s \in SUBSET ids : g[s] = SumStep(f, g, s)
  BY DEF IsSum
<1> DEFINE Good(s) == \A a \in s : g[s] = f[a] + g[s \ {a}]
           Bad == {n \in Nat : \E s \in SUBSET ids : Cardinality(s) = n /\ ~Good(s)}
<1>1. SUFFICES ASSUME Bad # {} PROVE FALSE
  BY <1>1, PickOne
<1>2. PICK n \in Bad : \A k \in Bad : n =< k
  BY <1>1, LeastNat
<1>3. PICK s \in SUBSET ids : Cardinality(s) = n /\ ~Good(s)
  BY <1>2
<1>4. PICK a \in s : g[s] # f[a] + g[s \ {a}]
  BY <1>3
<1> DEFINE b == Pick(s)
<1>5. b \in s /\ g[s] = f[b] + g[s \ {b}]
  BY <1>4, PickOne DEF SumStep
<1> HIDE DEF b
<1>6. a # b
  BY <1>4, <1>5
<1>7. ASSUME NEW c \in s
      PROVE  s \ {c} \in SUBSET ids /\ Cardinality(s \ {c}) = n - 1 /\ n - 1 \in Nat
  <2>1. IsFiniteSet(s)
    BY PickOne
  <2>2. Cardinality(s \ {c}) = n - 1
    BY <1>3, <2>1, FS_RemoveElement
  <2>3. s \ {c} \in SUBSET ids
    OBVIOUS
  <2>4. Cardinality(s \ {c}) \in Nat
    BY <2>1, FS_RemoveElement, FS_CardinalityType
  <2> QED
    BY <2>2, <2>3, <2>4
<1>8. Good(s \ {a}) /\ Good(s \ {b})
  <2>1. n - 1 \notin Bad
    BY <1>2, <1>7, <1>5
  <2> QED
    BY <1>5, <1>7, <2>1
<1>9. g[s \ {b}] = f[a] + g[(s \ {b}) \ {a}]
  BY <1>6, <1>8
<1>10. g[s \ {a}] = f[b] + g[(s \ {a}) \ {b}]
  BY <1>5, <1>6, <1>8
<1>11. (s \ {b}) \ {a} = (s \ {a}) \ {b}
  OBVIOUS
<1>12. /\ f[a] \in Nat /\ f[b] \in Nat
       /\ (s \ {a}) \ {b} \in SUBSET ids
  BY <1>5
<1>13. g[(s \ {a}) \ {b}] \in Nat
  BY <1>12
<1>14. g[s] = f[b] + (f[a] + g[(s \ {a}) \ {b}])
  BY <1>5, <1>9, <1>11
<1>15. f[a] + g[s \ {a}] = f[a] + (f[b] + g[(s \ {a}) \ {b}])
  BY <1>10
<1> QED
  BY <1>4, <1>12, <1>13, <1>14, <1>15

(* A sum is a number; of nothing it is 0, and each element adds its term. *)
LEMMA Sums ==
  ASSUME NEW ids, IsFiniteSet(ids), NEW f, \A a \in ids : f[a] \in Nat
  PROVE  /\ SumOf(f, ids) \in Nat
         /\ ids = {} => SumOf(f, ids) = 0
         /\ \A a \in ids : SumOf(f, ids) = f[a] + SumOf(f, ids \ {a})
<1>1. PICK g : IsSum(f, g, ids)
  BY SumsExist
<1>2. g \in [SUBSET ids -> Nat] /\ \A s \in SUBSET ids : g[s] = SumStep(f, g, s)
  BY <1>1 DEF IsSum
<1>3. ASSUME NEW J \in SUBSET ids PROVE SumOf(f, J) = g[J]
  <2> DEFINE iter == CHOOSE h : h = [s \in SUBSET J |-> SumStep(f, h, s)]
             gJ == [s \in SUBSET J |-> g[s]]
  <2>1. SumOf(f, J) = iter[J]
    BY DEF SumOf, MapThenSumSet, MapThenFoldSet, SumStep, Pick
  <2>2. gJ = [s \in SUBSET J |-> SumStep(f, gJ, s)]
    <3>1. ASSUME NEW s \in SUBSET J PROVE g[s] = SumStep(f, gJ, s)
      <4>1. s \ {Pick(s)} \in SUBSET J
        OBVIOUS
      <4> QED
        BY <1>2, <4>1 DEF SumStep
    <3> QED
      BY <3>1
  <2>3. iter = [s \in SUBSET J |-> SumStep(f, iter, s)]
    BY <2>2
  <2> HIDE DEF iter
  <2> DEFINE Bad == {n \in Nat : \E s \in SUBSET J : Cardinality(s) = n /\ iter[s] # g[s]}
  <2>4. IsFiniteSet(J)
    BY PickOne
  <2>5. Bad = {}
    <3>1. SUFFICES ASSUME Bad # {} PROVE FALSE
      BY <3>1
    <3>2. PICK n \in Bad : \A k \in Bad : n =< k
      BY <3>1, LeastNat
    <3>3. PICK s \in SUBSET J : Cardinality(s) = n /\ iter[s] # g[s]
      BY <3>2
    <3>4. iter[s] = SumStep(f, iter, s) /\ g[s] = SumStep(f, g, s)
      BY <1>2, <2>3
    <3>5. s # {}
      BY <3>3, <3>4 DEF SumStep
    <3>6. /\ s \ {Pick(s)} \in SUBSET J
          /\ Cardinality(s \ {Pick(s)}) = n - 1
          /\ n - 1 \in Nat
      <4>1. /\ s \ {Pick(s)} \in SUBSET J
            /\ Cardinality(s \ {Pick(s)}) = n - 1
        BY <2>4, <3>3, <3>5, PickOne
      <4>2. Cardinality(s \ {Pick(s)}) \in Nat
        <5>1. IsFiniteSet(s \ {Pick(s)})
          BY <2>4, FS_Subset
        <5> QED
          BY <5>1, FS_CardinalityType
      <4> QED
        BY <4>1, <4>2
    <3>7. iter[s \ {Pick(s)}] = g[s \ {Pick(s)}]
      BY <3>2, <3>6
    <3> QED
      BY <3>3, <3>4, <3>5, <3>7 DEF SumStep
  <2>6. J \in SUBSET J /\ Cardinality(J) \in Nat
    BY <2>4, PickOne
  <2> QED
    BY <2>1, <2>5, <2>6
<1>4. ASSUME NEW a \in ids PROVE g[ids] = f[a] + g[ids \ {a}]
  BY <1>1, EachAdds
<1>5. g[{}] = 0
  BY <1>2 DEF SumStep
<1> QED
  BY <1>2, <1>3, <1>4, <1>5

(* Without one of its elements a finite set has one less. *)
LEMMA OneLess ==
  ASSUME NEW s, IsFiniteSet(s), NEW c \in s
  PROVE  /\ IsFiniteSet(s \ {c})
         /\ Cardinality(s \ {c}) = Cardinality(s) - 1
         /\ Cardinality(s \ {c}) \in Nat
BY FS_RemoveElement, FS_CardinalityType

(* A part of a sum is at most the sum. *)
LEMMA SumOfPart ==
  ASSUME NEW ids, IsFiniteSet(ids), NEW f, \A a \in ids : f[a] \in Nat, NEW s \in SUBSET ids
  PROVE  SumOf(f, s) =< SumOf(f, ids)
<1> DEFINE Bad == {n \in Nat : \E t \in SUBSET ids : /\ s \subseteq t /\ Cardinality(t) = n
                                                    /\ ~(SumOf(f, s) =< SumOf(f, t))}
<1>1. ASSUME NEW t \in SUBSET ids
      PROVE  IsFiniteSet(t) /\ Cardinality(t) \in Nat /\ SumOf(f, t) \in Nat
  <2>1. IsFiniteSet(t) /\ Cardinality(t) \in Nat
    BY FS_Subset, FS_CardinalityType
  <2> QED
    BY <2>1, Sums
<1>2. Bad = {}
  <2>1. SUFFICES ASSUME Bad # {} PROVE FALSE
    BY <2>1
  <2>2. PICK n \in Bad : \A k \in Bad : n =< k
    BY <2>1, LeastNat
  <2>3. PICK t \in SUBSET ids : /\ s \subseteq t /\ Cardinality(t) = n
                                /\ ~(SumOf(f, s) =< SumOf(f, t))
    BY <2>2
  <2>4. t # s
    BY <1>1, <2>3
  <2>5. PICK a \in t : a \notin s
    BY <2>3, <2>4
  <2>6. /\ t \ {a} \in SUBSET ids /\ s \subseteq t \ {a}
        /\ Cardinality(t \ {a}) = n - 1
    BY <1>1, <2>3, <2>5, FS_RemoveElement
  <2>7. Cardinality(t \ {a}) \in Nat
    BY <1>1, <2>6
  <2>8. SumOf(f, s) =< SumOf(f, t \ {a})
    BY <2>2, <2>6, <2>7
  <2>9. SumOf(f, t) = f[a] + SumOf(f, t \ {a})
    BY <1>1, <2>5, Sums
  <2>10. f[a] \in Nat /\ SumOf(f, s) \in Nat /\ SumOf(f, t \ {a}) \in Nat
    BY <1>1, <2>6
  <2> QED
    BY <2>3, <2>8, <2>9, <2>10
<1> QED
  BY <1>1, <1>2

-----------------------------------------------------------------------------
(* Division *)

LEMMA ProductGrows ==
  ASSUME NEW x \in Nat, NEW y \in Nat, NEW z \in Nat, x =< y
  PROVE  x * z =< y * z
<1>1. (y - x) * z \in Nat
  OBVIOUS
<1>2. (y - x) * z = y * z - x * z
  OBVIOUS
<1> QED
  BY <1>1, <1>2

(* A quotient is the greatest number that fits. *)
LEMMA Quotient ==
  ASSUME NEW x \in Nat, NEW d \in Nat \ {0}
  PROVE  /\ x \div d \in Nat
         /\ (x \div d) * d =< x
         /\ \A q \in Nat : q * d =< x => q =< x \div d
<1>1. x \div d \in Nat /\ x % d \in 0..(d - 1) /\ x = d * (x \div d) + (x % d)
  OBVIOUS
<1>2. ASSUME NEW q \in Nat, q * d =< x, ~(q =< x \div d) PROVE FALSE
  <2>1. (x \div d) + 1 =< q
    BY <1>1, <1>2
  <2>2. ((x \div d) + 1) * d =< q * d
    BY <1>1, <2>1, ProductGrows
  <2>3. ((x \div d) + 1) * d = d * (x \div d) + d
    BY <1>1
  <2> QED
    BY <1>1, <1>2, <2>2, <2>3
<1>3. (x \div d) * d = d * (x \div d) /\ d * (x \div d) \in Nat
  BY <1>1
<1> QED
  BY <1>1, <1>2, <1>3

LEMMA QuotientGrows ==
  ASSUME NEW x \in Nat, NEW y \in Nat, x =< y, NEW d \in Nat \ {0}
  PROVE  x \div d =< y \div d
<1>1. (x \div d) * d =< x /\ x \div d \in Nat
  BY Quotient
<1>2. (x \div d) * d =< y
  BY <1>1
<1> QED
  BY <1>1, <1>2, Quotient

LEMMA QuotientShrinks ==
  ASSUME NEW x \in Nat, NEW d \in Nat \ {0}, NEW e \in Nat \ {0}, d =< e
  PROVE  x \div e =< x \div d
<1>1. (x \div e) * e =< x /\ x \div e \in Nat
  BY Quotient
<1>2. (x \div e) * d =< (x \div e) * e
  <2>1. d * (x \div e) =< e * (x \div e)
    BY <1>1, ProductGrows
  <2> QED
    BY <1>1, <2>1
<1>3. (x \div e) * d =< x
  BY <1>1, <1>2
<1> QED
  BY <1>1, <1>3, Quotient

-----------------------------------------------------------------------------
(* The order of the addresses *)

(* A finite set has a last element in a total order. *)
LEMMA LastExists ==
  ASSUME NEW ids, IsFiniteSet(ids), ids # {}, NEW R,
         \A a, b \in ids : a # b => (<<a, b>> \in R \/ <<b, a>> \in R),
         \A a, b, c \in ids : <<a, b>> \in R /\ <<b, c>> \in R => <<a, c>> \in R
  PROVE  \E a \in ids : \A b \in ids \ {a} : <<b, a>> \in R
<1> DEFINE Has(s) == \E a \in s : \A b \in s \ {a} : <<b, a>> \in R
           Bad == {n \in Nat : \E s \in SUBSET ids : s # {} /\ Cardinality(s) = n /\ ~Has(s)}
<1>1. \A s \in SUBSET ids : IsFiniteSet(s) /\ Cardinality(s) \in Nat
  BY PickOne
<1>2. Bad = {}
  <2>1. SUFFICES ASSUME Bad # {} PROVE FALSE
    BY <2>1
  <2>2. PICK n \in Bad : \A k \in Bad : n =< k
    BY <2>1, LeastNat
  <2>3. PICK s \in SUBSET ids : s # {} /\ Cardinality(s) = n /\ ~Has(s)
    BY <2>2
  <2>4. PICK c : c \in s
    BY <2>3
  <2> DEFINE r == s \ {c}
  <2>5. r \in SUBSET ids /\ Cardinality(r) = n - 1
    <3>1. IsFiniteSet(s)
      BY <1>1
    <3>2. Cardinality(s \ {c}) = Cardinality(s) - 1
      BY <2>4, <3>1, OneLess, Zenon
    <3> QED
      BY <2>3, <3>2
  <2>6. r # {}
    BY <2>3, <2>4
  <2>7. Cardinality(r) \in Nat
    BY <1>1, <2>5
  <2>8. Has(r)
    BY <2>2, <2>5, <2>6, <2>7
  <2>9. PICK a \in r : \A b \in r \ {a} : <<b, a>> \in R
    BY <2>8
  <2>10. CASE <<c, a>> \in R
    BY <2>3, <2>4, <2>9, <2>10
  <2>11. CASE <<a, c>> \in R
    <3>1. \A b \in r : <<b, c>> \in R
      BY <2>4, <2>5, <2>9, <2>11
    <3> QED
      BY <2>3, <2>4, <3>1
  <2> QED
    BY <2>4, <2>9, <2>10, <2>11
<1> QED
  BY <1>1, <1>2

-----------------------------------------------------------------------------
(* The reward *)

SplitType ==
    /\ reward \in Nat /\ minimum \in Nat
    /\ weight \in [Addresses -> Nat]
    /\ survivors \subseteq Positive
    /\ phase \in {"drop", "paid"}

(* Who outlives a survivor is one. *)
TopSurvives == \A a \in survivors, b \in Positive : Outlives(b, a) => b \in survivors

SomeoneSurvives == Positive # {} => survivors # {}

(* No larger set than that of the survivors clears the minimum. *)
NoLargerClears ==
    reward > 0 =>
        \A n \in 2..Cardinality(Positive) : n > Cardinality(survivors) => ~Clears(Heaviest(n))

(* What has been paid is what the survivors are due. *)
PaidToSurvivors ==
    /\ phase = "paid" /\ reward > 0 /\ Positive # {} => ~MustDrop /\ payouts = Paid(survivors)
    /\ phase = "drop" \/ reward = 0 \/ Positive = {} => payouts = [a \in {} |-> 0]

SplitInv == SplitType /\ TopSurvives /\ SomeoneSurvives /\ NoLargerClears /\ PaidToSurvivors

LEMMA FiniteSets ==
  ASSUME NEW s \in SUBSET Addresses
  PROVE  IsFiniteSet(s) /\ Cardinality(s) \in Nat
BY PplnsAssumption, FS_Subset, FS_CardinalityType

(* The sorting order is total. *)
LEMMA OrderIsTotal ==
  ASSUME SplitType
  PROVE  /\ \A a, b \in Addresses : a # b => Outlives(a, b) \/ Outlives(b, a)
         /\ \A a, b \in Addresses : ~(Outlives(a, b) /\ Outlives(b, a))
         /\ \A a, b, c \in Addresses : Outlives(a, b) /\ Outlives(b, c) => Outlives(a, c)
         /\ \A a, b \in Addresses : a # b => Before(a, b) \/ Before(b, a)
         /\ \A a, b, c \in Addresses : Before(a, b) /\ Before(b, c) => Before(a, c)
<1>1. Addresses \subseteq Nat /\ weight \in [Addresses -> Nat]
  BY PplnsAssumption DEF SplitType
<1> QED
  BY <1>1 DEF Outlives, Before

(* So every set has a worst, a first and a last address. *)
LEMMA Extremes ==
  ASSUME SplitType, NEW s \in SUBSET Addresses, s # {}
  PROVE  /\ Worst(s) \in s /\ \A b \in s \ {Worst(s)} : Outlives(b, Worst(s))
         /\ FirstOf(s) \in s /\ \A b \in s \ {FirstOf(s)} : Before(FirstOf(s), b)
         /\ LastOf(s) \in s /\ \A b \in s \ {LastOf(s)} : Before(b, LastOf(s))
<1>1. IsFiniteSet(s)
  BY FiniteSets
<1>2. \E a \in s : \A b \in s \ {a} : Outlives(b, a)
  <2> DEFINE R == {p \in Addresses \X Addresses : Outlives(p[1], p[2])}
  <2>1. \A a, b \in s : <<a, b>> \in R <=> Outlives(a, b)
    OBVIOUS
  <2> HIDE DEF R
  <2>2. /\ \A a, b \in s : a # b => (<<a, b>> \in R \/ <<b, a>> \in R)
        /\ \A a, b, c \in s : <<a, b>> \in R /\ <<b, c>> \in R => <<a, c>> \in R
    BY <2>1, OrderIsTotal
  <2>3. \E a \in s : \A b \in s \ {a} : <<b, a>> \in R
    BY <1>1, <2>2, LastExists
  <2> QED
    BY <2>1, <2>3
<1>3. \E a \in s : \A b \in s \ {a} : Before(b, a)
  <2> DEFINE R == {p \in Addresses \X Addresses : Before(p[1], p[2])}
  <2>1. \A a, b \in s : <<a, b>> \in R <=> Before(a, b)
    OBVIOUS
  <2> HIDE DEF R
  <2>2. /\ \A a, b \in s : a # b => (<<a, b>> \in R \/ <<b, a>> \in R)
        /\ \A a, b, c \in s : <<a, b>> \in R /\ <<b, c>> \in R => <<a, c>> \in R
    BY <2>1, OrderIsTotal
  <2>3. \E a \in s : \A b \in s \ {a} : <<b, a>> \in R
    BY <1>1, <2>2, LastExists
  <2> QED
    BY <2>1, <2>3
<1>4. \E a \in s : \A b \in s \ {a} : Before(a, b)
  <2> DEFINE R == {p \in Addresses \X Addresses : Before(p[2], p[1])}
  <2>1. \A a, b \in s : <<a, b>> \in R <=> Before(b, a)
    OBVIOUS
  <2> HIDE DEF R
  <2>2. /\ \A a, b \in s : a # b => (<<a, b>> \in R \/ <<b, a>> \in R)
        /\ \A a, b, c \in s : <<a, b>> \in R /\ <<b, c>> \in R => <<a, c>> \in R
    BY <2>1, OrderIsTotal
  <2>3. \E a \in s : \A b \in s \ {a} : <<b, a>> \in R
    BY <1>1, <2>2, LastExists
  <2> QED
    BY <2>1, <2>3
<1>5. Worst(s) \in s /\ \A b \in s \ {Worst(s)} : Outlives(b, Worst(s))
  BY <1>2 DEF Worst
<1>6. FirstOf(s) \in s /\ \A b \in s \ {FirstOf(s)} : Before(FirstOf(s), b)
  BY <1>4 DEF FirstOf
<1>7. LastOf(s) \in s /\ \A b \in s \ {LastOf(s)} : Before(b, LastOf(s))
  BY <1>3 DEF LastOf
<1> QED
  BY <1>5, <1>6, <1>7

(* A total is positive where someone has weight, and grows with the set. *)
LEMMA Totals ==
  ASSUME SplitType
  PROVE  /\ \A s \in SUBSET Addresses : TotalOf(s) = SumOf(weight, s) /\ TotalOf(s) \in Nat
         /\ \A s \in SUBSET Positive : s # {} => TotalOf(s) \in Nat \ {0}
         /\ \A t \in SUBSET Addresses : \A s \in SUBSET t : TotalOf(s) =< TotalOf(t)
<1>1. \A a \in Addresses : weight[a] \in Nat
  BY DEF SplitType
<1>2. \A s : TotalOf(s) = SumOf(weight, s)
  BY DEF TotalOf, SumOf, MapThenSumSet, MapThenFoldSet
<1>3. ASSUME NEW s \in SUBSET Addresses
      PROVE  /\ TotalOf(s) \in Nat
             /\ \A a \in s : TotalOf(s) = weight[a] + TotalOf(s \ {a})
  <2>1. \A a \in s : weight[a] \in Nat
    BY <1>1
  <2> QED
    BY <1>2, <2>1, FiniteSets, Sums
<1>4. ASSUME NEW s \in SUBSET Positive, s # {} PROVE TotalOf(s) \in Nat \ {0}
  <2>1. s \in SUBSET Addresses
    BY DEF Positive
  <2>2. PICK a \in s : TRUE
    BY <1>4
  <2>3. weight[a] \in Nat /\ weight[a] > 0
    BY <1>1 DEF Positive
  <2>4. TotalOf(s) = weight[a] + TotalOf(s \ {a})
    BY <1>3, <2>1
  <2>5. s \ {a} \in SUBSET Addresses
    BY <2>1
  <2>6. TotalOf(s \ {a}) \in Nat /\ TotalOf(s) \in Nat
    BY <1>3, <2>1, <2>5
  <2> QED
    BY <2>3, <2>4, <2>6
<1>5. ASSUME NEW t \in SUBSET Addresses, NEW s \in SUBSET t PROVE TotalOf(s) =< TotalOf(t)
  <2>1. \A a \in t : weight[a] \in Nat
    BY <1>1
  <2> QED
    BY <1>2, <2>1, FiniteSets, SumOfPart
<1> QED
  BY <1>2, <1>3, <1>4, <1>5

(* The grains of an address, the quotient of reward and weight. *)
LEMMA GrainsType ==
  ASSUME SplitType, NEW s \in SUBSET Positive, s # {}, NEW a \in Addresses
  PROVE  /\ GrainsOf(a, s) \in Nat
         /\ GrainsOf(a, s) * TotalOf(s) =< reward * weight[a]
<1>1. TotalOf(s) \in Nat \ {0} /\ reward * weight[a] \in Nat
  BY Totals DEF SplitType
<1> QED
  BY <1>1, Quotient DEF GrainsOf

(***************************************************************************)
(* Rounding down never gives away more than there is.                      *)
(***************************************************************************)
LEMMA GrainsSuffice ==
  ASSUME SplitType, NEW s \in SUBSET Positive, s # {}
  PROVE  SumOf([a \in s |-> GrainsOf(a, s)], s) =< reward
<1> DEFINE f == [a \in s |-> GrainsOf(a, s)]
           T == TotalOf(s)
           Good(r) == SumOf(f, r) * T =< reward * TotalOf(r)
           Bad == {n \in Nat : \E r \in SUBSET s : Cardinality(r) = n /\ ~Good(r)}
<1>1. s \in SUBSET Addresses /\ reward \in Nat /\ T \in Nat \ {0}
  BY Totals DEF SplitType, Positive
<1>2. \A a \in s : /\ f[a] = GrainsOf(a, s) /\ f[a] \in Nat /\ weight[a] \in Nat
                   /\ f[a] * T =< reward * weight[a]
  BY <1>1, GrainsType DEF SplitType
<1>3. ASSUME NEW r \in SUBSET s
      PROVE  /\ IsFiniteSet(r) /\ Cardinality(r) \in Nat
             /\ SumOf(f, r) \in Nat /\ TotalOf(r) \in Nat
             /\ r = {} => SumOf(f, r) = 0
             /\ \A a \in r : /\ SumOf(f, r) = f[a] + SumOf(f, r \ {a})
                             /\ TotalOf(r) = weight[a] + TotalOf(r \ {a})
  <2>1. IsFiniteSet(r) /\ Cardinality(r) \in Nat
    BY <1>1, FiniteSets
  <2>2. (\A a \in r : f[a] \in Nat) /\ (\A a \in r : weight[a] \in Nat)
    BY <1>2
  <2> HIDE DEF f
  <2>3. /\ SumOf(f, r) \in Nat
        /\ r = {} => SumOf(f, r) = 0
        /\ \A a \in r : SumOf(f, r) = f[a] + SumOf(f, r \ {a})
    BY <2>1, <2>2, Sums
  <2>4. /\ SumOf(weight, r) \in Nat
        /\ \A a \in r : SumOf(weight, r) = weight[a] + SumOf(weight, r \ {a})
    BY <2>1, <2>2, Sums
  <2>5. r \in SUBSET Addresses /\ \A a \in r : r \ {a} \in SUBSET Addresses
    BY <1>1
  <2>6. TotalOf(r) = SumOf(weight, r) /\ \A a \in r : TotalOf(r \ {a}) = SumOf(weight, r \ {a})
    BY <2>5, Totals
  <2> QED
    BY <2>1, <2>3, <2>4, <2>6
<1> HIDE DEF f, T
<1>4. Bad = {}
  <2>1. SUFFICES ASSUME Bad # {} PROVE FALSE
    BY <2>1
  <2>2. PICK n \in Bad : \A k \in Bad : n =< k
    BY <2>1, LeastNat
  <2>3. PICK r \in SUBSET s : Cardinality(r) = n /\ ~Good(r)
    BY <2>2
  <2>4. r # {}
    BY <1>1, <1>3, <2>3
  <2>5. PICK a \in r : TRUE
    BY <2>4
  <2> DEFINE q == r \ {a}
  <2>6. q \in SUBSET s
    OBVIOUS
  <2>7. Cardinality(q) = n - 1 /\ n - 1 \in Nat
    BY <1>3, <2>3, OneLess
  <2>8. SumOf(f, q) * T =< reward * TotalOf(q)
    BY <2>2, <2>6, <2>7
  <2>9. /\ SumOf(f, r) = f[a] + SumOf(f, q)
        /\ TotalOf(r) = weight[a] + TotalOf(q)
        /\ SumOf(f, q) \in Nat /\ TotalOf(q) \in Nat
    BY <1>3, <2>6
  <2>10. f[a] \in Nat /\ weight[a] \in Nat /\ f[a] * T =< reward * weight[a]
    BY <1>2
  <2> HIDE DEF q
  <2>11. SumOf(f, r) * T = f[a] * T + SumOf(f, q) * T
    BY <1>1, <2>9, <2>10
  <2>12. reward * TotalOf(r) = reward * weight[a] + reward * TotalOf(q)
    BY <1>1, <2>9, <2>10
  <2>13. /\ f[a] * T \in Nat /\ SumOf(f, q) * T \in Nat
         /\ reward * weight[a] \in Nat /\ reward * TotalOf(q) \in Nat
    BY <1>1, <2>9, <2>10
  <2> QED
    BY <2>3, <2>8, <2>10, <2>11, <2>12, <2>13
<1>5. SumOf(f, s) * T =< reward * T
  BY <1>3, <1>4 DEF T
<1>6. ASSUME ~(SumOf(f, s) =< reward) PROVE FALSE
  <2>1. SumOf(f, s) \in Nat
    BY <1>3
  <2>2. (reward + 1) * T =< SumOf(f, s) * T
    BY <1>1, <1>6, <2>1, ProductGrows
  <2>3. (reward + 1) * T = reward * T + T
    BY <1>1
  <2>4. reward * T \in Nat /\ SumOf(f, s) * T \in Nat
    BY <1>1, <2>1
  <2> QED
    BY <1>1, <1>5, <2>2, <2>3, <2>4
<1> QED
  BY <1>6 DEF f

(* Survivors who outlive the others are the heaviest addresses. *)
LEMMA TopIsHeaviest ==
  ASSUME SplitType, TopSurvives
  PROVE  Heaviest(Cardinality(survivors)) = survivors
<1> DEFINE Above(a) == {b \in Positive : Outlives(b, a)}
<1>1. Positive \in SUBSET Addresses /\ survivors \in SUBSET Addresses
  BY DEF Positive, SplitType
<1>2. IsFiniteSet(survivors) /\ Cardinality(survivors) \in Nat
  BY <1>1, FiniteSets
<1>3. ASSUME NEW a \in survivors PROVE Cardinality(Above(a)) < Cardinality(survivors)
  <2>1. Above(a) \subseteq survivors \ {a}
    BY <1>1, OrderIsTotal DEF TopSurvives
  <2>2. IsFiniteSet(survivors \ {a}) /\ Cardinality(survivors \ {a}) = Cardinality(survivors) - 1
    BY <1>2, OneLess
  <2>3. Cardinality(Above(a)) =< Cardinality(survivors \ {a})
    BY <2>1, <2>2, FS_Subset
  <2>4. Cardinality(Above(a)) \in Nat
    BY <1>1, FiniteSets
  <2> QED
    BY <1>2, <2>2, <2>3, <2>4
<1>4. ASSUME NEW a \in Positive, a \notin survivors
      PROVE  Cardinality(survivors) =< Cardinality(Above(a))
  <2>1. survivors \subseteq Above(a)
    BY <1>1, <1>4, OrderIsTotal DEF TopSurvives, SplitType
  <2>2. Above(a) \in SUBSET Addresses
    BY <1>1
  <2>3. IsFiniteSet(Above(a))
    BY <2>2, FiniteSets
  <2> HIDE DEF Above
  <2> QED
    BY <2>1, <2>3, FS_Subset
<1>5. \A a \in Positive : Above(a) \in SUBSET Addresses
  BY <1>1
<1>6. \A a \in Positive : Cardinality(Above(a)) \in Nat
  BY <1>5, FiniteSets
<1>7. \A a \in Positive : a \in survivors <=> Cardinality(Above(a)) < Cardinality(survivors)
  BY <1>2, <1>3, <1>4, <1>6
<1> QED
  BY <1>7 DEF Heaviest, SplitType

(* A survivor's grains are at least those of the worst. *)
LEMMA WorstHasLeast ==
  ASSUME SplitType, survivors # {}
  PROVE  \A a \in survivors : GrainsOf(a, survivors) >= GrainsOf(Worst(survivors), survivors)
<1>1. survivors \in SUBSET Addresses /\ survivors \in SUBSET Positive
  BY DEF Positive, SplitType
<1> DEFINE w == Worst(survivors)
<1>2. w \in survivors /\ \A b \in survivors \ {w} : Outlives(b, w)
  BY <1>1, Extremes
<1>3. TotalOf(survivors) \in Nat \ {0}
  BY <1>1, Totals
<1> HIDE DEF w
<1>4. ASSUME NEW a \in survivors PROVE GrainsOf(w, survivors) =< GrainsOf(a, survivors)
  <2>1. weight[w] \in Nat /\ weight[a] \in Nat /\ reward \in Nat
    BY <1>1, <1>2 DEF SplitType
  <2>2. weight[w] =< weight[a]
    BY <1>2, <2>1 DEF Outlives
  <2>3. reward * weight[w] =< reward * weight[a]
    <3>1. weight[w] * reward =< weight[a] * reward
      BY <2>1, <2>2, ProductGrows
    <3> QED
      BY <2>1, <3>1
  <2>4. reward * weight[w] \in Nat /\ reward * weight[a] \in Nat
    BY <2>1
  <2> QED
    BY <1>3, <2>3, <2>4, QuotientGrows DEF GrainsOf
<1>5. ASSUME NEW a \in survivors PROVE GrainsOf(a, survivors) \in Nat /\ GrainsOf(w, survivors) \in Nat
  BY <1>1, <1>2, GrainsType
<1> QED
  BY <1>4, <1>5 DEF w

-----------------------------------------------------------------------------
(* The loop and the payment *)

LEMMA SplitStarts ==
  ASSUME Init
  PROVE  SplitInv
<1>1. SplitType
  BY PplnsAssumption DEF Init, SplitType
<1>2. TopSurvives /\ SomeoneSurvives
  BY DEF Init, TopSurvives, SomeoneSurvives
<1>3. NoLargerClears
  <2>1. Positive \in SUBSET Addresses
    BY DEF Positive
  <2>2. Cardinality(Positive) \in Nat
    BY <2>1, FiniteSets
  <2> QED
    BY <2>2 DEF Init, NoLargerClears
<1>4. PaidToSurvivors
  BY DEF Init, PaidToSurvivors
<1> QED
  BY <1>1, <1>2, <1>3, <1>4 DEF SplitInv

LEMMA DropKeeps ==
  ASSUME SplitInv, DropWorst
  PROVE  SplitInv'
<1> DEFINE w == Worst(survivors)
           n == Cardinality(survivors)
<1>1. /\ reward' = reward /\ minimum' = minimum /\ weight' = weight /\ phase' = phase
      /\ payouts' = payouts /\ survivors' = survivors \ {w} /\ phase = "drop"
      /\ reward > 0 /\ n > 1 /\ GrainsOf(w, survivors) < minimum
  BY DEF DropWorst, MustDrop
<1>2. SplitType /\ TopSurvives /\ NoLargerClears
  BY DEF SplitInv
<1>3. survivors \in SUBSET Addresses /\ survivors \in SUBSET Positive
  BY <1>2 DEF SplitType, Positive
<1>4. IsFiniteSet(survivors) /\ n \in Nat
  BY <1>3, FiniteSets
<1>5. survivors # {}
  BY <1>1, FS_EmptySet
<1>6. w \in survivors /\ \A b \in survivors \ {w} : Outlives(b, w)
  BY <1>2, <1>3, <1>5, Extremes
<1>7. Cardinality(survivors') = n - 1
  BY <1>1, <1>4, <1>6, OneLess
<1>8. Positive' = Positive
  BY <1>1 DEF Positive
<1>9. SplitType'
  BY <1>1, <1>2, <1>8 DEF SplitType
<1>10. TopSurvives'
  <2> SUFFICES ASSUME NEW a \in survivors', NEW b \in Positive, Outlives(b, a)
               PROVE  b \in survivors'
    BY <1>1, <1>8 DEF TopSurvives, Outlives
  <2>1. a \in survivors /\ a # w /\ b \in survivors
    BY <1>1, <1>2 DEF TopSurvives
  <2>2. Outlives(a, w)
    BY <1>6, <2>1
  <2>3. b # w
    BY <1>2, <1>3, <2>1, <2>2, OrderIsTotal
  <2> QED
    BY <1>1, <2>1, <2>3
<1>11. SomeoneSurvives'
  BY <1>1, <1>4, <1>7, FS_EmptySet DEF SomeoneSurvives
<1>12. NoLargerClears'
  <2>1. \A k : Heaviest(k)' = Heaviest(k)
    BY <1>1, <1>8 DEF Heaviest, Outlives
  <2>2. \A s : Clears(s)' <=> Clears(s)
    BY <1>1 DEF Clears, GrainsOf, TotalOf, MapThenSumSet, MapThenFoldSet
  <2>3. ~Clears(Heaviest(n))
    <3>1. Heaviest(n) = survivors
      BY <1>2, TopIsHeaviest
    <3>2. GrainsOf(w, survivors) \in Nat /\ minimum \in Nat
      BY <1>2, <1>3, <1>5, <1>6, GrainsType DEF SplitType
    <3>3. ~Clears(survivors)
      BY <1>1, <1>6, <3>2 DEF Clears
    <3> QED
      BY <3>1, <3>3
  <2>4. \A k \in 2..Cardinality(Positive) : k > n - 1 => ~Clears(Heaviest(k))
    BY <1>1, <1>2, <1>4, <2>3 DEF NoLargerClears
  <2>5. \A k \in 2..Cardinality(Positive) : k > n - 1 => ~Clears(Heaviest(k))'
    BY <2>1, <2>2, <2>4
  <2> HIDE DEF n
  <2> QED
    BY <1>7, <1>8, <2>5 DEF NoLargerClears
<1>13. PaidToSurvivors'
  BY <1>1 DEF PaidToSurvivors, SplitInv
<1> QED
  BY <1>9, <1>10, <1>11, <1>12, <1>13 DEF SplitInv

LEMMA PayKeeps ==
  ASSUME SplitInv, Pay
  PROVE  SplitInv'
<1>1. /\ reward' = reward /\ minimum' = minimum /\ weight' = weight /\ survivors' = survivors
      /\ phase' = "paid" /\ ~MustDrop
      /\ payouts' = IF survivors = {} \/ reward = 0 THEN [a \in {} |-> 0] ELSE Paid(survivors)
  BY DEF Pay
<1>2. Positive' = Positive
  BY <1>1 DEF Positive
<1>3. \A s : TotalOf(s)' = TotalOf(s)
  BY <1>1 DEF TotalOf, MapThenSumSet, MapThenFoldSet
<1>4. \A a, s : GrainsOf(a, s)' = GrainsOf(a, s)
  BY <1>1, <1>3 DEF GrainsOf
<1>5. /\ \A s : Clears(s)' <=> Clears(s)
      /\ \A k : Heaviest(k)' = Heaviest(k)
      /\ \A s : Worst(s)' = Worst(s) /\ FirstOf(s)' = FirstOf(s) /\ LastOf(s)' = LastOf(s)
  BY <1>1, <1>2, <1>4 DEF Clears, Heaviest, Outlives, Worst, FirstOf, LastOf, Before
<1>6. MustDrop' <=> MustDrop
  BY <1>1, <1>4, <1>5 DEF MustDrop
<1>7. Split(survivors)' = Split(survivors)
  BY <1>1 DEF Split, LastOf, Before, GrainsOf, TotalOf, MapThenSumSet, MapThenFoldSet
<1>8. Paid(survivors)' = Paid(survivors)
  BY <1>1, <1>4, <1>5, <1>7 DEF Paid
<1>9. SplitType' /\ TopSurvives' /\ SomeoneSurvives' /\ NoLargerClears'
  BY <1>1, <1>2, <1>5
     DEF SplitInv, SplitType, TopSurvives, SomeoneSurvives, NoLargerClears, Outlives
<1>10. PaidToSurvivors'
  BY <1>1, <1>2, <1>6, <1>8 DEF SplitInv, PaidToSurvivors, SomeoneSurvives, SplitType
<1> QED
  BY <1>9, <1>10 DEF SplitInv

(* The split of a set of addresses: what each gets, and what it adds up to. *)
LEMMA SplitExact ==
  ASSUME SplitType, NEW s \in SUBSET Positive, s # {}
  PROVE  /\ DOMAIN Split(s) = s
         /\ SumOf(Split(s), s) = reward
         /\ \A a \in s : /\ GrainsOf(a, s) \in Nat /\ Split(s)[a] \in Nat
                         /\ Split(s)[a] >= GrainsOf(a, s)
<1> DEFINE last == LastOf(s)
           f == [a \in s |-> GrainsOf(a, s)]
           others == SumOf(f, s \ {last})
           p == Split(s)
<1>1. s \in SUBSET Addresses /\ reward \in Nat
  BY DEF SplitType, Positive
<1>2. last \in s
  BY <1>1, Extremes
<1>3. \A a \in s : f[a] = GrainsOf(a, s) /\ f[a] \in Nat
  BY <1>1, GrainsType
<1>4. IsFiniteSet(s) /\ IsFiniteSet(s \ {last})
  BY <1>1, <1>2, FiniteSets, OneLess
<1>5. p = [a \in s |-> IF a = last THEN reward - others ELSE GrainsOf(a, s)]
  <2> DEFINE c == [a \in s \ {last} |-> GrainsOf(a, s)]
             sum == MapThenSumSet(LAMBDA a : GrainsOf(a, s), s \ {last})
  <2>1. p = [a \in s |-> IF a = last THEN reward - sum ELSE GrainsOf(a, s)]
    BY DEF Split
  <2>2. sum = others
    <3> HIDE DEF last
    <3> DEFINE ids == s \ {last}
               E(g) == [t \in SUBSET ids |-> IF t = {} THEN 0
                           ELSE GrainsOf(Pick(t), s) + g[t \ {Pick(t)}]]
               F(g) == [t \in SUBSET ids |-> SumStep(f, g, t)]
    <3>1. ASSUME NEW g PROVE E(g) = F(g)
      <4>1. ASSUME NEW t \in SUBSET ids, t # {} PROVE GrainsOf(Pick(t), s) = f[Pick(t)]
        <5>1. Pick(t) \in t
          BY <4>1 DEF Pick
        <5> QED
          BY <4>1, <5>1
      <4>2. \A t \in SUBSET ids :
               (IF t = {} THEN 0 ELSE GrainsOf(Pick(t), s) + g[t \ {Pick(t)}]) = SumStep(f, g, t)
        <5> HIDE DEF f
        <5> QED
          BY <4>1 DEF SumStep
      <4> QED
        BY <4>2
    <3>2. (CHOOSE g : g = E(g)) = (CHOOSE g : g = F(g))
      <4> HIDE DEF E, F
      <4>1. \A g : g = E(g) <=> g = F(g)
        BY <3>1
      <4> QED
        BY <4>1
    <3>3. sum = (CHOOSE g : g = E(g))[ids]
      BY DEF MapThenSumSet, MapThenFoldSet, Pick
    <3>4. others = (CHOOSE g : g = F(g))[ids]
      BY DEF SumOf, MapThenSumSet, MapThenFoldSet, SumStep, Pick
    <3> QED
      BY <3>2, <3>3, <3>4
  <2> QED
    BY <2>1, <2>2
<1>6. SumOf(f, s) =< reward
  BY GrainsSuffice
<1> HIDE DEF last, f, p
<1>7. others \in Nat /\ SumOf(f, s) = f[last] + others
  BY <1>2, <1>3, <1>4, Sums
<1>8. f[last] \in Nat /\ reward - others \in Nat /\ reward - others >= f[last]
  BY <1>1, <1>2, <1>3, <1>6, <1>7
<1>9. \A a \in s : p[a] \in Nat /\ p[a] >= GrainsOf(a, s)
  BY <1>3, <1>5, <1>8
<1>10. SumOf(p, s) = p[last] + SumOf(p, s \ {last})
  BY <1>2, <1>4, <1>9, Sums
<1>11. SumOf(p, s \ {last}) = others
  <2>1. \A a \in s \ {last} : p[a] = f[a]
    BY <1>3, <1>5
  <2> QED
    BY <2>1, SumSame
<1>12. p[last] = reward - others
  BY <1>2, <1>5
<1>13. SumOf(p, s) = reward
  BY <1>1, <1>7, <1>10, <1>11, <1>12
<1>14. DOMAIN p = s
  BY <1>5
<1> QED
  BY <1>3, <1>9, <1>13, <1>14 DEF p

(* What the survivors are paid, in either case. *)
LEMMA PaidExact ==
  ASSUME SplitType, NEW s \in SUBSET Positive, s # {}
  PROVE  /\ DOMAIN Paid(s) \subseteq s
         /\ SumOf(Paid(s), DOMAIN Paid(s)) = reward
         /\ \A a \in DOMAIN Paid(s) : /\ GrainsOf(a, s) \in Nat /\ Paid(s)[a] \in Nat
                                     /\ Paid(s)[a] >= GrainsOf(a, s)
<1> DEFINE first == FirstOf(s)
<1>1. s \in SUBSET Addresses /\ reward \in Nat
  BY DEF SplitType, Positive
<1>2. first \in s
  BY <1>1, Extremes
<1> HIDE DEF first
<1>3. CASE Paid(s) = Split(s)
  BY <1>3, SplitExact
<1>4. CASE Paid(s) = [a \in {first} |-> reward]
  <2> DEFINE p == [a \in {first} |-> reward]
  <2>1. DOMAIN p = {first} /\ p[first] = reward
    OBVIOUS
  <2> HIDE DEF p
  <2>2. \A a \in {first} : p[a] \in Nat
    BY <1>1, <2>1
  <2>3. IsFiniteSet({first}) /\ IsFiniteSet({})
    BY FS_Singleton, FS_EmptySet
  <2>4. SumOf(p, {first}) = p[first] + SumOf(p, {first} \ {first})
    BY <2>2, <2>3, Sums
  <2>5. \A a \in {} : p[a] \in Nat
    OBVIOUS
  <2>6. SumOf(p, {}) = 0
    BY <2>3, <2>5, Sums
  <2>7. {first} \ {first} = {}
    OBVIOUS
  <2>8. SumOf(p, {first}) = reward
    BY <1>1, <2>1, <2>4, <2>6, <2>7
  <2>9. GrainsOf(first, s) \in Nat
    BY <1>1, <1>2, GrainsType
  <2>10. GrainsOf(first, s) =< reward
    <3> DEFINE f == [a \in s |-> GrainsOf(a, s)]
    <3>1. SumOf(f, s) =< reward
      BY GrainsSuffice
    <3>2. \A a \in s : f[a] \in Nat
      BY <1>1, GrainsType
    <3>3. f[first] = GrainsOf(first, s)
      BY <1>2
    <3> HIDE DEF f
    <3>4. IsFiniteSet(s) /\ IsFiniteSet(s \ {first})
      BY <1>1, <1>2, FiniteSets, OneLess
    <3>5. SumOf(f, s) = f[first] + SumOf(f, s \ {first})
      BY <1>2, <3>2, <3>4, Sums
    <3>6. SumOf(f, s \ {first}) \in Nat
      BY <3>2, <3>4, Sums
    <3> QED
      BY <1>1, <2>9, <3>1, <3>3, <3>5, <3>6
  <2>11. Paid(s) = p
    BY <1>4 DEF p
  <2> QED
    BY <1>1, <1>2, <2>1, <2>8, <2>9, <2>10, <2>11
<1> QED
  BY <1>3, <1>4 DEF Paid, first

(* Exact, to as many as clear the minimum, and in proportion. *)
LEMMA SplitCorrect ==
  ASSUME SplitInv
  PROVE  PaysExactly /\ NobodyDroppedInVain /\ PaidInProportion
<1> DEFINE n == Cardinality(survivors)
<1>1. /\ SplitType /\ TopSurvives /\ SomeoneSurvives
      /\ NoLargerClears /\ PaidToSurvivors
  BY DEF SplitInv
<1>2. /\ survivors \in SUBSET Positive /\ survivors \in SUBSET Addresses
      /\ Positive \in SUBSET Addresses /\ reward \in Nat /\ minimum \in Nat
  BY <1>1 DEF SplitType, Positive
<1>3. payouts = [a \in {} |-> 0] \/ (survivors # {} /\ payouts = Paid(survivors))
  BY <1>1 DEF PaidToSurvivors, SomeoneSurvives, SplitType
<1>4. PaysExactly
  <2> SUFFICES ASSUME phase = "paid", Positive # {}
               PROVE  SumOf(payouts, DOMAIN payouts) = reward
    BY DEF PaysExactly, SumOf, MapThenSumSet, MapThenFoldSet
  <2>1. CASE reward = 0
    <3>1. payouts = [a \in {} |-> 0]
      BY <1>1, <2>1 DEF PaidToSurvivors
    <3>2. DOMAIN payouts = {} /\ \A a \in {} : payouts[a] \in Nat
      BY <3>1
    <3>3. IsFiniteSet({})
      BY FS_EmptySet
    <3>4. SumOf(payouts, {}) = 0
      BY <3>2, <3>3, Sums
    <3> QED
      BY <2>1, <3>2, <3>4
  <2>2. CASE reward > 0
    <3>1. survivors # {} /\ payouts = Paid(survivors)
      BY <1>1, <2>2 DEF PaidToSurvivors, SomeoneSurvives
    <3> QED
      BY <1>1, <1>2, <3>1, PaidExact
  <2> QED
    BY <1>2, <2>1, <2>2
<1>5. PaidInProportion
  <2> SUFFICES ASSUME NEW a \in DOMAIN payouts PROVE payouts[a] >= GrainsOf(a, Positive)
    BY DEF PaidInProportion
  <2>1. survivors # {} /\ payouts = Paid(survivors)
    BY <1>3
  <2>2. /\ a \in survivors /\ GrainsOf(a, survivors) \in Nat /\ payouts[a] \in Nat
        /\ payouts[a] >= GrainsOf(a, survivors)
    BY <1>1, <1>2, <2>1, PaidExact
  <2>3. Positive # {} /\ Positive \in SUBSET Positive
    BY <1>2, <2>1
  <2>4. TotalOf(survivors) \in Nat \ {0} /\ TotalOf(Positive) \in Nat \ {0}
    BY <1>1, <1>2, <2>1, <2>3, Totals
  <2>5. TotalOf(survivors) =< TotalOf(Positive)
    BY <1>1, <1>2, Totals
  <2>6. reward * weight[a] \in Nat
    BY <1>1, <1>2, <2>2 DEF SplitType
  <2>7. GrainsOf(a, Positive) =< GrainsOf(a, survivors)
    BY <2>4, <2>5, <2>6, QuotientShrinks DEF GrainsOf
  <2>8. GrainsOf(a, Positive) \in Nat
    BY <1>1, <1>2, <2>2, <2>3, GrainsType
  <2> QED
    BY <2>2, <2>7, <2>8
<1>6. NobodyDroppedInVain
  <2> SUFFICES ASSUME phase = "paid", reward > 0, Positive # {}
               PROVE  survivors = LargestClearing
    BY DEF NobodyDroppedInVain
  <2> DEFINE sizes == {k \in 2..Cardinality(Positive) : Clears(Heaviest(k))}
  <2>1. survivors # {} /\ ~MustDrop
    BY <1>1 DEF SomeoneSurvives, PaidToSurvivors
  <2>2. IsFiniteSet(survivors) /\ n \in Nat /\ Cardinality(Positive) \in Nat /\ IsFiniteSet(Positive)
    BY <1>2, FiniteSets
  <2>3. n # 0 /\ n =< Cardinality(Positive)
    BY <1>2, <2>1, <2>2, FS_EmptySet, FS_Subset
  <2>4. Heaviest(n) = survivors
    BY <1>1, TopIsHeaviest
  <2>5. \A k \in sizes : k =< n
    BY <1>1, <2>2 DEF NoLargerClears
  <2>6. CASE n = 1
    <3>1. sizes = {}
      BY <2>5, <2>6
    <3> QED
      BY <2>4, <2>6, <3>1 DEF LargestClearing
  <2>7. CASE n > 1
    <3>1. GrainsOf(Worst(survivors), survivors) >= minimum
      <4>1. Worst(survivors) \in survivors
        BY <1>1, <1>2, <2>1, Extremes
      <4>2. GrainsOf(Worst(survivors), survivors) \in Nat
        BY <1>1, <1>2, <2>1, <4>1, GrainsType
      <4> QED
        BY <1>2, <2>1, <2>7, <4>2 DEF MustDrop
    <3>2. Clears(survivors)
      <4>1. ASSUME NEW a \in survivors PROVE GrainsOf(a, survivors) >= minimum
        <5>1. GrainsOf(a, survivors) >= GrainsOf(Worst(survivors), survivors)
          BY <1>1, <2>1, WorstHasLeast
        <5>2. Worst(survivors) \in survivors
          BY <1>1, <1>2, <2>1, Extremes
        <5>3. GrainsOf(a, survivors) \in Nat /\ GrainsOf(Worst(survivors), survivors) \in Nat
          BY <1>1, <1>2, <2>1, <5>2, GrainsType
        <5> QED
          BY <1>2, <3>1, <5>1, <5>3
      <4> QED
        BY <4>1 DEF Clears
    <3>3. n \in sizes
      BY <2>2, <2>3, <2>4, <2>7, <3>2
    <3>4. Max(sizes) = n
      <4>1. \A k \in sizes : k \in Nat
        BY <2>2
      <4> HIDE DEF sizes, n
      <4>2. \A k \in sizes : n >= k
        BY <2>2, <2>5, <4>1
      <4>3. \E x \in sizes : \A y \in sizes : x >= y
        BY <3>3, <4>2
      <4>4. Max(sizes) \in sizes /\ Max(sizes) >= n
        BY <3>3, <4>3 DEF Max
      <4> QED
        BY <2>2, <2>5, <4>1, <4>4
    <3> QED
      BY <2>4, <3>3, <3>4 DEF LargestClearing
  <2> QED
    BY <2>2, <2>3, <2>6, <2>7
<1> QED
  BY <1>4, <1>5, <1>6

-----------------------------------------------------------------------------
(* The rate gate *)

Entry == [kind : Kinds \cup {Gate!Free}, at : Nat, verdict : {"served", "ignored", "flood"}]

(* The requests of a kind that were served from one time on, and before one *)
ServedFrom(s, kind, from) ==
    {j \in DOMAIN s : s[j].kind = kind /\ s[j].verdict = "served" /\ s[j].at >= from}
ServedBetween(s, kind, after, before) ==
    {j \in DOMAIN s : /\ s[j].kind = kind /\ s[j].verdict = "served"
                      /\ s[j].at > after /\ s[j].at < before}

GateType ==
    /\ clock \in Nat /\ strikes \in Nat
    /\ buckets \in [Kinds -> [start : Int, count : Nat]]
    /\ log \in Seq(Entry)

(* Nothing was read, and no window started, in the future. *)
InThePast ==
    /\ \A j \in DOMAIN log : log[j].at =< clock
    /\ \A kind \in Kinds : buckets[kind].start =< clock

(* A window counts what was served in it, and holds no more than the limit. *)
WindowsCount ==
    \A kind \in Kinds :
        /\ buckets[kind].count = Cardinality(ServedFrom(log, kind, buckets[kind].start))
        /\ buckets[kind].count =< Limit[kind]

(* What was served in a window came before its end. *)
WindowsEnd ==
    \A kind \in Kinds : \A j \in ServedFrom(log, kind, buckets[kind].start) :
        log[j].at < buckets[kind].start + WindowSize

(* The request that starts a window is served. *)
WindowsStart ==
    \A kind \in Kinds :
        \/ buckets[kind] = Gate!NoBucket
        \/ \E j \in ServedFrom(log, kind, buckets[kind].start) : log[j].at = buckets[kind].start

(* Short of a window's length before the present one, less than the limit was served. *)
CarryBounded ==
    \A kind \in Kinds :
        Cardinality(ServedBetween(log, kind, buckets[kind].start - WindowSize, buckets[kind].start))
            < Limit[kind]

Windows == WindowsCount /\ WindowsEnd /\ WindowsStart /\ CarryBounded

GateInv ==
    /\ GateType /\ InThePast /\ Windows
    /\ Gate!IgnoredOnlyOverLimit /\ Gate!ServedLessThanTwice

LEMMA GateFacts ==
  /\ WindowSize \in Nat \ {0} /\ Limit \in [Kinds -> Nat \ {0}]
  /\ Gate!Free \notin Kinds
BY GateAssumption DEF Gate!Free

(* Sets of messages are finite. *)
LEMMA LogFinite ==
  ASSUME NEW s \in Seq(Entry), NEW t \in SUBSET DOMAIN s
  PROVE  IsFiniteSet(t) /\ Cardinality(t) \in Nat
<1>1. DOMAIN s = 1..Len(s) /\ Len(s) \in Nat
  OBVIOUS
<1>2. IsFiniteSet(1..Len(s))
  BY <1>1, FS_Interval
<1> QED
  BY <1>1, <1>2, FS_Subset, FS_CardinalityType

LEMMA EntryTimes ==
  /\ \A e \in Entry : e.at \in Nat
  /\ \A s \in Seq(Entry) : \A j \in DOMAIN s : s[j] \in Entry /\ s[j].at \in Nat
<1>1. \A e \in Entry : e.at \in Nat
  BY DEF Entry
<1>2. \A s \in Seq(Entry) : \A j \in DOMAIN s : s[j] \in Entry
  OBVIOUS
<1> QED
  BY <1>1, <1>2

(* One more message *)
LEMMA OneMore ==
  ASSUME NEW s \in Seq(Entry), NEW e \in Entry
  PROVE  /\ Append(s, e) \in Seq(Entry)
         /\ DOMAIN Append(s, e) = DOMAIN s \cup {Len(s) + 1} /\ Len(s) + 1 \notin DOMAIN s
         /\ Append(s, e)[Len(s) + 1] = e /\ \A j \in DOMAIN s : Append(s, e)[j] = s[j]
OBVIOUS

(* ... as those see it that were served from one time on *)
LEMMA ServedAfter ==
  ASSUME NEW s \in Seq(Entry), NEW e \in Entry, NEW kind, NEW from \in Int
  PROVE  ServedFrom(Append(s, e), kind, from) =
             IF e.kind = kind /\ e.verdict = "served" /\ e.at >= from
             THEN ServedFrom(s, kind, from) \cup {Len(s) + 1}
             ELSE ServedFrom(s, kind, from)
<1> DEFINE t == Append(s, e)
<1>1. /\ DOMAIN t = DOMAIN s \cup {Len(s) + 1}
      /\ t[Len(s) + 1] = e /\ \A j \in DOMAIN s : t[j] = s[j]
  BY OneMore
<1> HIDE DEF t
<1>2. ServedFrom(t, kind, from) =
          IF e.kind = kind /\ e.verdict = "served" /\ e.at >= from
          THEN ServedFrom(s, kind, from) \cup {Len(s) + 1}
          ELSE ServedFrom(s, kind, from)
  BY <1>1 DEF ServedFrom
<1> QED
  BY <1>2 DEF t

(* ... and as those that were served before another *)
LEMMA ServedBefore ==
  ASSUME NEW s \in Seq(Entry), NEW e \in Entry, NEW kind, NEW after \in Int, NEW before \in Int,
         e.at >= before \/ e.kind # kind \/ e.verdict # "served"
  PROVE  ServedBetween(Append(s, e), kind, after, before) = ServedBetween(s, kind, after, before)
<1> DEFINE t == Append(s, e)
<1>1. /\ DOMAIN t = DOMAIN s \cup {Len(s) + 1}
      /\ t[Len(s) + 1] = e /\ \A j \in DOMAIN s : t[j] = s[j]
  BY OneMore
<1>2. e.at \in Nat
  BY EntryTimes
<1> HIDE DEF t
<1>3. ~(e.kind = kind /\ e.verdict = "served" /\ e.at < before)
  BY <1>2
<1>4. ServedBetween(t, kind, after, before) = ServedBetween(s, kind, after, before)
  BY <1>1, <1>3 DEF ServedBetween
<1> QED
  BY <1>4 DEF t

(* Within the length of a window less than twice the limit is served. *)
LEMMA RecentBounded ==
  ASSUME NEW s \in Seq(Entry), NEW kind, NEW start \in Int, NEW now \in Nat, start =< now,
         NEW limit \in Nat,
         Cardinality(ServedFrom(s, kind, start)) =< limit,
         Cardinality(ServedBetween(s, kind, start - WindowSize, start)) < limit,
         NEW t \in SUBSET ServedFrom(s, kind, now - WindowSize + 1)
  PROVE  Cardinality(t) < 2 * limit
<1> DEFINE carried == ServedBetween(s, kind, start - WindowSize, start)
           present == ServedFrom(s, kind, start)
<1>1. WindowSize \in Nat \ {0}
  BY GateFacts
<1>2. /\ carried \in SUBSET DOMAIN s /\ present \in SUBSET DOMAIN s /\ t \in SUBSET DOMAIN s
      /\ Cardinality(present) =< limit /\ Cardinality(carried) < limit
  BY DEF ServedFrom, ServedBetween
<1>3. t \subseteq carried \cup present
  <2> SUFFICES ASSUME NEW j \in t PROVE j \in carried \cup present
    OBVIOUS
  <2>1. /\ j \in DOMAIN s /\ s[j].kind = kind /\ s[j].verdict = "served"
        /\ s[j].at >= now - WindowSize + 1
    BY DEF ServedFrom
  <2>2. s[j].at \in Nat
    BY <2>1, EntryTimes
  <2>3. CASE s[j].at >= start
    BY <2>1, <2>3 DEF ServedFrom
  <2>4. CASE s[j].at < start
    <3>1. s[j].at > start - WindowSize
      BY <1>1, <2>1, <2>2
    <3> QED
      BY <2>1, <2>4, <3>1 DEF ServedBetween
  <2> QED
    BY <2>2, <2>3, <2>4
<1> HIDE DEF carried, present
<1>4. /\ IsFiniteSet(carried) /\ Cardinality(carried) \in Nat
      /\ IsFiniteSet(present) /\ Cardinality(present) \in Nat
      /\ Cardinality(t) \in Nat
  BY <1>2, LogFinite
<1>5. /\ IsFiniteSet(carried \cup present)
      /\ Cardinality(carried \cup present)
           = Cardinality(carried) + Cardinality(present) - Cardinality(carried \cap present)
  BY <1>4, FS_Union
<1>6. Cardinality(carried \cap present) \in Nat
  BY <1>4, FS_Intersection, FS_CardinalityType
<1>7. Cardinality(t) =< Cardinality(carried \cup present)
  BY <1>3, <1>5, FS_Subset
<1> QED
  BY <1>2, <1>4, <1>5, <1>6, <1>7

-----------------------------------------------------------------------------
(* How a message changes the windows *)

(* A message that no window counts *)
Uncounted(e) == buckets' = buckets /\ (e.kind \notin Kinds \/ e.verdict # "served")

(* A request that starts a window *)
StartsWindow(e) ==
    /\ e.kind \in Kinds /\ e.verdict = "served"
    /\ clock >= buckets[e.kind].start + WindowSize
    /\ buckets' = [buckets EXCEPT ![e.kind] = [start |-> clock, count |-> 1]]

(* A request that its window has room for *)
FitsWindow(e) ==
    /\ e.kind \in Kinds /\ e.verdict = "served"
    /\ clock < buckets[e.kind].start + WindowSize
    /\ buckets[e.kind].count < Limit[e.kind]
    /\ buckets' = [buckets EXCEPT ![e.kind].count = @ + 1]

Reads(e) ==
    /\ e \in Entry /\ e.at = clock
    /\ log' = Append(log, e) /\ clock' = clock

(* The windows of a kind, at a log and a window *)
WindowFits(s, kind, b) ==
    /\ b.count = Cardinality(ServedFrom(s, kind, b.start)) /\ b.count =< Limit[kind]
    /\ \A j \in ServedFrom(s, kind, b.start) : s[j].at < b.start + WindowSize
    /\ \/ b = Gate!NoBucket
       \/ \E j \in ServedFrom(s, kind, b.start) : s[j].at = b.start
    /\ Cardinality(ServedBetween(s, kind, b.start - WindowSize, b.start)) < Limit[kind]

LEMMA WindowsFit ==
  /\ Windows <=> \A kind \in Kinds : WindowFits(log, kind, buckets[kind])
  /\ Windows' <=> \A kind \in Kinds : WindowFits(log', kind, buckets'[kind])
BY DEF Windows, WindowFits, WindowsCount, WindowsEnd, WindowsStart, CarryBounded

(* A window is as it was after a message of another kind, or one not served. *)
LEMMA OtherWindow ==
  ASSUME NEW s \in Seq(Entry), NEW e \in Entry, NEW kind \in Kinds, NEW b,
         b.start \in Int, WindowFits(s, kind, b), e.kind # kind \/ e.verdict # "served"
  PROVE  WindowFits(Append(s, e), kind, b)
<1>1. b.start - WindowSize \in Int
  BY GateFacts
<1>2. ServedFrom(Append(s, e), kind, b.start) = ServedFrom(s, kind, b.start)
  BY ServedAfter
<1>4. ServedBetween(Append(s, e), kind, b.start - WindowSize, b.start)
        = ServedBetween(s, kind, b.start - WindowSize, b.start)
  BY <1>1, ServedBefore
<1>3. \A j \in ServedFrom(s, kind, b.start) : Append(s, e)[j] = s[j]
  BY OneMore DEF ServedFrom
<1> QED
  BY <1>2, <1>3, <1>4 DEF WindowFits

(* A request that starts a window finds none served in it. *)
LEMMA NewWindow ==
  ASSUME NEW s \in Seq(Entry), NEW e \in Entry, NEW kind \in Kinds,
         NEW b \in [start : Int, count : Nat], WindowFits(s, kind, b),
         e.kind = kind, e.verdict = "served", e.at >= b.start + WindowSize
  PROVE  WindowFits(Append(s, e), kind, [start |-> e.at, count |-> 1])
<1> DEFINE t == Append(s, e)
           n == Len(s) + 1
           old == ServedFrom(s, kind, b.start)
           recent == ServedBetween(s, kind, e.at - WindowSize, e.at)
<1>1. /\ WindowSize \in Nat \ {0} /\ Limit[kind] \in Nat \ {0}
      /\ e.at \in Nat /\ b.start \in Int /\ b.count \in Nat
      /\ \A j \in DOMAIN s : s[j].at \in Nat
  BY GateFacts, EntryTimes
<1>2. /\ b.count = Cardinality(old) /\ b.count =< Limit[kind]
      /\ \A j \in old : s[j].at < b.start + WindowSize
      /\ \/ b = Gate!NoBucket
         \/ \E j \in old : s[j].at = b.start
  BY DEF WindowFits
<1>3. ServedFrom(s, kind, e.at) = {}
  <2> SUFFICES ASSUME NEW j \in ServedFrom(s, kind, e.at) PROVE FALSE
    OBVIOUS
  <2>1. j \in DOMAIN s /\ s[j].at >= e.at /\ s[j].kind = kind /\ s[j].verdict = "served"
    BY DEF ServedFrom
  <2>2. s[j].at >= b.start
    BY <1>1, <2>1
  <2>3. j \in old
    BY <2>1, <2>2 DEF ServedFrom
  <2> QED
    BY <1>1, <1>2, <2>1, <2>3
<1>4. ServedFrom(t, kind, e.at) = {n}
  <2>1. e.at >= e.at /\ e.at \in Int
    BY <1>1
  <2> QED
    BY <1>3, <2>1, ServedAfter
<1>5. Cardinality({n}) = 1
  BY FS_Singleton
<1>6. t[n] = e
  BY OneMore
<1>7. ServedBetween(t, kind, e.at - WindowSize, e.at) = recent
  <2>1. e.at - WindowSize \in Int /\ e.at \in Int /\ e.at >= e.at
    BY <1>1
  <2> QED
    BY <2>1, ServedBefore
<1>8. recent \subseteq old /\ \A j \in recent : s[j].at > b.start
  <2> SUFFICES ASSUME NEW j \in recent PROVE j \in old /\ s[j].at > b.start
    OBVIOUS
  <2>1. /\ j \in DOMAIN s /\ s[j].kind = kind /\ s[j].verdict = "served"
        /\ s[j].at > e.at - WindowSize
    BY DEF ServedBetween
  <2>2. s[j].at > b.start
    BY <1>1, <2>1
  <2>3. s[j].at >= b.start
    BY <1>1, <2>1, <2>2
  <2> QED
    BY <2>1, <2>2, <2>3 DEF ServedFrom
<1>9. IsFiniteSet(old) /\ Cardinality(old) \in Nat /\ Cardinality(recent) \in Nat
  <2>1. old \in SUBSET DOMAIN s /\ recent \in SUBSET DOMAIN s
    BY DEF ServedFrom, ServedBetween
  <2> QED
    BY <2>1, LogFinite
<1> HIDE DEF old, recent, t, n
<1>10. Cardinality(recent) < Limit[kind]
  <2>1. CASE b = Gate!NoBucket
    <3>1. b.count = 0
      BY <2>1 DEF Gate!NoBucket
    <3>2. old = {}
      BY <1>2, <1>9, <3>1, FS_EmptySet
    <3>3. recent = {}
      BY <1>8, <3>2
    <3> QED
      BY <1>1, <3>3, FS_EmptySet
  <2>2. ASSUME NEW j \in old, s[j].at = b.start PROVE Cardinality(recent) < Limit[kind]
    <3>1. recent \subseteq old \ {j}
      BY <1>1, <1>8, <2>2
    <3>2. IsFiniteSet(old \ {j}) /\ Cardinality(old \ {j}) = Cardinality(old) - 1
      BY <1>9, OneLess
    <3>3. Cardinality(recent) =< Cardinality(old \ {j})
      BY <3>1, <3>2, FS_Subset
    <3> QED
      BY <1>1, <1>2, <1>9, <3>2, <3>3
  <2> QED
    BY <1>2, <2>1, <2>2
<1> DEFINE new == [start |-> e.at, count |-> 1]
<1>11. new.start = e.at /\ new.count = 1
  OBVIOUS
<1> HIDE DEF new
<1>12. \A j \in {n} : t[j].at = e.at /\ t[j].at < e.at + WindowSize
  BY <1>1, <1>6
<1>13. WindowFits(t, kind, new)
  <2>1. ServedFrom(t, kind, new.start) = {n} /\ new.count = Cardinality({n})
    BY <1>4, <1>5, <1>11
  <2>2. new.count =< Limit[kind]
    BY <1>1, <1>11
  <2>3. \E j \in {n} : t[j].at = new.start
    BY <1>11, <1>12
  <2>4. \A j \in {n} : t[j].at < new.start + WindowSize
    BY <1>11, <1>12
  <2>5. Cardinality(ServedBetween(t, kind, new.start - WindowSize, new.start)) < Limit[kind]
    BY <1>7, <1>10, <1>11
  <2> QED
    BY <2>1, <2>2, <2>3, <2>4, <2>5 DEF WindowFits
<1> QED
  BY <1>13 DEF t, new

(* A request that its window has room for adds one. *)
LEMMA SameWindow ==
  ASSUME NEW s \in Seq(Entry), NEW e \in Entry, NEW kind \in Kinds,
         NEW b \in [start : Int, count : Nat], WindowFits(s, kind, b),
         e.kind = kind, e.verdict = "served",
         e.at >= b.start, e.at < b.start + WindowSize, b.count < Limit[kind]
  PROVE  WindowFits(Append(s, e), kind, [b EXCEPT !.count = @ + 1])
<1> DEFINE t == Append(s, e)
           n == Len(s) + 1
           old == ServedFrom(s, kind, b.start)
           new == [b EXCEPT !.count = @ + 1]
<1>1. /\ WindowSize \in Nat \ {0} /\ Limit[kind] \in Nat \ {0}
      /\ b.start \in Int /\ b.count \in Nat /\ e.at \in Nat
      /\ new.start = b.start /\ new.count = b.count + 1
  BY GateFacts, EntryTimes
<1>2. /\ b.count = Cardinality(old)
      /\ \A j \in old : s[j].at < b.start + WindowSize
      /\ \/ b = Gate!NoBucket
         \/ \E j \in old : s[j].at = b.start
      /\ Cardinality(ServedBetween(s, kind, b.start - WindowSize, b.start)) < Limit[kind]
  BY DEF WindowFits
<1>3. ServedFrom(t, kind, b.start) = old \cup {n}
  BY <1>1, ServedAfter
<1>4. n \notin old /\ old \in SUBSET DOMAIN s
  BY OneMore DEF ServedFrom
<1>5. IsFiniteSet(old)
  BY <1>4, LogFinite
<1>6. t[n] = e /\ \A j \in old : t[j] = s[j]
  BY <1>4, OneMore
<1>7. ServedBetween(t, kind, b.start - WindowSize, b.start)
        = ServedBetween(s, kind, b.start - WindowSize, b.start)
  <2>1. b.start - WindowSize \in Int
    BY <1>1
  <2> QED
    BY <1>1, <2>1, ServedBefore
<1> HIDE DEF old, t, n, new
<1>8. Cardinality(old \cup {n}) = b.count + 1
  BY <1>2, <1>4, <1>5, FS_AddElement
<1>9. \A j \in old \cup {n} : t[j].at < b.start + WindowSize
  BY <1>2, <1>6
<1>10. b # Gate!NoBucket
  <2> SUFFICES ASSUME b = Gate!NoBucket PROVE FALSE
    OBVIOUS
  <2>1. b.start = -WindowSize
    BY DEF Gate!NoBucket
  <2> QED
    BY <1>1, <2>1
<1>11. \E j \in old \cup {n} : t[j].at = b.start
  BY <1>2, <1>6, <1>10
<1>12. b.count + 1 =< Limit[kind]
  BY <1>1
<1>13. WindowFits(t, kind, new)
  BY <1>1, <1>2, <1>3, <1>7, <1>8, <1>9, <1>11, <1>12 DEF WindowFits
<1> QED
  BY <1>13 DEF t, new

(* Every message keeps the windows. *)
LEMMA WindowsKept ==
  ASSUME GateType, InThePast, Windows, NEW e, Reads(e),
         Uncounted(e) \/ StartsWindow(e) \/ FitsWindow(e)
  PROVE  /\ buckets' \in [Kinds -> [start : Int, count : Nat]]
         /\ log' \in Seq(Entry) /\ InThePast' /\ Windows'
<1>1. /\ clock \in Nat /\ buckets \in [Kinds -> [start : Int, count : Nat]]
      /\ log \in Seq(Entry) /\ e \in Entry /\ e.at = clock
      /\ log' = Append(log, e) /\ clock' = clock
  BY DEF GateType, Reads
<1>2. \A kind \in Kinds : WindowFits(log, kind, buckets[kind])
  BY WindowsFit
<1>3. /\ DOMAIN log' = DOMAIN log \cup {Len(log) + 1} /\ log' \in Seq(Entry)
      /\ log'[Len(log) + 1] = e /\ \A j \in DOMAIN log : log'[j] = log[j]
  BY <1>1, OneMore
<1>4. \A j \in DOMAIN log' : log'[j].at =< clock'
  BY <1>1, <1>3 DEF InThePast
<1>5. \A kind \in Kinds : buckets[kind].start =< clock /\ buckets[kind] \in [start : Int, count : Nat]
  BY <1>1 DEF InThePast
<1>6. CASE Uncounted(e)
  <2>1. buckets' = buckets
    BY <1>6 DEF Uncounted
  <2>2. ASSUME NEW kind \in Kinds PROVE WindowFits(log', kind, buckets'[kind])
    <3>1. e.kind # kind \/ e.verdict # "served"
      BY <1>6 DEF Uncounted
    <3>2. buckets[kind].start \in Int
      BY <1>5
    <3>3. WindowFits(Append(log, e), kind, buckets[kind])
      BY <1>1, <1>2, <3>1, <3>2, OtherWindow
    <3> QED
      BY <1>1, <2>1, <3>3
  <2>3. Windows'
    BY <2>2, WindowsFit
  <2> QED
    BY <1>1, <1>3, <1>4, <1>5, <2>1, <2>3 DEF InThePast
<1>7. ASSUME NEW kind \in Kinds, NEW b \in [start : Int, count : Nat], e.kind = kind,
             buckets' = [buckets EXCEPT ![kind] = b],
             b.start =< clock, WindowFits(Append(log, e), kind, b)
      PROVE  /\ buckets' \in [Kinds -> [start : Int, count : Nat]]
             /\ InThePast' /\ Windows'
  <2>1. buckets' \in [Kinds -> [start : Int, count : Nat]]
    BY <1>1, <1>7
  <2>2. ASSUME NEW k \in Kinds
        PROVE  WindowFits(log', k, buckets'[k]) /\ buckets'[k].start =< clock'
    <3>1. CASE k = kind
      BY <1>1, <1>7, <3>1
    <3>2. CASE k # kind
      <4>1. buckets'[k] = buckets[k] /\ buckets[k].start \in Int /\ e.kind # k
        BY <1>1, <1>5, <1>7, <3>2
      <4>2. WindowFits(Append(log, e), k, buckets[k])
        BY <1>1, <1>2, <4>1, OtherWindow
      <4> QED
        BY <1>1, <1>5, <4>1, <4>2
    <3> QED
      BY <3>1, <3>2
  <2>3. Windows'
    BY <2>2, WindowsFit
  <2> QED
    BY <1>4, <2>1, <2>2, <2>3 DEF InThePast
<1>8. CASE StartsWindow(e)
  <2> DEFINE b == [start |-> e.at, count |-> 1]
  <2>1. /\ e.kind \in Kinds /\ e.verdict = "served"
        /\ e.at >= buckets[e.kind].start + WindowSize
        /\ buckets' = [buckets EXCEPT ![e.kind] = b]
    BY <1>1, <1>8 DEF StartsWindow
  <2>2. WindowFits(Append(log, e), e.kind, b)
    BY <1>1, <1>2, <1>5, <2>1, NewWindow
  <2>3. b \in [start : Int, count : Nat] /\ b.start =< clock
    BY <1>1
  <2> HIDE DEF b
  <2> QED
    BY <1>3, <1>7, <2>1, <2>2, <2>3
<1>9. CASE FitsWindow(e)
  <2> DEFINE a == buckets[e.kind]
             b == [a EXCEPT !.count = @ + 1]
  <2>1. /\ e.kind \in Kinds /\ e.verdict = "served"
        /\ e.at < a.start + WindowSize /\ a.count < Limit[e.kind]
        /\ buckets' = [buckets EXCEPT ![e.kind] = b]
    BY <1>1, <1>9 DEF FitsWindow
  <2>2. a \in [start : Int, count : Nat] /\ a.start =< e.at /\ WindowFits(log, e.kind, a)
    BY <1>1, <1>2, <1>5, <2>1
  <2>3. b \in [start : Int, count : Nat] /\ b.start =< clock
    BY <1>1, <2>2
  <2> HIDE DEF a
  <2>4. WindowFits(Append(log, e), e.kind, b)
    BY <1>1, <2>1, <2>2, SameWindow
  <2> HIDE DEF b
  <2> QED
    BY <1>3, <1>7, <2>1, <2>3, <2>4
<1> QED
  BY <1>6, <1>8, <1>9

-----------------------------------------------------------------------------
(* The gate counts as everyone does. *)
LEMMA SameCount == \A S : Gate!Cardinality(S) = Cardinality(S)
BY DEF Gate!Cardinality, Cardinality

(* What was promised of earlier messages holds of them for good. *)
LEMMA EarlierReads ==
  ASSUME NEW e, GateType, Reads(e), NEW i \in DOMAIN log, NEW verdicts
  PROVE  log'[i] = log[i] /\ Gate!ReadBy(i, verdicts)' = Gate!ReadBy(i, verdicts)
<1>1. /\ log \in Seq(Entry) /\ e \in Entry /\ log' = Append(log, e)
  BY DEF GateType, Reads
<1>2. \A j \in DOMAIN log : log'[j] = log[j]
  BY <1>1, OneMore
<1>3. 1..i \subseteq DOMAIN log
  BY <1>1
<1> QED
  BY <1>2, <1>3 DEF Gate!ReadBy

(* The message just read is within the limits too. *)
LEMMA PromisesKept ==
  ASSUME GateInv, NEW e, Reads(e), InThePast', Windows', log' \in Seq(Entry),
         buckets' \in [Kinds -> [start : Int, count : Nat]],
         e.verdict = "ignored" =>
            /\ e.kind \in Kinds /\ clock < buckets[e.kind].start + WindowSize
            /\ buckets[e.kind].count >= Limit[e.kind]
  PROVE  Gate!IgnoredOnlyOverLimit' /\ Gate!ServedLessThanTwice'
<1> DEFINE n == Len(log) + 1
<1>1. /\ clock \in Nat /\ buckets \in [Kinds -> [start : Int, count : Nat]]
      /\ log \in Seq(Entry) /\ e \in Entry /\ e.at = clock
      /\ log' = Append(log, e) /\ clock' = clock
  BY DEF GateInv, GateType, Reads
<1>2. /\ DOMAIN log' = DOMAIN log \cup {n} /\ n \notin DOMAIN log /\ n \in Nat
      /\ log'[n] = e /\ \A j \in DOMAIN log : log'[j] = log[j]
      /\ DOMAIN log' = 1..n
  BY <1>1, OneMore
<1>3. GateType /\ Windows /\ WindowSize \in Nat \ {0} /\ Limit \in [Kinds -> Nat \ {0}]
  BY GateFacts DEF GateInv
<1>4. \A j \in DOMAIN log' : log'[j].at \in Nat /\ log'[j] \in Entry
  BY EntryTimes
<1> HIDE DEF n
<1>5. ASSUME NEW i \in DOMAIN log', log'[i].verdict = "ignored"
      PROVE  Gate!ReadBy(i, {"served", "ignored"})' > Limit[log'[i].kind]
  <2>1. CASE i \in DOMAIN log
    BY <1>3, <1>5, <2>1, EarlierReads DEF GateInv, Gate!IgnoredOnlyOverLimit
  <2>2. CASE i = n
    <3> DEFINE kind == e.kind
               old == ServedFrom(log, kind, buckets[kind].start)
               read == {j \in 1..i : /\ log'[j].kind = log'[i].kind
                                     /\ log'[j].verdict \in {"served", "ignored"}
                                     /\ log'[j].at > log'[i].at - WindowSize}
    <3>1. /\ kind \in Kinds /\ clock < buckets[kind].start + WindowSize
          /\ buckets[kind].count >= Limit[kind]
      BY <1>2, <1>5, <2>2
    <3>2. buckets[kind].count = Cardinality(old) /\ Limit[kind] \in Nat /\ buckets[kind].start \in Int
          /\ buckets[kind].count \in Nat
      BY <1>1, <1>3, <3>1 DEF Windows, WindowsCount
    <3>3. old \cup {n} \subseteq read
      <4>1. n \in read
        BY <1>1, <1>2, <1>3, <1>5, <2>2
      <4>2. ASSUME NEW j \in old PROVE j \in read
        <5>1. /\ j \in DOMAIN log /\ log[j].kind = kind /\ log[j].verdict = "served"
              /\ log[j].at >= buckets[kind].start
          BY DEF ServedFrom
        <5>2. log'[j] = log[j] /\ log'[j].at \in Nat
          BY <1>2, <1>4, <5>1
        <5>3. log'[j].at > log'[i].at - WindowSize
          BY <1>1, <1>2, <1>3, <2>2, <3>1, <3>2, <5>1, <5>2
        <5> QED
          BY <1>2, <2>2, <5>1, <5>2, <5>3
      <4> QED
        BY <4>1, <4>2
    <3>4. old \in SUBSET DOMAIN log
      BY DEF ServedFrom
    <3>5. IsFiniteSet(old) /\ n \notin old
      BY <1>1, <1>2, <3>4, LogFinite
    <3>6. Cardinality(old \cup {n}) = Cardinality(old) + 1
      BY <3>5, FS_AddElement
    <3>7. read \in SUBSET DOMAIN log'
      BY <1>2, <2>2
    <3>8. IsFiniteSet(read) /\ Cardinality(read) \in Nat
      BY <3>7, LogFinite
    <3>9. Cardinality(old \cup {n}) =< Cardinality(read)
      BY <3>3, <3>8, FS_Subset
    <3>10. Gate!ReadBy(i, {"served", "ignored"})' = Cardinality(read)
      BY SameCount DEF Gate!ReadBy
    <3>11. log'[i].kind = kind
      BY <1>2, <2>2
    <3> HIDE DEF kind, old, read
    <3> QED
      BY <3>1, <3>2, <3>6, <3>8, <3>9, <3>10, <3>11
  <2> QED
    BY <1>2, <2>1, <2>2
<1>6. ASSUME NEW i \in DOMAIN log', log'[i].kind \in Kinds
      PROVE  Gate!ReadBy(i, {"served"})' < 2 * Limit[log'[i].kind]
  <2>1. CASE i \in DOMAIN log
    BY <1>3, <1>6, <2>1, EarlierReads DEF GateInv, Gate!ServedLessThanTwice
  <2>2. CASE i = n
    <3> DEFINE kind == e.kind
               read == {j \in 1..i : /\ log'[j].kind = log'[i].kind
                                     /\ log'[j].verdict \in {"served"}
                                     /\ log'[j].at > log'[i].at - WindowSize}
               start == buckets'[kind].start
    <3>1. kind \in Kinds /\ log'[i] = e
      BY <1>2, <1>6, <2>2
    <3>2. read \in SUBSET ServedFrom(log', kind, clock - WindowSize + 1)
      <4>1. ASSUME NEW j \in read PROVE j \in ServedFrom(log', kind, clock - WindowSize + 1)
        <5>1. j \in DOMAIN log' /\ log'[j].kind = kind /\ log'[j].verdict = "served"
              /\ log'[j].at > clock - WindowSize
          BY <1>1, <1>2, <2>2, <3>1
        <5>2. log'[j].at \in Nat
          BY <1>4, <5>1
        <5>3. log'[j].at >= clock - WindowSize + 1
          BY <1>1, <1>3, <5>1, <5>2
        <5> QED
          BY <5>1, <5>3 DEF ServedFrom
      <4> QED
        BY <4>1
    <3>3. start \in Int /\ start =< clock
      BY <1>1, <3>1 DEF InThePast
    <3>4. /\ Cardinality(ServedFrom(log', kind, start)) =< Limit[kind]
          /\ Cardinality(ServedBetween(log', kind, start - WindowSize, start)) < Limit[kind]
      BY <3>1 DEF Windows, WindowsCount, CarryBounded
    <3>5. Limit[kind] \in Nat
      BY <1>3, <3>1
    <3> HIDE DEF kind, read, start
    <3>6. Cardinality(read) < 2 * Limit[kind]
      BY <1>1, <3>2, <3>3, <3>4, <3>5, RecentBounded
    <3>7. Gate!ReadBy(i, {"served"})' = Cardinality(read)
      BY SameCount DEF Gate!ReadBy, read
    <3>8. log'[i].kind = kind
      BY <3>1 DEF kind
    <3> QED
      BY <3>6, <3>7, <3>8
  <2> QED
    BY <1>2, <2>1, <2>2
<1> QED
  BY <1>5, <1>6 DEF Gate!IgnoredOnlyOverLimit, Gate!ServedLessThanTwice

-----------------------------------------------------------------------------
(* The steps of the gate *)

LEMMA GateStarts ==
  Gate!Init => GateInv
<1> SUFFICES ASSUME Gate!Init PROVE GateInv
  OBVIOUS
<1>1. /\ clock = 0 /\ strikes = 0 /\ log = <<>>
      /\ buckets = [kind \in Kinds |-> Gate!NoBucket]
  BY DEF Gate!Init
<1>2. /\ Gate!NoBucket \in [start : Int, count : Nat]
      /\ Gate!NoBucket.start =< 0 /\ Gate!NoBucket.count = 0
  BY GateFacts DEF Gate!NoBucket
<1>3. GateType /\ InThePast
  BY <1>1, <1>2 DEF GateType, InThePast
<1>4. \A kind : /\ \A from : ServedFrom(log, kind, from) = {}
                /\ \A after, before : ServedBetween(log, kind, after, before) = {}
  BY <1>1 DEF ServedFrom, ServedBetween
<1>5. Windows
  <2>1. \A kind \in Kinds : buckets[kind] = Gate!NoBucket
    BY <1>1
  <2>2. Cardinality({}) = 0
    BY FS_EmptySet
  <2>3. WindowsCount
    BY <1>2, <1>4, <2>1, <2>2, GateFacts DEF WindowsCount
  <2>4. WindowsEnd
    BY <1>4 DEF WindowsEnd
  <2>5. WindowsStart
    BY <2>1 DEF WindowsStart
  <2>6. CarryBounded
    <3>1. \A kind \in Kinds : Limit[kind] \in Nat /\ 0 < Limit[kind]
      BY GateFacts
    <3> QED
      BY <1>4, <2>2, <3>1 DEF CarryBounded
  <2> QED
    BY <2>3, <2>4, <2>5, <2>6 DEF Windows
<1>6. Gate!IgnoredOnlyOverLimit /\ Gate!ServedLessThanTwice
  BY <1>1 DEF Gate!IgnoredOnlyOverLimit, Gate!ServedLessThanTwice
<1> QED
  BY <1>3, <1>5, <1>6 DEF GateInv

LEMMA MessageKeeps ==
  ASSUME GateInv, NEW e, Reads(e), strikes' \in Nat,
         Uncounted(e) \/ StartsWindow(e) \/ FitsWindow(e),
         e.verdict = "ignored" =>
            /\ e.kind \in Kinds /\ clock < buckets[e.kind].start + WindowSize
            /\ buckets[e.kind].count >= Limit[e.kind]
  PROVE  GateInv'
<1>1. GateType /\ InThePast /\ Windows
  BY DEF GateInv
<1>2. /\ buckets' \in [Kinds -> [start : Int, count : Nat]]
      /\ log' \in Seq(Entry) /\ InThePast' /\ Windows'
  BY <1>1, WindowsKept
<1>3. Gate!IgnoredOnlyOverLimit' /\ Gate!ServedLessThanTwice'
  BY <1>2, PromisesKept
<1>4. GateType'
  BY <1>1, <1>2 DEF GateType, Reads
<1> QED
  BY <1>2, <1>3, <1>4 DEF GateInv

LEMMA GateKept ==
  ASSUME GateInv, Gate!Next \/ UNCHANGED gate
  PROVE  GateInv'
<1>1. /\ clock \in Nat /\ strikes \in Nat /\ log \in Seq(Entry)
      /\ buckets \in [Kinds -> [start : Int, count : Nat]]
  BY DEF GateInv, GateType
<1>2. CASE UNCHANGED gate
  BY <1>2 DEF gate, GateInv, GateType, InThePast, Windows, WindowsCount, WindowsEnd, WindowsStart,
              CarryBounded, Gate!IgnoredOnlyOverLimit, Gate!ServedLessThanTwice, Gate!ReadBy
<1>3. CASE Gate!Tick
  <2>1. /\ clock' = clock + 1 /\ buckets' = buckets /\ strikes' = strikes /\ log' = log
    BY <1>3 DEF Gate!Tick
  <2>2. GateType' /\ Windows' /\ Gate!IgnoredOnlyOverLimit' /\ Gate!ServedLessThanTwice'
    BY <1>1, <2>1 DEF GateInv, GateType, Windows, WindowsCount, WindowsEnd, WindowsStart,
              CarryBounded, Gate!IgnoredOnlyOverLimit, Gate!ServedLessThanTwice, Gate!ReadBy
  <2>3. InThePast'
    <3>1. \A j \in DOMAIN log : log[j].at \in Nat /\ log[j].at =< clock
      BY <1>1, EntryTimes DEF GateInv, InThePast
    <3>2. \A kind \in Kinds : buckets[kind].start \in Int /\ buckets[kind].start =< clock
      BY <1>1 DEF GateInv, InThePast
    <3> QED
      BY <1>1, <2>1, <3>1, <3>2 DEF InThePast
  <2> QED
    BY <2>2, <2>3 DEF GateInv
<1>4. ASSUME NEW kind \in Kinds \cup {Gate!Free}, Gate!Read(kind) PROVE GateInv'
  <2> DEFINE E(v) == [kind |-> kind, at |-> clock, verdict |-> v]
  <2>1. clock' = clock
    BY <1>4 DEF Gate!Read
  <2>2. \A v \in {"served", "ignored", "flood"} :
           /\ E(v) \in Entry /\ E(v).at = clock /\ E(v).kind = kind /\ E(v).verdict = v
    BY <1>1 DEF Entry
  <2>3. ASSUME NEW v \in {"served", "ignored", "flood"}, Gate!Logged(kind, v)
        PROVE  Reads(E(v))
    BY <2>1, <2>2, <2>3 DEF Reads, Gate!Logged
  <2>4. CASE Len(log) = MaxMessages
    <3>1. Gate!Logged(kind, "flood") /\ buckets' = buckets /\ strikes' = strikes
      BY <1>4, <2>4 DEF Gate!Read
    <3>2. Reads(E("flood")) /\ Uncounted(E("flood"))
      BY <2>2, <2>3, <3>1 DEF Uncounted
    <3> QED
      BY <1>1, <2>2, <3>1, <3>2, MessageKeeps
  <2>5. CASE Len(log) # MaxMessages /\ kind = Gate!Free
    <3>1. Gate!Logged(kind, "served") /\ buckets' = buckets /\ strikes' = strikes
      BY <1>4, <2>5 DEF Gate!Read
    <3>2. Reads(E("served")) /\ Uncounted(E("served"))
      BY <2>2, <2>3, <2>5, <3>1, GateFacts DEF Uncounted
    <3> QED
      BY <1>1, <2>2, <3>1, <3>2, MessageKeeps
  <2>6. CASE Len(log) # MaxMessages /\ kind # Gate!Free
    <3> DEFINE b == buckets[kind]
               fresh == clock - b.start >= WindowSize
               served == fresh \/ b.count < Limit[kind]
               next == IF fresh THEN [start |-> clock, count |-> 1]
                       ELSE IF served THEN [b EXCEPT !.count = @ + 1] ELSE b
    <3>1. kind \in Kinds /\ b \in [start : Int, count : Nat]
      BY <1>1, <2>6
    <3>2. /\ Gate!Allow(kind)
          /\ Gate!Logged(kind, IF strikes' = 0 THEN "served" ELSE "ignored")
      BY <1>4, <2>6 DEF Gate!Read
    <3>3. /\ buckets' = [buckets EXCEPT ![kind] = next]
          /\ strikes' = IF served THEN 0 ELSE strikes + 1
      BY <3>2 DEF Gate!Allow
    <3>4. /\ b.start \in Int /\ b.count \in Nat /\ WindowSize \in Nat /\ Limit[kind] \in Nat
          /\ fresh <=> clock >= b.start + WindowSize
      BY <1>1, <3>1, GateFacts
    <3>5. CASE fresh
      <4>1. Gate!Logged(kind, "served") /\ strikes' = 0
        BY <3>2, <3>3, <3>5
      <4>2. buckets' = [buckets EXCEPT ![kind] = [start |-> clock, count |-> 1]]
        BY <3>3, <3>5
      <4>3. Reads(E("served")) /\ StartsWindow(E("served"))
        BY <2>2, <2>3, <3>1, <3>4, <3>5, <4>1, <4>2 DEF StartsWindow
      <4> QED
        BY <2>2, <4>1, <4>3, MessageKeeps
    <3>6. CASE ~fresh /\ b.count < Limit[kind]
      <4>1. Gate!Logged(kind, "served") /\ strikes' = 0
        BY <3>2, <3>3, <3>6
      <4>2. buckets' = [buckets EXCEPT ![kind].count = @ + 1]
        <5>1. next = [b EXCEPT !.count = @ + 1]
          BY <3>6
        <5>2. [buckets EXCEPT ![kind].count = @ + 1]
                = [buckets EXCEPT ![kind] = [b EXCEPT !.count = @ + 1]]
          BY <1>1, <3>1
        <5> HIDE DEF next
        <5> QED
          BY <3>3, <5>1, <5>2
      <4>3. Reads(E("served")) /\ FitsWindow(E("served"))
        BY <1>1, <2>2, <2>3, <3>1, <3>4, <3>6, <4>1, <4>2 DEF FitsWindow
      <4> QED
        BY <2>2, <4>1, <4>3, MessageKeeps
    <3>7. CASE ~fresh /\ ~(b.count < Limit[kind])
      <4>1. strikes' = strikes + 1
        BY <3>3, <3>7
      <4>2. Gate!Logged(kind, "ignored") /\ strikes' \in Nat
        BY <1>1, <3>2, <4>1
      <4>3. buckets' = buckets
        BY <1>1, <3>3, <3>7
      <4>4. Reads(E("ignored")) /\ Uncounted(E("ignored"))
        BY <2>2, <2>3, <4>2, <4>3 DEF Uncounted
      <4>5. /\ E("ignored").kind \in Kinds
            /\ clock < buckets[E("ignored").kind].start + WindowSize
            /\ buckets[E("ignored").kind].count >= Limit[E("ignored").kind]
        BY <1>1, <2>2, <3>1, <3>4, <3>7
      <4> QED
        BY <4>2, <4>4, <4>5, MessageKeeps
    <3> QED
      BY <3>5, <3>6, <3>7
  <2> QED
    BY <2>4, <2>5, <2>6
<1> QED
  BY <1>2, <1>3, <1>4 DEF Gate!Next

-----------------------------------------------------------------------------
(* Powers *)

(* The first values of the recursion *)
Grows(f, n, base) ==
    /\ f \in [0..n -> Nat \ {0}]
    /\ \A k \in 0..n : f[k] = IF k = 0 THEN 1 ELSE base * f[k - 1]

LEMMA GrowthExists ==
  ASSUME NEW base \in Nat \ {0}, NEW n \in Nat
  PROVE  \E f : Grows(f, n, base)
<1> DEFINE Bad == {m \in Nat : ~\E f : Grows(f, m, base)}
<1>1. SUFFICES ASSUME Bad # {} PROVE FALSE
  BY <1>1
<1>2. PICK m \in Bad : \A k \in Bad : m =< k
  BY <1>1, LeastNat
<1>3. CASE m = 0
  <2> DEFINE f == [k \in 0..0 |-> 1]
  <2>1. Grows(f, 0, base)
    BY DEF Grows
  <2> QED
    BY <1>3, <2>1
<1>4. CASE m # 0
  <2>1. m - 1 \in Nat /\ m \in Nat \ {0} /\ m - 1 \notin Bad
    BY <1>2, <1>4
  <2>2. PICK f : Grows(f, m - 1, base)
    BY <2>1
  <2> DEFINE g == [k \in 0..m |-> IF k = m THEN base * f[m - 1] ELSE f[k]]
  <2>3. /\ \A k \in 0..(m - 1) : f[k] \in Nat \ {0}
        /\ \A k \in 0..(m - 1) : f[k] = IF k = 0 THEN 1 ELSE base * f[k - 1]
    BY <2>1, <2>2 DEF Grows
  <2>7. base * f[m - 1] \in Nat \ {0}
    BY <2>1, <2>3
  <2>4. g \in [0..m -> Nat \ {0}]
    BY <2>1, <2>3, <2>7
  <2>5. ASSUME NEW k \in 0..m PROVE g[k] = IF k = 0 THEN 1 ELSE base * g[k - 1]
    BY <2>1, <2>3
  <2>6. Grows(g, m, base)
    BY <2>4, <2>5 DEF Grows
  <2> QED
    BY <1>2, <2>6
<1> QED
  BY <1>3, <1>4

LEMMA GrowthAgrees ==
  ASSUME NEW base, NEW n \in Nat, NEW m \in Nat, NEW f, NEW g,
         Grows(f, n, base), Grows(g, m, base), NEW k \in Nat, k =< n, k =< m
  PROVE  f[k] = g[k]
<1> DEFINE Bad == {j \in Nat : j =< n /\ j =< m /\ f[j] # g[j]}
<1>1. SUFFICES ASSUME Bad # {} PROVE FALSE
  BY <1>1
<1>2. PICK j \in Bad : \A i \in Bad : j =< i
  BY <1>1, LeastNat
<1>3. j \in 0..n /\ j \in 0..m /\ f[j] # g[j]
  BY <1>2
<1>4. /\ f[j] = IF j = 0 THEN 1 ELSE base * f[j - 1]
      /\ g[j] = IF j = 0 THEN 1 ELSE base * g[j - 1]
  BY <1>3 DEF Grows
<1>5. CASE j = 0
  BY <1>3, <1>4, <1>5
<1>6. CASE j # 0
  <2>1. j - 1 \in Nat /\ j - 1 =< n /\ j - 1 =< m /\ j - 1 < j
    BY <1>3, <1>6
  <2>2. j - 1 \notin Bad
    BY <1>2, <2>1
  <2>3. f[j - 1] = g[j - 1]
    BY <2>1, <2>2
  <2> QED
    BY <1>3, <1>4, <1>6, <2>3
<1> QED
  BY <1>5, <1>6

(* The recursion defines a function on all natural numbers. *)
LEMMA PowersExist ==
  ASSUME NEW base \in Nat \ {0}
  PROVE  \E g : g = [n \in Nat |-> IF n = 0 THEN 1 ELSE base * g[n - 1]]
<1> DEFINE at(n) == CHOOSE f : Grows(f, n, base)
           g == [n \in Nat |-> at(n)[n]]
<1>1. \A n \in Nat : Grows(at(n), n, base)
  BY GrowthExists
<1> HIDE DEF at
<1>2. ASSUME NEW n \in Nat PROVE g[n] = IF n = 0 THEN 1 ELSE base * g[n - 1]
  <2>1. Grows(at(n), n, base)
    BY <1>1
  <2>2. at(n)[n] = IF n = 0 THEN 1 ELSE base * at(n)[n - 1]
    BY <2>1 DEF Grows
  <2>3. CASE n = 0
    BY <2>2, <2>3
  <2>4. CASE n # 0
    <3>1. n - 1 \in Nat /\ n - 1 =< n /\ n - 1 =< n - 1
      BY <2>4
    <3>2. Grows(at(n - 1), n - 1, base)
      BY <1>1, <3>1
    <3>3. at(n)[n - 1] = at(n - 1)[n - 1]
      BY <2>1, <3>1, <3>2, GrowthAgrees
    <3>4. g[n - 1] = at(n - 1)[n - 1]
      BY <3>1
    <3> QED
      BY <2>2, <2>4, <3>3, <3>4
  <2> QED
    BY <2>3, <2>4
<1>3. g = [n \in Nat |-> IF n = 0 THEN 1 ELSE base * g[n - 1]]
  <2>1. g = [n \in Nat |-> g[n]]
    OBVIOUS
  <2> HIDE DEF g
  <2> QED
    BY <1>2, <2>1
<1> HIDE DEF g
<1> QED
  BY <1>3

(* What such a function is at each number *)
LEMMA PowersUnfold ==
  ASSUME NEW base \in Nat \ {0}, NEW d,
         d = [n \in Nat |-> IF n = 0 THEN 1 ELSE base * d[n - 1]]
  PROVE  d[0] = 1 /\ \A n \in Nat : d[n] \in Nat \ {0} /\ d[n + 1] = base * d[n]
<1>1. \A n \in Nat : d[n] = IF n = 0 THEN 1 ELSE base * d[n - 1]
  OBVIOUS
<1>2. d[0] = 1 /\ \A n \in Nat : d[n + 1] = base * d[n]
  <2>1. ASSUME NEW n \in Nat PROVE d[n + 1] = base * d[n]
    <3>1. n + 1 \in Nat /\ n + 1 # 0 /\ (n + 1) - 1 = n
      OBVIOUS
    <3>2. d[n + 1] = IF n + 1 = 0 THEN 1 ELSE base * d[(n + 1) - 1]
      BY <1>1, <3>1
    <3> QED
      BY <3>1, <3>2
  <2> QED
    BY <1>1, <2>1
<1>3. \A n \in Nat : d[n] \in Nat \ {0}
  <2> DEFINE Bad == {n \in Nat : d[n] \notin Nat \ {0}}
  <2>1. SUFFICES ASSUME Bad # {} PROVE FALSE
    BY <2>1
  <2>2. PICK n \in Bad : \A k \in Bad : n =< k
    BY <2>1, LeastNat
  <2>3. n # 0
    BY <1>2, <2>2
  <2>4. n - 1 \in Nat /\ n - 1 \notin Bad
    <3>1. n \in Nat \ {0}
      BY <2>2, <2>3
    <3>2. n - 1 \in Nat /\ ~(n =< n - 1)
      BY <3>1
    <3> HIDE DEF Bad
    <3> QED
      BY <2>2, <3>2
  <2>5. d[n - 1] \in Nat \ {0}
    BY <2>4
  <2>6. d[n] = base * d[n - 1]
    BY <1>1, <2>2, <2>3
  <2>7. base * d[n - 1] \in Nat \ {0}
    BY <2>5
  <2> QED
    BY <2>2, <2>6, <2>7
<1> QED
  BY <1>2, <1>3

LEMMA DoubledUnfolds ==
  /\ Tuning!Doubled[0] = 1
  /\ \A n \in Nat : Tuning!Doubled[n] \in Nat \ {0} /\ Tuning!Doubled[n + 1] = 2 * Tuning!Doubled[n]
<1>1. \E g : g = [n \in Nat |-> IF n = 0 THEN 1 ELSE 2 * g[n - 1]]
  BY PowersExist
<1>2. Tuning!Doubled = [n \in Nat |-> IF n = 0 THEN 1 ELSE 2 * Tuning!Doubled[n - 1]]
  BY <1>1, Zenon DEF Tuning!Doubled
<1> DEFINE d == Tuning!Doubled
<1>3. d = [n \in Nat |-> IF n = 0 THEN 1 ELSE 2 * d[n - 1]]
  BY <1>2
<1> HIDE DEF d
<1>4. d[0] = 1 /\ \A n \in Nat : d[n] \in Nat \ {0} /\ d[n + 1] = 2 * d[n]
  BY <1>3, PowersUnfold
<1> QED
  BY <1>4 DEF d

LEMMA PlaceUnfolds ==
  /\ Grading!Place[0] = 1
  /\ \A n \in Nat : Grading!Place[n] \in Nat \ {0} /\ Grading!Place[n + 1] = 256 * Grading!Place[n]
<1>1. \E g : g = [n \in Nat |-> IF n = 0 THEN 1 ELSE 256 * g[n - 1]]
  BY PowersExist
<1>2. Grading!Place = [n \in Nat |-> IF n = 0 THEN 1 ELSE 256 * Grading!Place[n - 1]]
  BY <1>1, Zenon DEF Grading!Place
<1> DEFINE d == Grading!Place
<1>3. d = [n \in Nat |-> IF n = 0 THEN 1 ELSE 256 * d[n - 1]]
  BY <1>2
<1> HIDE DEF d
<1>4. d[0] = 1 /\ \A n \in Nat : d[n] \in Nat \ {0} /\ d[n + 1] = 256 * d[n]
  BY <1>3, PowersUnfold
<1> QED
  BY <1>4 DEF d

-----------------------------------------------------------------------------
(* The compact target *)

(* What a target is: positive, and of at most MaxBytes bytes *)
IsTarget(t) == t \in Nat \ {0} /\ t \div Grading!Place[MaxBytes - 1] < 256

Compact(t) == Grading!BitsToTarget(Grading!TargetToBits(t))

LEMMA Powers == 2^15 = 128 * 256 /\ 2^23 = 128 * 256 * 256
BY SMT

LEMMA SmallPlaces ==
  /\ Grading!Place[0] = 1 /\ Grading!Place[1] = 256
  /\ Grading!Place[2] = 256 * 256 /\ Grading!Place[3] = 256 * 256 * 256
<1>1. /\ Grading!Place[0 + 1] = 256 * Grading!Place[0]
      /\ Grading!Place[1 + 1] = 256 * Grading!Place[1]
      /\ Grading!Place[2 + 1] = 256 * Grading!Place[2]
  BY PlaceUnfolds
<1> QED
  BY <1>1, PlaceUnfolds

(* The bytes that a target takes *)
LEMMA Bytes ==
  ASSUME NEW t, IsTarget(t)
  PROVE  LET n == Grading!ByteLength(t)
         IN  /\ n \in Nat \ {0} /\ t \div Grading!Place[n - 1] < 256
             /\ n > 1 => t \div Grading!Place[n - 2] >= 256
<1> DEFINE fits == {n \in 1..MaxBytes : t \div Grading!Place[n - 1] < 256}
<1>1. MaxBytes \in fits /\ fits \subseteq Nat
  BY GradeAssumption DEF IsTarget
<1>2. Grading!ByteLength(t) = Grading!Min(fits)
  BY DEF Grading!ByteLength
<1>3. PICK x \in fits : \A y \in fits : x =< y
  <2> HIDE DEF fits
  <2> QED
    BY <1>1, LeastNat
<1>4. Grading!Min(fits) \in fits /\ \A y \in fits : Grading!Min(fits) =< y
  <2> HIDE DEF fits
  <2> QED
    BY <1>3 DEF Grading!Min
<1> DEFINE n == Grading!ByteLength(t)
<1>5. n \in fits /\ \A y \in fits : n =< y
  <2>1. n = Grading!Min(fits)
    BY <1>2
  <2> HIDE DEF n, fits
  <2> QED
    BY <1>4, <2>1
<1> HIDE DEF n
<1>6. n \in 1..MaxBytes /\ t \div Grading!Place[n - 1] < 256
  BY <1>5
<1>7. ASSUME n > 1 PROVE t \div Grading!Place[n - 2] >= 256
  <2>1. n - 1 \in 1..MaxBytes /\ ~(n =< n - 1) /\ (n - 1) - 1 = n - 2 /\ n - 2 \in Nat
    BY <1>6, <1>7, GradeAssumption
  <2>2. n - 1 \notin fits
    BY <1>5, <2>1
  <2>3. ~(t \div Grading!Place[n - 2] < 256)
    BY <2>1, <2>2
  <2>4. t \div Grading!Place[n - 2] \in Nat
    <3> DEFINE d == Grading!Place[n - 2]
    <3>1. d \in Nat \ {0} /\ t \in Nat
      BY <2>1, PlaceUnfolds DEF IsTarget
    <3> HIDE DEF d
    <3>2. t \div d \in Nat
      BY <3>1
    <3> QED
      BY <3>2 DEF d
  <2> QED
    BY <2>3, <2>4
<1> QED
  BY <1>6, <1>7, GradeAssumption DEF n

(***************************************************************************)
(* Three bytes of a long target are kept: what is lost is less than the    *)
(* lowest place kept, or than the one above it where the sign bit is set,  *)
(* and each is at most one of the 2^15 parts of the target.                *)
(***************************************************************************)
LEMMA Truncated ==
  ASSUME NEW t \in Nat, NEW q \in Nat \ {0}, 65536 * q =< t
  PROVE  LET m == t \div q
         IN  /\ m \in Nat /\ m * q =< t /\ m * q >= t - (t \div 32768)
             /\ m >= 8388608 =>
                  /\ (m \div 256) * (256 * q) =< t
                  /\ (m \div 256) * (256 * q) >= t - (t \div 32768)
<1> DEFINE m == t \div q
<1>1. m \in Nat /\ m * q =< t
  BY Quotient
<1>2. t < (m + 1) * q
  <2>1. m + 1 \in Nat /\ ~(m + 1 =< m)
    BY <1>1
  <2>2. ~((m + 1) * q =< t)
    BY <2>1, Quotient
  <2>3. (m + 1) * q \in Nat
    BY <1>1
  <2> QED
    BY <2>2, <2>3
<1> HIDE DEF m
<1>3. (m + 1) * q = m * q + q /\ m * q \in Nat
  BY <1>1
<1>4. q =< t \div 32768 /\ t \div 32768 \in Nat
  BY SMT
<1>5. m * q >= t - (t \div 32768)
  BY <1>1, <1>2, <1>3, <1>4
<1>6. ASSUME m >= 8388608
      PROVE  /\ (m \div 256) * (256 * q) =< t
             /\ (m \div 256) * (256 * q) >= t - (t \div 32768)
  <2> DEFINE h == m \div 256
  <2>1. h \in Nat /\ 256 * h =< m /\ m < 256 * h + 256
    BY <1>1
  <2> HIDE DEF h
  <2>2. h * (256 * q) = (256 * h) * q /\ (256 * h) * q \in Nat /\ 256 * h \in Nat
    BY <2>1
  <2>3. (256 * h) * q =< m * q
    <3> DEFINE a == 256 * h
    <3>1. a \in Nat /\ a =< m
      BY <2>1
    <3> HIDE DEF a
    <3>2. a * q =< m * q
      BY <1>1, <3>1, ProductGrows
    <3> QED
      BY <3>2 DEF a
  <2>4. (m + 1) * q =< (256 * h) * q + 256 * q
    <3> DEFINE a == m + 1
               b == 256 * h + 256
    <3>1. a \in Nat /\ b \in Nat /\ a =< b
      BY <1>1, <2>1
    <3> HIDE DEF a, b
    <3>2. a * q =< b * q
      BY <3>1, ProductGrows
    <3>3. (256 * h + 256) * q = (256 * h) * q + 256 * q
      BY <2>1
    <3> QED
      BY <3>2, <3>3 DEF a, b
  <2>5. 8388608 * q =< m * q
    BY <1>1, <1>6, ProductGrows
  <2>6. 256 * q =< t \div 32768
    <3>1. 8388608 * q =< t
      BY <1>1, <1>3, <2>5
    <3> QED
      BY <3>1, SMT
  <2>7. (256 * h) * q >= t - (t \div 32768)
    BY <1>2, <1>3, <1>4, <2>2, <2>4, <2>6
  <2> QED
    BY <1>1, <1>3, <2>2, <2>3, <2>7 DEF h
<1> QED
  BY <1>1, <1>5, <1>6 DEF m

(* It is never easier, and hardly harder. *)
LEMMA CompactIsClose ==
  ASSUME NEW t, IsTarget(t)
  PROVE  /\ Compact(t) \in Nat
         /\ Compact(t) =< t
         /\ Compact(t) >= t - (t \div 2^15)
<1> DEFINE n == Grading!ByteLength(t)
           m == IF n =< 3 THEN t * Grading!Place[3 - n] ELSE t \div Grading!Place[n - 3]
<1>1. Grading!TargetToBits(t) =
          IF m >= 2^23 THEN [exponent |-> n + 1, mantissa |-> m \div 256]
                       ELSE [exponent |-> n, mantissa |-> m]
  BY DEF Grading!TargetToBits
<1>2. \A e, k : Grading!BitsToTarget([exponent |-> e, mantissa |-> k]) =
                   IF e =< 3 THEN k \div Grading!Place[3 - e] ELSE k * Grading!Place[e - 3]
  BY DEF Grading!BitsToTarget
<1>3. /\ n \in Nat \ {0} /\ t \div Grading!Place[n - 1] < 256
      /\ n > 1 => t \div Grading!Place[n - 2] >= 256
      /\ t \in Nat \ {0}
  BY Bytes DEF IsTarget
<1> HIDE DEF n
<1>4. Compact(t) =
          IF m >= 2^23
          THEN IF n + 1 =< 3 THEN (m \div 256) \div Grading!Place[3 - (n + 1)]
                             ELSE (m \div 256) * Grading!Place[(n + 1) - 3]
          ELSE IF n =< 3 THEN m \div Grading!Place[3 - n] ELSE m * Grading!Place[n - 3]
  BY <1>1, <1>2 DEF Compact
<1>5. CASE n = 1
  <2>1. t < 256 /\ m = t * 256 * 256
    BY <1>3, <1>5, SmallPlaces
  <2>2. Compact(t) = IF m >= 2^23 THEN (m \div 256) \div 256 ELSE m \div (256 * 256)
    BY <1>4, <1>5, SmallPlaces
  <2> HIDE DEF m
  <2> QED
    BY <1>3, <2>1, <2>2, Powers, SMT
<1>6. CASE n = 2
  <2>1. m = t * 256
    BY <1>3, <1>6, SmallPlaces
  <2>2. Compact(t) = IF m >= 2^23 THEN (m \div 256) \div 1 ELSE m \div 256
    BY <1>4, <1>6, SmallPlaces
  <2> HIDE DEF m
  <2> QED
    BY <1>3, <2>1, <2>2, Powers, SMT
<1>7. CASE n = 3
  <2>1. m = t
    BY <1>3, <1>7, SmallPlaces
  <2>2. Compact(t) = IF m >= 2^23 THEN (m \div 256) * 256 ELSE m \div 1
    BY <1>4, <1>7, SmallPlaces
  <2> HIDE DEF m
  <2> QED
    BY <1>3, <2>1, <2>2, Powers, SMT
<1>8. CASE n > 3
  <2> DEFINE q == Grading!Place[n - 3]
  <2>1. /\ n - 3 \in Nat /\ n - 2 \in Nat /\ (n - 3) + 1 = n - 2 /\ (n + 1) - 3 = n - 2
    BY <1>3, <1>8
  <2>2. q \in Nat \ {0} /\ Grading!Place[n - 2] = 256 * q
    BY <2>1, PlaceUnfolds
  <2>3. m = t \div q
    BY <1>3, <1>8
  <2>4. Compact(t) = IF m >= 2^23 THEN (m \div 256) * (256 * q) ELSE m * q
    BY <1>3, <1>4, <1>8, <2>1, <2>2
  <2>5. t \div (256 * q) >= 256
    BY <1>3, <1>8, <2>2
  <2> HIDE DEF q, m
  <2>6. 65536 * q =< t
    <3> DEFINE d == 256 * q
    <3>1. d \in Nat \ {0} /\ 65536 * q = 256 * d
      BY <2>2
    <3>2. t \div d >= 256
      BY <2>5
    <3> HIDE DEF d
    <3>3. t \div d \in Nat /\ (t \div d) * d =< t
      BY <1>3, <3>1, Quotient
    <3>4. 256 * d =< (t \div d) * d
      BY <3>1, <3>2, <3>3, ProductGrows
    <3> QED
      BY <1>3, <3>1, <3>3, <3>4
  <2>7. /\ m \in Nat /\ m * q =< t /\ m * q >= t - (t \div 32768)
        /\ m >= 8388608 => /\ (m \div 256) * (256 * q) =< t
                           /\ (m \div 256) * (256 * q) >= t - (t \div 32768)
    <3>1. /\ t \div q \in Nat /\ (t \div q) * q =< t /\ (t \div q) * q >= t - (t \div 32768)
          /\ t \div q >= 8388608 =>
                /\ ((t \div q) \div 256) * (256 * q) =< t
                /\ ((t \div q) \div 256) * (256 * q) >= t - (t \div 32768)
      <4>1. t \in Nat /\ q \in Nat \ {0} /\ 65536 * q =< t
        BY <1>3, <2>2, <2>6
      <4> HIDE <1>3, <2>2
      <4> QED
        BY <4>1, Truncated
    <3> QED
      BY <2>3, <3>1
  <2>8. (m \div 256) * (256 * q) \in Nat /\ m * q \in Nat
    <3>1. m \div 256 \in Nat /\ 256 * q \in Nat
      BY <2>2, <2>7
    <3> QED
      BY <2>2, <2>7, <3>1
  <2>9. 2^15 = 32768 /\ 2^23 = 8388608
    BY Powers
  <2> QED
    BY <2>4, <2>7, <2>8, <2>9
<1> QED
  BY <1>3, <1>5, <1>6, <1>7, <1>8

(* A verdict compares the hash with the compact target. *)
GradeInv ==
    /\ IsTarget(target) /\ hash \in Int
    /\ hash = -1 => verdict = "unknown"
    /\ verdict = "share" => hash =< Compact(target)
    /\ verdict = "refused" => hash > Compact(target)

LEMMA GradeStarts ==
  Grading!Init \/ NoProof => GradeInv
<1>1. Grading!Init => GradeInv
  BY GradeAssumption DEF Grading!Init, GradeInv, IsTarget
<1>2. NoProof => GradeInv
  <2>1. IsTarget(1)
    <3> DEFINE d == Grading!Place[MaxBytes - 1]
    <3>1. d \in Nat \ {0}
      BY GradeAssumption, PlaceUnfolds
    <3> HIDE DEF d
    <3>2. 1 \div d =< 1 \div 1 /\ 1 \div d \in Nat
      BY <3>1, QuotientShrinks, Quotient
    <3> QED
      BY <3>2 DEF d, IsTarget
  <2>2. Compact(1) \in Nat /\ Compact(1) >= 1 - (1 \div 2^15)
    BY <2>1, CompactIsClose
  <2>3. Compact(1) >= 1
    BY <2>2, Powers, SMT
  <2> QED
    BY <2>1, <2>2, <2>3 DEF NoProof, GradeInv
<1> QED
  BY <1>1, <1>2

LEMMA GradeKept ==
  ASSUME GradeInv, Grading!Next \/ UNCHANGED grading
  PROVE  GradeInv'
<1>1. ASSUME target' = target PROVE Compact(target)' = Compact(target) /\ IsTarget(target)'
  BY <1>1 DEF Compact, GradeInv, IsTarget
<1>2. CASE UNCHANGED grading
  BY <1>1, <1>2 DEF grading, GradeInv
<1>3. ASSUME NEW offset \in Offsets, Grading!Submit(offset) PROVE GradeInv'
  <2>1. /\ hash = -1 /\ target + offset >= 0 /\ hash' = target + offset
        /\ target' = target /\ verdict' = verdict /\ offset \in Int /\ target \in Nat
    BY <1>3, GradeAssumption DEF Grading!Submit, GradeInv, IsTarget
  <2> QED
    BY <1>1, <2>1 DEF GradeInv
<1>4. CASE Grading!Grade
  <2>1. Compact(target) \in Nat
    BY CompactIsClose DEF GradeInv
  <2>2. /\ target' = target /\ hash' = hash /\ hash # -1
        /\ verdict' = IF hash =< Compact(target) THEN "share" ELSE "refused"
    BY <1>4 DEF Grading!Grade, Compact
  <2> QED
    BY <1>1, <2>1, <2>2 DEF GradeInv
<1> QED
  BY <1>2, <1>3, <1>4 DEF Grading!Next

LEMMA GradeCorrect ==
  ASSUME GradeInv
  PROVE  CreditIsEarned /\ RefusalIsMarginal
<1>1. /\ Compact(target) \in Nat /\ Compact(target) =< target
      /\ Compact(target) >= target - (target \div 2^15)
  BY CompactIsClose DEF GradeInv
<1>2. target \in Nat /\ target \div 2^15 \in Nat /\ hash \in Int
  BY Powers, SMT DEF GradeInv, IsTarget
<1> QED
  BY <1>1, <1>2 DEF GradeInv, CreditIsEarned, RefusalIsMarginal,
                    Grading!CreditIsEarned, Grading!RefusalIsMarginal

-----------------------------------------------------------------------------
(* A worker's factor *)

LEMMA LargerOfTwo ==
  ASSUME NEW a \in Nat, NEW b \in Nat
  PROVE  Tuning!Max({a, b}) = IF a >= b THEN a ELSE b
<1> DEFINE m == IF a >= b THEN a ELSE b
<1>1. m \in {a, b} /\ \A y \in {a, b} : m >= y
  OBVIOUS
<1>2. \A x \in {a, b} : (\A y \in {a, b} : x >= y) => x = m
  OBVIOUS
<1> HIDE DEF m
<1>3. Tuning!Max({a, b}) = m
  BY <1>1, <1>2 DEF Tuning!Max
<1> QED
  BY <1>3 DEF m

LEMMA SmallerOfTwo ==
  ASSUME NEW a \in Nat, NEW b \in Nat
  PROVE  Tuning!Min({a, b}) = IF a =< b THEN a ELSE b
<1> DEFINE m == IF a =< b THEN a ELSE b
<1>1. m \in {a, b} /\ \A y \in {a, b} : m =< y
  OBVIOUS
<1>2. \A x \in {a, b} : (\A y \in {a, b} : x =< y) => x = m
  OBVIOUS
<1> HIDE DEF m
<1>3. Tuning!Min({a, b}) = m
  BY <1>1, <1>2 DEF Tuning!Min
<1> QED
  BY <1>3 DEF m

LEMMA TwoFactors ==
  ASSUME NEW a \in Nat, NEW b \in Nat
  PROVE  a * b \in Nat /\ a * b = b * a /\ (2 * a) * b = 2 * (b * a)
OBVIOUS

TuneType ==
    /\ pace \in Nat \ {0} /\ factor \in Nat \ {0}
    /\ ewma \in Nat /\ lucky \in Nat
    /\ jobs \in Seq(Nat \ {0}) /\ Len(jobs) =< MaxAhead
    /\ worked \subseteq Nat \ {0}

(* How often a job's factor may have been doubled by the time it is counted *)
Lead == Tuning!Doubled[MaxAhead - 1]

(***************************************************************************)
(* Each job that was counted since one was minted may have doubled the     *)
(* factor once, and there is no room for more jobs ahead of it.            *)
(***************************************************************************)
FactorFollows ==
    /\ \A k \in DOMAIN jobs : factor =< Tuning!Doubled[MaxAhead - k] * jobs[k]
    /\ \A job \in worked : factor =< Lead * job

(* The average tells of an interval that is too short for the factor by those doublings only. *)
AverageTells == lucky = 0 /\ ewma # 0 => pace * factor =< Lead * ewma

TuneInv == TuneType /\ FactorFollows /\ AverageTells /\ Tuning!OvershootIsBounded

LEMMA LeadType == Lead \in Nat \ {0}
<1>1. MaxAhead - 1 \in Nat
  BY TuningAssumption
<1>2. \A n \in Nat : Tuning!Doubled[n] \in Nat \ {0}
  BY DoubledUnfolds
<1> QED
  BY <1>1, <1>2 DEF Lead

LEMMA Overshoot ==
  ASSUME NEW f \in Nat, NEW p \in Nat
  PROVE  p * f =< Tuning!Max({p * FirstFactor, TargetSeconds * Lead}) <=>
           (\/ p * f =< p * FirstFactor
            \/ p * f =< TargetSeconds * Lead)
<1>1. FirstFactor \in Nat /\ TargetSeconds \in Nat /\ Lead \in Nat
  BY TuningAssumption, LeadType
<1> DEFINE a == p * FirstFactor
           b == TargetSeconds * Lead
           c == p * f
<1>2. a \in Nat /\ b \in Nat /\ c \in Nat
  BY <1>1
<1> HIDE DEF a, b, c
<1>3. c =< Tuning!Max({a, b}) <=> c =< a \/ c =< b
  BY <1>2, LargerOfTwo
<1> QED
  BY <1>3 DEF a, b, c

(* Tuning at most doubles a factor, and only when the average is short. *)
LEMMA TunedBounded ==
  ASSUME TuneType, NEW average \in Nat
  PROVE  /\ Tuning!Tuned(average) \in Nat \ {0}
         /\ \/ Tuning!Tuned(average) =< factor
            \/ 2 * average < TargetSeconds /\ Tuning!Tuned(average) =< 2 * factor
<1>1. MaxFactor \in Nat \ {0} /\ TargetSeconds \in Nat /\ factor \in Nat \ {0}
  BY TuningAssumption DEF TuneType
<1>2. factor * 2 \in Nat /\ factor \div 2 \in Nat /\ factor \div 2 =< factor
  BY <1>1
<1>3. /\ Tuning!Min({MaxFactor, factor * 2}) \in Nat \ {0}
      /\ Tuning!Min({MaxFactor, factor * 2}) =< 2 * factor
  BY <1>1, <1>2, SmallerOfTwo
<1>4. /\ Tuning!Max({1, factor \div 2}) \in Nat \ {0}
      /\ Tuning!Max({1, factor \div 2}) =< factor
  BY <1>1, <1>2, LargerOfTwo
<1>5. CASE 2 * average < TargetSeconds
  BY <1>1, <1>3, <1>5 DEF Tuning!Tuned
<1>6. CASE ~(2 * average < TargetSeconds) /\ average > 2 * TargetSeconds
  BY <1>4, <1>6 DEF Tuning!Tuned
<1>7. CASE ~(2 * average < TargetSeconds) /\ ~(average > 2 * TargetSeconds)
  BY <1>1, <1>7 DEF Tuning!Tuned
<1> QED
  BY <1>5, <1>6, <1>7

(* What is left of the jobs when the first one is gone *)
LEMMA Rest ==
  ASSUME TuneInv, jobs # <<>>
  PROVE  /\ Head(jobs) \in Nat \ {0} /\ factor =< Lead * Head(jobs)
         /\ Tail(jobs) \in Seq(Nat \ {0}) /\ Len(Tail(jobs)) =< MaxAhead
         /\ \A k \in DOMAIN Tail(jobs) :
                /\ Tail(jobs)[k] \in Nat \ {0} /\ MaxAhead - k \in Nat /\ MaxAhead - (k + 1) \in Nat
                /\ Tuning!Doubled[MaxAhead - k] = 2 * Tuning!Doubled[MaxAhead - (k + 1)]
                /\ Tuning!Doubled[MaxAhead - (k + 1)] \in Nat
                /\ factor =< Tuning!Doubled[MaxAhead - (k + 1)] * Tail(jobs)[k]
<1>1. /\ jobs \in Seq(Nat \ {0}) /\ Len(jobs) =< MaxAhead /\ MaxAhead \in Nat \ {0}
      /\ Len(jobs) \in Nat \ {0} /\ DOMAIN jobs = 1..Len(jobs)
  BY TuningAssumption DEF TuneInv, TuneType
<1>2. /\ Tail(jobs) \in Seq(Nat \ {0}) /\ Len(Tail(jobs)) = Len(jobs) - 1
      /\ DOMAIN Tail(jobs) = 1..(Len(jobs) - 1)
      /\ \A k \in 1..(Len(jobs) - 1) : Tail(jobs)[k] = jobs[k + 1]
      /\ Head(jobs) = jobs[1]
  BY <1>1
<1>3. \A k \in DOMAIN jobs :
         jobs[k] \in Nat \ {0} /\ factor =< Tuning!Doubled[MaxAhead - k] * jobs[k]
  BY <1>1 DEF TuneInv, FactorFollows
<1>4. Head(jobs) \in Nat \ {0} /\ factor =< Lead * Head(jobs)
  <2>1. 1 \in DOMAIN jobs
    BY <1>1
  <2> QED
    BY <1>2, <1>3, <2>1 DEF Lead
<1>5. ASSUME NEW k \in DOMAIN Tail(jobs)
      PROVE  /\ Tail(jobs)[k] \in Nat \ {0} /\ MaxAhead - k \in Nat /\ MaxAhead - (k + 1) \in Nat
             /\ Tuning!Doubled[MaxAhead - k] = 2 * Tuning!Doubled[MaxAhead - (k + 1)]
             /\ Tuning!Doubled[MaxAhead - (k + 1)] \in Nat
             /\ factor =< Tuning!Doubled[MaxAhead - (k + 1)] * Tail(jobs)[k]
  <2>1. k \in 1..(Len(jobs) - 1) /\ k + 1 \in DOMAIN jobs
    BY <1>1, <1>2
  <2>2. /\ MaxAhead - k \in Nat /\ MaxAhead - (k + 1) \in Nat
        /\ (MaxAhead - (k + 1)) + 1 = MaxAhead - k
    <3>1. k \in Nat /\ MaxAhead \in Nat /\ k + 1 =< MaxAhead
      BY <1>1, <2>1
    <3> HIDE <1>1, <2>1
    <3> QED
      BY <3>1
  <2>3. /\ Tuning!Doubled[(MaxAhead - (k + 1)) + 1] = 2 * Tuning!Doubled[MaxAhead - (k + 1)]
        /\ Tuning!Doubled[MaxAhead - (k + 1)] \in Nat
    BY <2>2, DoubledUnfolds
  <2> QED
    BY <1>2, <1>3, <2>1, <2>2, <2>3
<1> QED
  BY <1>1, <1>2, <1>4, <1>5

(* A share that is counted *)
LEMMA ShareKeeps ==
  ASSUME TuneInv, NEW interval \in Nat \ {0}, Tuning!Share(interval), lucky' \in Nat,
         lucky' = 0 => /\ lucky = 0
                       /\ \E job \in worked \cup {Head(jobs)} : interval = pace * job
  PROVE  TuneInv'
<1> DEFINE average == Tuning!Average(interval)
<1>1. /\ pace \in Nat \ {0} /\ factor \in Nat \ {0} /\ ewma \in Nat
      /\ TargetSeconds \in Nat /\ FirstFactor \in Nat /\ Lead \in Nat \ {0}
      /\ worked \subseteq Nat \ {0}
  BY TuningAssumption, LeadType DEF TuneInv, TuneType
<1>2. /\ pace' = pace /\ jobs # <<>> /\ jobs' = Tail(jobs) /\ worked' = {}
      /\ \/ factor' = factor /\ ewma' = ewma
         \/ /\ factor' = Tuning!Tuned(average)
            /\ ewma' = IF factor' = factor THEN average ELSE 0
  BY DEF Tuning!Share, Tuning!Record, Tuning!NoInterval
<1>3. Lead' = Lead
  BY DEF Lead
<1>5. average \in Nat
  <2>1. 7 * ewma + 3 * interval \in Nat
    BY <1>1
  <2>2. (7 * ewma + 3 * interval) \div 10 \in Nat
    BY <2>1
  <2> QED
    BY <2>2 DEF Tuning!Average, Tuning!NoInterval
<1>6. average >= interval \/ (ewma # 0 /\ average >= ewma)
  <2>1. CASE ewma = 0
    <3>1. average = interval
      BY <2>1 DEF Tuning!Average, Tuning!NoInterval
    <3> QED
      BY <3>1
  <2>2. CASE ewma # 0
    <3>1. average = (7 * ewma + 3 * interval) \div 10
      BY <2>2 DEF Tuning!Average, Tuning!NoInterval
    <3> QED
      BY <1>1, <2>2, <3>1
  <2> QED
    BY <2>1, <2>2
<1> HIDE DEF average
<1>7. TuneType
  BY DEF TuneInv
<1>8. /\ factor' \in Nat \ {0} /\ ewma' \in Nat
      /\ factor' =< 2 * factor
      /\ factor' =< factor \/ 2 * average < TargetSeconds
  <2>1. CASE factor' = factor /\ ewma' \in {ewma, average, 0}
    BY <1>1, <1>5, <2>1
  <2>2. CASE factor' = Tuning!Tuned(average) /\ ewma' \in {average, 0}
    BY <1>1, <1>5, <1>7, <2>2, TunedBounded
  <2> QED
    BY <1>2, <2>1, <2>2
<1>9. TuneType'
  BY <1>1, <1>2, <1>8, Rest DEF TuneType
<1>10. FactorFollows'
  <2>1. ASSUME NEW k \in DOMAIN Tail(jobs)
        PROVE  factor' =< Tuning!Doubled[MaxAhead - k] * Tail(jobs)[k]
    <3> DEFINE d == Tuning!Doubled[MaxAhead - (k + 1)]
               j == Tail(jobs)[k]
    <3>1. /\ j \in Nat /\ d \in Nat /\ factor =< d * j
          /\ Tuning!Doubled[MaxAhead - k] = 2 * d
      BY <1>2, Rest
    <3> HIDE DEF d, j
    <3>2. (2 * d) * j = 2 * (d * j) /\ d * j \in Nat
      BY <3>1, TwoFactors
    <3>3. factor' =< (2 * d) * j
      BY <1>1, <1>8, <3>1, <3>2
    <3> QED
      BY <3>1, <3>3 DEF j
  <2> QED
    BY <1>2, <2>1 DEF FactorFollows
<1>15. ASSUME lucky' = 0
       PROVE  /\ lucky = 0 /\ pace * factor =< Lead * interval
              /\ ewma # 0 => pace * factor =< Lead * ewma
  <2>1. PICK job \in worked \cup {Head(jobs)} : interval = pace * job
    BY <1>15
  <2>2. job \in Nat /\ factor =< Lead * job
    BY <1>1, <1>2, Rest DEF TuneInv, FactorFollows
  <2>3. factor * pace =< (Lead * job) * pace
    <3> DEFINE much == Lead * job
    <3>1. much \in Nat /\ factor =< much
      BY <1>1, <2>2, TwoFactors
    <3> HIDE DEF much
    <3>2. factor * pace =< much * pace
      BY <1>1, <3>1, ProductGrows
    <3> QED
      BY <3>2 DEF much
  <2>4. (Lead * job) * pace = Lead * (pace * job) /\ factor * pace = pace * factor
    BY <1>1, <2>2
  <2> QED
    BY <1>15, <2>1, <2>3, <2>4 DEF TuneInv, AverageTells
<1>16. ASSUME lucky' = 0 PROVE pace * factor =< Lead * average
  <2>2. PICK e \in {interval, ewma} : e =< average /\ pace * factor =< Lead * e
    BY <1>6, <1>15, <1>16
  <2>3. e \in Nat
    BY <1>1, <2>2
  <2>4. e * Lead =< average * Lead
    BY <1>1, <1>5, <2>2, <2>3, ProductGrows
  <2>5. /\ e * Lead = Lead * e /\ Lead * e \in Nat
        /\ average * Lead = Lead * average /\ Lead * average \in Nat
        /\ pace * factor \in Nat
    BY <1>1, <1>5, <2>3, TwoFactors
  <2> QED
    BY <2>2, <2>4, <2>5
<1>17. AverageTells'
  <2> SUFFICES ASSUME lucky' = 0, ewma' # 0 PROVE pace' * factor' =< Lead * ewma'
    BY <1>3 DEF AverageTells
  <2>1. CASE factor' = factor /\ ewma' = ewma
    BY <1>2, <1>15, <2>1
  <2>2. CASE factor' = factor /\ ewma' = average
    BY <1>2, <1>16, <2>2
  <2> QED
    BY <1>2, <2>1, <2>2
<1>18. ASSUME lucky' = 0
       PROVE  \/ pace * factor' =< pace * FirstFactor
              \/ pace * factor' =< TargetSeconds * Lead
  <2>0. factor' \in Nat /\ factor' =< 2 * factor
    BY <1>8
  <2>2. CASE factor' =< factor
    <3>1. lucky = 0
      BY <1>15, <1>18
    <3>2. \/ pace * factor =< pace * FirstFactor
          \/ pace * factor =< TargetSeconds * Lead
      BY <1>1, <3>1, Overshoot DEF TuneInv, Tuning!OvershootIsBounded, Tuning!Interval, Lead
    <3>3. factor' * pace =< factor * pace
      BY <1>1, <1>8, <2>2, ProductGrows
    <3>5. /\ factor' * pace = pace * factor' /\ factor * pace = pace * factor
          /\ pace * factor' \in Nat /\ pace * factor \in Nat /\ pace * FirstFactor \in Nat
          /\ TargetSeconds * Lead \in Nat
      BY <1>1, <2>0, TwoFactors
    <3> QED
      BY <3>2, <3>3, <3>5
  <2>3. CASE 2 * average < TargetSeconds
    <3>1. pace * factor =< Lead * average
      BY <1>16, <1>18
    <3>2. factor' * pace =< (2 * factor) * pace
      <4>1. 2 * factor \in Nat /\ pace \in Nat /\ factor' \in Nat /\ factor' =< 2 * factor
        BY <1>1, <2>0
      <4> DEFINE twice == 2 * factor
      <4> HIDE DEF twice
      <4> QED
        BY <4>1, ProductGrows DEF twice
    <3>3. (2 * average) * Lead =< TargetSeconds * Lead
      BY <1>1, <1>5, <2>3, ProductGrows
    <3>4. /\ (2 * factor) * pace = 2 * (pace * factor) /\ factor' * pace = pace * factor'
          /\ pace * factor \in Nat /\ pace * factor' \in Nat
      BY <1>1, <2>0, TwoFactors
    <3>5. /\ (2 * average) * Lead = 2 * (Lead * average)
          /\ Lead * average \in Nat /\ TargetSeconds * Lead \in Nat
      BY <1>1, <1>5, TwoFactors
    <3> QED
      BY <3>1, <3>2, <3>3, <3>4, <3>5
  <2> QED
    BY <1>8, <2>2, <2>3
<1>19. Tuning!OvershootIsBounded'
  <2>1. lucky' = 0 => pace * factor' =< Tuning!Max({pace * FirstFactor, TargetSeconds * Lead})
    <3>1. pace \in Nat /\ factor' \in Nat
      BY <1>1, <1>8
    <3> DEFINE f == factor'
    <3> HIDE DEF f
    <3> QED
      BY <1>18, <3>1, Overshoot DEF f
  <2> QED
    BY <1>2, <2>1 DEF Tuning!OvershootIsBounded, Tuning!Interval, Lead
<1> QED
  BY <1>9, <1>10, <1>17, <1>19 DEF TuneInv

LEMMA TuneStarts ==
  ASSUME Tuning!Init
  PROVE  TuneInv
<1>1. /\ pace \in Nat \ {0} /\ factor = FirstFactor /\ ewma = 0 /\ lucky = 0
      /\ jobs = <<>> /\ worked = {} /\ FirstFactor \in Nat \ {0} /\ MaxAhead \in Nat
  BY TuningAssumption DEF Tuning!Init, Tuning!NoInterval
<1>2. TuneType
  <2>1. <<>> \in Seq(Nat \ {0}) /\ Len(<<>>) = 0
    OBVIOUS
  <2>2. Len(jobs) =< MaxAhead
    BY <1>1
  <2> QED
    BY <1>1, <2>1, <2>2 DEF TuneType
<1>3. FactorFollows
  <2>1. DOMAIN <<>> = {}
    OBVIOUS
  <2> QED
    BY <1>1, <2>1 DEF FactorFollows
<1>4. AverageTells
  BY <1>1 DEF AverageTells
<1>5. Tuning!OvershootIsBounded
  <2>1. pace * factor =< pace * FirstFactor
    BY <1>1
  <2> QED
    BY <1>1, <2>1, Overshoot DEF Tuning!OvershootIsBounded, Tuning!Interval, Lead
<1> QED
  BY <1>2, <1>3, <1>4, <1>5 DEF TuneInv

LEMMA TuneKept ==
  ASSUME TuneInv, Tuning!Next \/ UNCHANGED tuning
  PROVE  TuneInv'
<1>1. /\ pace \in Nat \ {0} /\ factor \in Nat \ {0} /\ lucky \in Nat
      /\ jobs \in Seq(Nat \ {0}) /\ worked \subseteq Nat \ {0}
  BY DEF TuneInv, TuneType
<1>6. ASSUME UNCHANGED <<pace, factor, ewma, lucky>>
      PROVE  AverageTells' /\ Tuning!OvershootIsBounded'
  BY <1>6 DEF TuneInv, AverageTells, Lead, Tuning!OvershootIsBounded, Tuning!Interval
<1>2. CASE UNCHANGED tuning
  BY <1>2 DEF tuning, TuneInv, TuneType, FactorFollows, AverageTells, Lead,
              Tuning!OvershootIsBounded, Tuning!Interval
<1>3. CASE Tuning!Deliver
  <2>1. PICK job \in worked \cup {Head(jobs)} : Tuning!Share(pace * job)
    BY <1>3 DEF Tuning!Deliver
  <2>2. lucky' = lucky /\ jobs # <<>>
    BY <1>3 DEF Tuning!Deliver
  <2>3. job \in Nat \ {0} /\ pace * job \in Nat \ {0}
    BY <1>1, <2>2, Rest
  <2> QED
    BY <1>1, <2>1, <2>2, <2>3, ShareKeeps
<1>4. CASE Tuning!Mint
  <2>1. /\ UNCHANGED <<pace, factor, ewma, worked, lucky>>
        /\ Len(jobs) < MaxAhead /\ jobs' = Append(jobs, factor)
    BY <1>4 DEF Tuning!Mint
  <2>2. /\ jobs' \in Seq(Nat \ {0}) /\ Len(jobs) \in Nat /\ Len(jobs') = Len(jobs) + 1
        /\ DOMAIN jobs = 1..Len(jobs) /\ DOMAIN jobs' = 1..(Len(jobs) + 1)
        /\ \A k \in 1..Len(jobs) : jobs'[k] = jobs[k]
        /\ jobs'[Len(jobs) + 1] = factor
    BY <1>1, <2>1
  <2>3. TuneType'
    BY <2>1, <2>2, TuningAssumption DEF TuneInv, TuneType
  <2>4. ASSUME NEW k \in DOMAIN jobs' PROVE factor' =< Tuning!Doubled[MaxAhead - k] * jobs'[k]
    <3>1. CASE k = Len(jobs) + 1
      <4>1. MaxAhead - k \in Nat
        BY <2>1, <2>2, <3>1, TuningAssumption
      <4> DEFINE d == Tuning!Doubled[MaxAhead - k]
      <4>2. d \in Nat \ {0}
        BY <4>1, DoubledUnfolds
      <4> HIDE DEF d
      <4>3. 1 * factor =< d * factor /\ 1 * factor = factor
        BY <1>1, <4>2, ProductGrows
      <4> QED
        BY <2>1, <2>2, <3>1, <4>3 DEF d
    <3>2. CASE k # Len(jobs) + 1
      <4>1. k \in DOMAIN jobs /\ jobs'[k] = jobs[k]
        BY <2>2, <3>2
      <4> QED
        BY <2>1, <4>1 DEF TuneInv, FactorFollows
    <3> QED
      BY <3>1, <3>2
  <2>5. FactorFollows'
    BY <2>1, <2>4 DEF TuneInv, FactorFollows, Lead
  <2> QED
    BY <1>6, <2>1, <2>3, <2>5 DEF TuneInv
<1>7. CASE Tuning!Replace
  <2>1. /\ UNCHANGED <<pace, factor, ewma, lucky>> /\ jobs # <<>>
        /\ jobs' = Tail(jobs) /\ worked' = worked \cup {Head(jobs)}
    BY <1>1, <1>7 DEF Tuning!Replace
  <2>2. TuneType'
    BY <1>1, <2>1, Rest DEF TuneInv, TuneType
  <2>3. ASSUME NEW k \in DOMAIN Tail(jobs)
        PROVE  factor =< Tuning!Doubled[MaxAhead - k] * Tail(jobs)[k]
    <3> DEFINE d == Tuning!Doubled[MaxAhead - (k + 1)]
               j == Tail(jobs)[k]
    <3>1. /\ j \in Nat /\ d \in Nat /\ factor =< d * j
          /\ Tuning!Doubled[MaxAhead - k] = 2 * d
      BY <2>1, Rest
    <3> HIDE DEF d, j
    <3>2. (2 * d) * j = 2 * (d * j) /\ d * j \in Nat
      BY <3>1, TwoFactors
    <3>3. factor =< (2 * d) * j
      BY <1>1, <3>1, <3>2
    <3> QED
      BY <3>1, <3>3 DEF j
  <2>4. \A job \in worked \cup {Head(jobs)} : factor =< Lead * job
    BY <2>1, Rest DEF TuneInv, FactorFollows
  <2>5. FactorFollows'
    BY <2>1, <2>3, <2>4 DEF FactorFollows, Lead
  <2> QED
    BY <1>6, <2>1, <2>2, <2>5 DEF TuneInv
<1>5. ASSUME NEW interval \in Lucks, Tuning!DeliverByLuck(interval) PROVE TuneInv'
  <2>1. Tuning!Share(interval) /\ lucky' = lucky + 1 /\ interval \in Nat \ {0}
    BY <1>5, TuningAssumption DEF Tuning!DeliverByLuck
  <2>2. lucky' \in Nat /\ lucky' # 0
    BY <1>1, <2>1
  <2> QED
    BY <2>1, <2>2, ShareKeeps
<1> QED
  BY <1>2, <1>3, <1>4, <1>5, <1>7 DEF Tuning!Next

-----------------------------------------------------------------------------
(* The parts together *)

LEMMA SplitRests ==
  ASSUME NoSplit
  PROVE  SplitInv
<1>1. /\ reward = 0 /\ minimum = 0 /\ weight = [a \in Addresses |-> 0]
      /\ survivors = {} /\ payouts = [a \in {} |-> 0] /\ phase = "paid"
  BY DEF NoSplit
<1>2. Positive = {}
  BY <1>1 DEF Positive
<1>3. SplitType
  BY <1>1, <1>2 DEF SplitType
<1> QED
  BY <1>1, <1>2, <1>3
     DEF SplitInv, TopSurvives, SomeoneSurvives, NoLargerClears, PaidToSurvivors

LEMMA SplitKept ==
  ASSUME SplitInv, Next \/ UNCHANGED vars
  PROVE  SplitInv'
<1>1. CASE Next
  BY <1>1, DropKeeps, PayKeeps DEF Next
<1>2. CASE UNCHANGED vars
  <2>1. /\ reward' = reward /\ minimum' = minimum /\ weight' = weight
        /\ survivors' = survivors /\ payouts' = payouts /\ phase' = phase
    BY <1>2 DEF vars
  <2>2. Positive' = Positive
    BY <2>1 DEF Positive
  <2>3. \A s : TotalOf(s)' = TotalOf(s)
    BY <2>1 DEF TotalOf, MapThenSumSet, MapThenFoldSet
  <2>4. \A a, s : GrainsOf(a, s)' = GrainsOf(a, s)
    BY <2>1, <2>3 DEF GrainsOf
  <2>5. /\ \A s : Clears(s)' <=> Clears(s)
        /\ \A k : Heaviest(k)' = Heaviest(k)
        /\ \A s : Worst(s)' = Worst(s) /\ FirstOf(s)' = FirstOf(s) /\ LastOf(s)' = LastOf(s)
    BY <2>1, <2>2, <2>4 DEF Clears, Heaviest, Outlives, Worst, FirstOf, LastOf, Before
  <2>6. MustDrop' <=> MustDrop
    BY <2>1, <2>4, <2>5 DEF MustDrop
  <2>7. Split(survivors)' = Split(survivors)
    BY <2>1 DEF Split, LastOf, Before, GrainsOf, TotalOf, MapThenSumSet, MapThenFoldSet
  <2>8. Paid(survivors)' = Paid(survivors)
    BY <2>1, <2>4, <2>5, <2>7 DEF Paid
  <2> QED
    BY <2>1, <2>2, <2>5, <2>6, <2>8
       DEF SplitInv, SplitType, TopSurvives, SomeoneSurvives, NoLargerClears, PaidToSurvivors,
           Outlives
<1> QED
  BY <1>1, <1>2

ArithmeticInv == SplitInv /\ GradeInv /\ TuneInv /\ GateInv

LEMMA AnyStarts ==
  ASSUME AnyInit
  PROVE  ArithmeticInv
<1>1. SplitInv
  BY SplitStarts, SplitRests DEF AnyInit
<1>2. GradeInv
  BY GradeStarts DEF AnyInit
<1>3. TuneInv
  BY TuneStarts DEF AnyInit, NoWorker
<1>4. GateInv
  BY GateStarts DEF AnyInit
<1> QED
  BY <1>1, <1>2, <1>3, <1>4 DEF ArithmeticInv

(* A step of one part leaves the others alone. *)
LEMMA AnyKept ==
  ASSUME ArithmeticInv, [AnyNext]_all
  PROVE  ArithmeticInv'
<1>1. /\ Next \/ UNCHANGED vars
      /\ Grading!Next \/ UNCHANGED grading
      /\ Tuning!Next \/ UNCHANGED tuning
      /\ Gate!Next \/ UNCHANGED gate
  BY DEF AnyNext, all
<1>2. SplitInv'
  BY <1>1, SplitKept DEF ArithmeticInv
<1>3. GradeInv'
  BY <1>1, GradeKept DEF ArithmeticInv
<1>4. TuneInv'
  BY <1>1, TuneKept DEF ArithmeticInv
<1>5. GateInv'
  BY <1>1, GateKept DEF ArithmeticInv
<1> QED
  BY <1>2, <1>3, <1>4, <1>5 DEF ArithmeticInv

(* The state that the proofs rest on: loop, verdict, factor and windows, at every step. *)
THEOREM ArithmeticInvariance == AnySpec => []ArithmeticInv
<1>1. AnyInit => ArithmeticInv
  BY AnyStarts
<1>2. ArithmeticInv /\ [AnyNext]_all => ArithmeticInv'
  BY AnyKept
<1> QED
  BY <1>1, <1>2, PTL DEF AnySpec

(* The grains paid add up to the block reward (compute_pplns_payouts). *)
THEOREM SplitPaysExactly == AnySpec => []PaysExactly
<1>1. ArithmeticInv => PaysExactly
  BY SplitCorrect DEF ArithmeticInv
<1> QED
  BY <1>1, ArithmeticInvariance, PTL

(* The loop that drops the smallest miner one at a time ends with the
   largest set of the heaviest in which everyone clears the minimum. *)
THEOREM SplitDropsNobodyInVain == AnySpec => []NobodyDroppedInVain
<1>1. ArithmeticInv => NobodyDroppedInVain
  BY SplitCorrect DEF ArithmeticInv
<1> QED
  BY <1>1, ArithmeticInvariance, PTL

(* Whoever is paid gets no less than its part of the whole window. *)
THEOREM SplitIsProportional == AnySpec => []PaidInProportion
<1>1. ArithmeticInv => PaidInProportion
  BY SplitCorrect DEF ArithmeticInv
<1> QED
  BY <1>1, ArithmeticInvariance, PTL

(* A share that the verifier accepts by its compact target meets the job's,
   however many bytes the target has. *)
THEOREM GradeIsEarned == AnySpec => []CreditIsEarned
<1>1. ArithmeticInv => CreditIsEarned
  BY GradeCorrect DEF ArithmeticInv
<1> QED
  BY <1>1, ArithmeticInvariance, PTL

(* A hash that the compact target refuses is above the job's target or in
   the last of its 2^15 parts. *)
THEOREM GradeIsMarginal == AnySpec => []RefusalIsMarginal
<1>1. ArithmeticInv => RefusalIsMarginal
  BY GradeCorrect DEF ArithmeticInv
<1> QED
  BY <1>1, ArithmeticInvariance, PTL

(* Without luck a worker waits no longer for a share than at first, or than
   the target doubled once for each job that may be minted ahead. *)
THEOREM TuningOvershoot == AnySpec => []OvershootIsBounded
<1>1. ArithmeticInv => OvershootIsBounded
  BY DEF ArithmeticInv, TuneInv, OvershootIsBounded
<1> QED
  BY <1>1, ArithmeticInvariance, PTL

(* A request is ignored only when its window has already been served as
   many of its kind as the limit allows (_Peer.allow). *)
THEOREM GateIgnoresOnlyOverLimit == AnySpec => []IgnoredOnlyOverLimit
<1>1. ArithmeticInv => IgnoredOnlyOverLimit
  BY DEF ArithmeticInv, GateInv, IgnoredOnlyOverLimit
<1> QED
  BY <1>1, ArithmeticInvariance, PTL

(* Within the length of a window, wherever it starts, less than twice the
   limit is served. *)
THEOREM GateServesLessThanTwice == AnySpec => []ServedLessThanTwice
<1>1. ArithmeticInv => ServedLessThanTwice
  BY DEF ArithmeticInv, GateInv, ServedLessThanTwice
<1> QED
  BY <1>1, ArithmeticInvariance, PTL
=============================================================================
