-------------------------- MODULE ShareRulesProofs --------------------------
(***************************************************************************)
(* Facts about the operators of ShareRules: what they return for every     *)
(* value of the constants and every history of shares.                     *)
(***************************************************************************)
EXTENDS ShareRules, TLAPS, FiniteSetTheorems, WellFoundedInduction

-----------------------------------------------------------------------------
(* Sums over finite sets *)

(***************************************************************************)
(* WorkOf adds up a finite set of shares by a recursive function on its    *)
(* subsets.  Both that this function exists and that its values are        *)
(* natural numbers need induction; each proof below takes a smallest       *)
(* counterexample and refutes it.                                          *)
(***************************************************************************)
Pick(s) == CHOOSE x \in s : TRUE

SumStep(S, g, s) == IF s = {} THEN 0 ELSE Difficulty(S[Pick(s)]) + g[s \ {Pick(s)}]

SmallSubsets(ids, n) == {s \in SUBSET ids : Cardinality(s) =< n}

Less == {p \in Nat \X Nat : p[1] < p[2]}

(* A nonempty set of natural numbers has a least element. *)
LEMMA LeastNat ==
  ASSUME NEW T \in SUBSET Nat, T # {}
  PROVE  \E n \in T : \A k \in T : n =< k
<1>1. IsWellFoundedOn(OpToRel(<, Nat), Nat)
  BY NatLessThanWellFounded
<1>2. PICK n \in T : \A k \in T : ~(<<k, n>> \in OpToRel(<, Nat))
  BY <1>1, WFMin
<1>3. \A k \in T : ~(k < n)
  BY <1>2 DEF OpToRel
<1> QED
  BY <1>3

(* The subsets of at most n shares have a sum, for every n. *)
LEMMA SumExists ==
  ASSUME NEW S, NEW ids, IsFiniteSet(ids), \A i \in ids : Difficulty(S[i]) \in Nat,
         NEW n \in Nat
  PROVE  \E g \in [SmallSubsets(ids, n) -> Nat] :
            \A s \in SmallSubsets(ids, n) : g[s] = SumStep(S, g, s)
<1> DEFINE Has(m) == \E g \in [SmallSubsets(ids, m) -> Nat] :
                        \A s \in SmallSubsets(ids, m) : g[s] = SumStep(S, g, s)
           Bad == {m \in Nat : ~Has(m)}
<1>1. SUFFICES ASSUME Bad # {} PROVE FALSE
  BY <1>1
<1>2. PICK m \in Bad : \A k \in Bad : m =< k
  BY <1>1, LeastNat
<1>3. \A s \in SUBSET ids : IsFiniteSet(s) /\ Cardinality(s) \in Nat
  BY FS_Subset, FS_CardinalityType
<1>4. \A s \in SUBSET ids : s # {} =>
         /\ Pick(s) \in s
         /\ Cardinality(s \ {Pick(s)}) = Cardinality(s) - 1
         /\ s \ {Pick(s)} \in SUBSET ids
  <2>1. \A s \in SUBSET ids : s # {} => Pick(s) \in s
    BY DEF Pick
  <2> QED
    BY <2>1, <1>3, FS_RemoveElement
<1>5. CASE m = 0
  <2> DEFINE g == [s \in SmallSubsets(ids, 0) |-> 0]
  <2>1. \A s \in SmallSubsets(ids, 0) : s = {}
    BY <1>3, FS_EmptySet DEF SmallSubsets
  <2>2. g \in [SmallSubsets(ids, 0) -> Nat]
    OBVIOUS
  <2>3. \A s \in SmallSubsets(ids, 0) : g[s] = SumStep(S, g, s)
    BY <2>1 DEF SumStep
  <2>4. Has(0)
    BY <2>2, <2>3
  <2> QED
    BY <1>2, <1>5, <2>4
<1>6. CASE m # 0
  <2>1. m - 1 \in Nat /\ m - 1 \notin Bad
    BY <1>2, <1>6
  <2>2. PICK h \in [SmallSubsets(ids, m - 1) -> Nat] :
          \A s \in SmallSubsets(ids, m - 1) : h[s] = SumStep(S, h, s)
    BY <2>1
  <2> DEFINE g == [s \in SmallSubsets(ids, m) |-> SumStep(S, h, s)]
  <2>3. \A s \in SmallSubsets(ids, m) : s # {} =>
           /\ s \ {Pick(s)} \in SmallSubsets(ids, m - 1)
           /\ Pick(s) \in ids
    BY <1>2, <1>3, <1>4 DEF SmallSubsets
  <2>4. g \in [SmallSubsets(ids, m) -> Nat]
    <3>1. ASSUME NEW s \in SmallSubsets(ids, m) PROVE SumStep(S, h, s) \in Nat
      <4>1. CASE s = {}
        BY <4>1 DEF SumStep
      <4>2. CASE s # {}
        <5>1. h[s \ {Pick(s)}] \in Nat /\ Difficulty(S[Pick(s)]) \in Nat
          BY <2>2, <2>3, <4>2
        <5> QED
          BY <4>2, <5>1 DEF SumStep
      <4> QED
        BY <4>1, <4>2
    <3> QED
      BY <3>1
  <2>5. \A t \in SmallSubsets(ids, m - 1) : t \in SmallSubsets(ids, m) /\ g[t] = h[t]
    BY <1>2, <1>3, <2>2 DEF SmallSubsets
  <2>6. \A s \in SmallSubsets(ids, m) : g[s] = SumStep(S, g, s)
    <3>1. ASSUME NEW s \in SmallSubsets(ids, m), s # {}
          PROVE  SumStep(S, h, s) = SumStep(S, g, s)
      BY <2>3, <2>5, <3>1 DEF SumStep
    <3>2. \A s \in SmallSubsets(ids, m) : s = {} => SumStep(S, h, s) = SumStep(S, g, s)
      BY DEF SumStep
    <3> QED
      BY <3>1, <3>2
  <2>7. Has(m)
    BY <2>4, <2>6
  <2> QED
    BY <1>2, <2>7
<1> QED
  BY <1>5, <1>6

(***************************************************************************)
(* The work of a finite set of shares of known difficulty is a number: the *)
(* incremental sums of add_share and the window sums of expected_target    *)
(* and pplns_weights are never undefined.                                  *)
(***************************************************************************)
LEMMA WorkOfType ==
  ASSUME NEW S, NEW ids, IsFiniteSet(ids), \A i \in ids : Difficulty(S[i]) \in Nat
  PROVE  WorkOf(S, ids) \in Nat
<1> DEFINE iter == CHOOSE g : g = [s \in SUBSET ids |-> SumStep(S, g, s)]
<1>1. WorkOf(S, ids) = iter[ids]
  BY DEF WorkOf, MapThenSumSet, MapThenFoldSet, SumStep, Pick
<1>2. SmallSubsets(ids, Cardinality(ids)) = SUBSET ids
  BY FS_Subset, FS_CardinalityType DEF SmallSubsets
<1>3. \E g : g = [s \in SUBSET ids |-> SumStep(S, g, s)]
  <2>1. Cardinality(ids) \in Nat
    BY FS_CardinalityType
  <2>2. \E g \in [SmallSubsets(ids, Cardinality(ids)) -> Nat] :
           \A s \in SmallSubsets(ids, Cardinality(ids)) : g[s] = SumStep(S, g, s)
    BY <2>1, SumExists
  <2>3. PICK g \in [SUBSET ids -> Nat] : \A s \in SUBSET ids : g[s] = SumStep(S, g, s)
    BY <1>2, <2>2
  <2>4. g = [s \in SUBSET ids |-> SumStep(S, g, s)]
    BY <2>3
  <2> QED
    BY <2>4
<1>4. iter = [s \in SUBSET ids |-> SumStep(S, iter, s)]
  BY <1>3
<1> HIDE DEF iter
<1> DEFINE Bad == {n \in Nat : \E s \in SUBSET ids : Cardinality(s) = n /\ iter[s] \notin Nat}
<1>5. Bad = {}
  <2>1. SUFFICES ASSUME Bad # {} PROVE FALSE
    BY <2>1
  <2>2. PICK n \in Bad : \A k \in Bad : n =< k
    BY <2>1, LeastNat
  <2>3. PICK s \in SUBSET ids : Cardinality(s) = n /\ iter[s] \notin Nat
    BY <2>2
  <2>4. iter[s] = SumStep(S, iter, s)
    BY <1>4
  <2>5. s # {}
    BY <2>3, <2>4 DEF SumStep
  <2>6. Pick(s) \in s
    BY <2>5 DEF Pick
  <2> DEFINE r == s \ {Pick(s)}
  <2>9. IsFiniteSet(s)
    BY FS_Subset
  <2>10. IsFiniteSet(r) /\ Cardinality(r) = n - 1
    BY <2>3, <2>6, <2>9, FS_RemoveElement
  <2>7. r \in SUBSET ids /\ Cardinality(r) = n - 1 /\ n - 1 \in Nat
    BY <2>10, FS_CardinalityType
  <2>8. iter[s \ {Pick(s)}] \in Nat
    BY <2>2, <2>7
  <2> QED
    BY <2>3, <2>4, <2>5, <2>6, <2>8 DEF SumStep
<1>6. ids \in SUBSET ids /\ Cardinality(ids) \in Nat
  BY FS_CardinalityType
<1> QED
  BY <1>1, <1>5, <1>6

(* The work of shares depends on nothing but their difficulty. *)
LEMMA WorkOfSame ==
  ASSUME NEW S, NEW T, NEW ids, \A i \in ids : Difficulty(T[i]) = Difficulty(S[i])
  PROVE  WorkOf(T, ids) = WorkOf(S, ids)
<1> DEFINE f(g) == [s \in SUBSET ids |-> SumStep(S, g, s)]
           h(g) == [s \in SUBSET ids |-> SumStep(T, g, s)]
<1>1. ASSUME NEW g PROVE f(g) = h(g)
  <2>1. ASSUME NEW s \in SUBSET ids PROVE SumStep(S, g, s) = SumStep(T, g, s)
    BY DEF SumStep, Pick
  <2> QED
    BY <2>1
<1>2. (CHOOSE g : g = f(g)) = (CHOOSE g : g = h(g))
  <2> HIDE DEF f, h
  <2>1. \A g : g = f(g) <=> g = h(g)
    BY <1>1
  <2> QED
    BY <2>1
<1>3. WorkOf(S, ids) = (CHOOSE g : g = f(g))[ids]
  BY DEF WorkOf, MapThenSumSet, MapThenFoldSet, SumStep, Pick
<1>4. WorkOf(T, ids) = (CHOOSE g : g = h(g))[ids]
  BY DEF WorkOf, MapThenSumSet, MapThenFoldSet, SumStep, Pick
<1> QED
  BY <1>2, <1>3, <1>4

(* No shares carry no work. *)
LEMMA WorkOfNone ==
  ASSUME NEW S
  PROVE  WorkOf(S, {}) = 0
<1> DEFINE f(g) == [s \in SUBSET {} |-> SumStep(S, g, s)]
           zero == [s \in SUBSET {} |-> 0]
           iter == CHOOSE g : g = f(g)
<1>1. WorkOf(S, {}) = iter[{}]
  BY DEF WorkOf, MapThenSumSet, MapThenFoldSet, SumStep, Pick
<1>2. zero = f(zero)
  BY DEF SumStep
<1>3. iter = f(iter)
  BY <1>2
<1> HIDE DEF iter
<1>4. iter[{}] = SumStep(S, iter, {})
  BY <1>3
<1> QED
  BY <1>1, <1>4 DEF SumStep

-----------------------------------------------------------------------------
(* Difficulty and targets *)

(* The larger of two numbers. *)
LEMMA MaxOfTwo ==
  ASSUME NEW a \in Int, NEW b \in Int
  PROVE  /\ Max({a, b}) \in {a, b}
         /\ Max({a, b}) >= a
         /\ Max({a, b}) >= b
<1>1. \E x \in {a, b} : \A y \in {a, b} : x >= y
  BY a >= b \/ b >= a
<1> QED
  BY <1>1 DEF Max

(* Every share carries at least one unit of work. *)
LEMMA DifficultyPositive ==
  ASSUME NEW c \in Share
  PROVE  Difficulty(c) \in Nat \ {0}
<1>1. c.target \in Nat /\ 1 =< c.target /\ c.target =< MaxTarget /\ MaxTarget \in Nat
  BY TargetAssumption DEF Share
<1>2. ASSUME NEW t \in Nat, NEW m \in Nat, 1 =< t, t =< m PROVE m \div t \in Nat \ {0}
  BY <1>2, SMT
<1> QED
  BY <1>1, <1>2 DEF Difficulty

(* So does a share together with the uncles it names. *)
LEMMA AddedWorkPositive ==
  ASSUME NEW S \in Seq(Share), NEW c \in Share, c.uncles \subseteq DOMAIN S
  PROVE  AddedWork(S, c) \in Nat \ {0}
<1>1. IsFiniteSet(DOMAIN S)
  BY FS_Interval
<1>2. IsFiniteSet(c.uncles)
  BY <1>1, FS_Subset
<1>3. \A i \in c.uncles : Difficulty(S[i]) \in Nat
  BY DifficultyPositive
<1>4. WorkOf(S, c.uncles) \in Nat
  BY <1>2, <1>3, WorkOfType
<1> QED
  BY <1>4, DifficultyPositive DEF AddedWork

-----------------------------------------------------------------------------
(* Walks *)

(* One step of WalkBack: the walk w(n - 1), longer by one share if it can be *)
WalkStep(S, stored, start, walk, n) ==
    IF n = 0 THEN << >>
    ELSE LET w    == walk[n - 1]
             next == IF n = 1 THEN start ELSE S[Last(w)].prev
         IN  IF Len(w) = n - 1 /\ next \in stored THEN Append(w, next) ELSE w

(* The recursive function behind WalkBack exists. *)
LEMMA WalkExists ==
  ASSUME NEW S, NEW stored, NEW start, NEW limit \in Nat
  PROVE  \E g : g = [n \in 0..limit |-> WalkStep(S, stored, start, g, n)]
<1> DEFINE Has(m) == \E g : g = [n \in 0..m |-> WalkStep(S, stored, start, g, n)]
           Bad == {m \in Nat : ~Has(m)}
<1>1. SUFFICES ASSUME Bad # {} PROVE FALSE
  BY <1>1
<1>2. PICK m \in Bad : \A k \in Bad : m =< k
  BY <1>1, LeastNat
<1>3. CASE m = 0
  <2> DEFINE g == [n \in 0..0 |-> << >>]
  <2>1. g = [n \in 0..0 |-> WalkStep(S, stored, start, g, n)]
    BY DEF WalkStep
  <2> QED
    BY <1>2, <1>3, <2>1
<1>4. CASE m # 0
  <2>1. m \in Nat /\ m - 1 \in Nat /\ m - 1 \notin Bad
    BY <1>2, <1>4
  <2>2. PICK h : h = [n \in 0..(m - 1) |-> WalkStep(S, stored, start, h, n)]
    BY <2>1
  <2> DEFINE g == [n \in 0..m |-> WalkStep(S, stored, start, h, n)]
  <2>3. \A n \in 0..(m - 1) : n \in 0..m /\ g[n] = h[n]
    BY <2>1, <2>2
  <2>4. ASSUME NEW n \in 0..m
        PROVE  WalkStep(S, stored, start, h, n) = WalkStep(S, stored, start, g, n)
    <3>1. CASE n = 0
      BY <3>1 DEF WalkStep
    <3>2. CASE n # 0
      <4>2. n - 1 \in 0..(m - 1)
        BY <2>1, <3>2
      <4>1. g[n - 1] = h[n - 1]
        BY <2>3, <4>2
      <4> HIDE DEF g
      <4> QED
        BY <4>1, <3>2 DEF WalkStep
    <3> QED
      BY <3>1, <3>2
  <2>5. g = [n \in 0..m |-> WalkStep(S, stored, start, g, n)]
    BY <2>4
  <2>6. Has(m)
    BY <2>5
  <2> QED
    BY <1>2, <2>6
<1> QED
  BY <1>3, <1>4

(* So WalkBack is the last of a sequence of walks that grow step by step. *)
LEMMA WalkUnfold ==
  ASSUME NEW S, NEW stored, NEW start, NEW limit \in Nat
  PROVE  \E w : /\ WalkBack(S, stored, start, limit) = w[limit]
                /\ \A n \in 0..limit : w[n] = WalkStep(S, stored, start, w, n)
<1> DEFINE w == CHOOSE g : g = [n \in 0..limit |-> WalkStep(S, stored, start, g, n)]
<1>1. WalkBack(S, stored, start, limit) = w[limit]
  BY DEF WalkBack, WalkStep
<1>2. w = [n \in 0..limit |-> WalkStep(S, stored, start, w, n)]
  BY WalkExists
<1> HIDE DEF w
<1> QED
  BY <1>1, <1>2

(***************************************************************************)
(* A store that has every share of a history down to height `floor' walks  *)
(* like the history itself as long as the walk stays above the floor, and  *)
(* meets one share per height.                                             *)
(***************************************************************************)
LEMMA WalksAgree ==
  ASSUME NEW S, NEW all \in SUBSET (Nat \ {0}), NEW stored \in SUBSET all,
         NEW start \in all, NEW limit \in Nat, NEW floor \in Int,
         \A i \in all : S[i].height \in Nat,
         \A i \in all : S[i].prev \in all => S[i].height = S[S[i].prev].height + 1,
         \A i \in all : S[i].height >= floor => i \in stored,
         S[start].height >= floor + limit - 1
  PROVE  /\ WalkBack(S, stored, start, limit) = WalkBack(S, all, start, limit)
         /\ WalkBack(S, all, start, limit) \in Seq(stored)
         /\ \A i \in ToSet(WalkBack(S, all, start, limit)) :
               S[i].height >= S[start].height - limit + 1
<1>1. PICK a : /\ WalkBack(S, stored, start, limit) = a[limit]
               /\ \A n \in 0..limit : a[n] = WalkStep(S, stored, start, a, n)
  BY WalkUnfold
<1>2. PICK b : /\ WalkBack(S, all, start, limit) = b[limit]
               /\ \A n \in 0..limit : b[n] = WalkStep(S, all, start, b, n)
  BY WalkUnfold
<1> DEFINE Good(n) == /\ a[n] = b[n]
                      /\ b[n] \in Seq(stored)
                      /\ Len(b[n]) =< n
                      /\ \A k \in 1..Len(b[n]) : S[b[n][k]].height = S[start].height - k + 1
           Bad == {n \in 0..limit : ~Good(n)}
<1>3. Good(0)
  <2>1. a[0] = << >> /\ b[0] = << >>
    BY <1>1, <1>2, 0 \in 0..limit DEF WalkStep
  <2> QED
    BY <2>1
<1>4. ASSUME NEW n \in 1..limit, Good(n - 1) PROVE Good(n)
  <2> DEFINE w == b[n - 1]
             next == IF n = 1 THEN start ELSE S[Last(w)].prev
  <2>1. n # 0 /\ n \in 0..limit /\ n - 1 \in Nat
    OBVIOUS
  <2>2. b[n] = IF Len(w) = n - 1 /\ next \in all THEN Append(w, next) ELSE w
    BY <1>2, <2>1 DEF WalkStep
  <2>3. a[n] = IF Len(w) = n - 1 /\ next \in stored THEN Append(w, next) ELSE w
    BY <1>1, <1>4, <2>1 DEF WalkStep
  <2>4. w \in Seq(stored) /\ Len(w) \in Nat /\ Len(w) =< n - 1
        /\ \A k \in 1..Len(w) : S[w[k]].height = S[start].height - k + 1
    BY <1>4
  <2>5. ASSUME Len(w) = n - 1, next \in all
        PROVE  next \in stored /\ S[next].height = S[start].height - n + 1
    <3>1. S[next].height = S[start].height - n + 1
      <4>1. CASE n = 1
        BY <4>1
      <4>2. CASE n # 1
        <5>1. Last(w) = w[n - 1] /\ n - 1 \in 1..Len(w)
          BY <2>1, <2>5, <4>2 DEF Last
        <5>2. Last(w) \in stored /\ S[Last(w)].height = S[start].height - (n - 1) + 1
          BY <2>4, <5>1
        <5>3. S[Last(w)].height = S[next].height + 1
          BY <2>5, <4>2, <5>2
        <5>4. S[next].height \in Nat /\ S[start].height \in Nat
          BY <2>5
        <5> HIDE DEF w, next
        <5> QED
          BY <2>1, <5>2, <5>3, <5>4
      <4> QED
        BY <4>1, <4>2
    <3>2. S[next].height >= floor
      <4>1. S[start].height \in Nat
        OBVIOUS
      <4> HIDE DEF w, next
      <4> QED
        BY <2>1, <3>1, <4>1
    <3> QED
      BY <2>5, <3>1, <3>2
  <2> HIDE DEF w, next
  <2>6. CASE Len(w) = n - 1 /\ next \in all
    <3>1. b[n] = Append(w, next) /\ a[n] = Append(w, next) /\ next \in stored
      BY <2>2, <2>3, <2>5, <2>6
    <3>2. /\ Append(w, next) \in Seq(stored)
          /\ Len(Append(w, next)) = n
          /\ \A k \in 1..n : Append(w, next)[k] = IF k = n THEN next ELSE w[k]
      BY <2>4, <2>6, <3>1
    <3>3. \A k \in 1..n : S[Append(w, next)[k]].height = S[start].height - k + 1
      BY <2>4, <2>5, <2>6, <3>2
    <3> QED
      BY <3>1, <3>2, <3>3
  <2>7. CASE ~(Len(w) = n - 1 /\ next \in all)
    <3>1. b[n] = w /\ a[n] = w
      BY <2>2, <2>3, <2>7
    <3> QED
      BY <3>1, <2>4
  <2> QED
    BY <2>6, <2>7
<1> HIDE DEF Good
<1>5. Bad = {}
  <2>1. SUFFICES ASSUME Bad # {} PROVE FALSE
    BY <2>1
  <2>5. Bad \in SUBSET Nat
    OBVIOUS
  <2>2. PICK n \in Bad : \A k \in Bad : n =< k
    BY <2>1, <2>5, LeastNat
  <2>3. n # 0
    BY <1>3, <2>2
  <2>4. n \in 1..limit /\ n - 1 \in 0..limit /\ n - 1 \notin Bad
    BY <2>2, <2>3
  <2> QED
    BY <1>4, <2>2, <2>4
<1>6. Good(limit)
  BY <1>5
<1>7. \A i \in ToSet(b[limit]) : S[i].height >= S[start].height - limit + 1
  <2> SUFFICES ASSUME NEW k \in DOMAIN b[limit]
               PROVE  S[b[limit][k]].height >= S[start].height - limit + 1
    BY DEF ToSet
  <2>1. k \in 1..Len(b[limit]) /\ Len(b[limit]) \in Nat /\ Len(b[limit]) =< limit
    BY <1>6 DEF Good
  <2>2. S[b[limit][k]].height = S[start].height - k + 1
    BY <1>6, <2>1 DEF Good
  <2> QED
    BY <2>1, <2>2
<1> QED
  BY <1>1, <1>2, <1>6, <1>7 DEF Good

-----------------------------------------------------------------------------
(* Paths *)

(* Every share of the path w but the first is the parent of the one before *)
IsPath(S, w) == \A k \in 1..(Len(w) - 1) : w[k + 1] = S[w[k]].prev

(***************************************************************************)
(* A walk is a path of stored shares from its start that ends at the limit *)
(* or at a share whose parent is not stored.                               *)
(***************************************************************************)
LEMMA WalkIsPath ==
  ASSUME NEW S, NEW stored, NEW start \in stored, NEW limit \in Nat
  PROVE  LET w == WalkBack(S, stored, start, limit)
         IN  /\ w \in Seq(stored) /\ Len(w) =< limit
             /\ w # << >> => w[1] = start
             /\ IsPath(S, w)
             /\ Len(w) < limit => w # << >> /\ S[Last(w)].prev \notin stored
<1>1. PICK b : /\ WalkBack(S, stored, start, limit) = b[limit]
               /\ \A n \in 0..limit : b[n] = WalkStep(S, stored, start, b, n)
  BY WalkUnfold
<1> DEFINE Good(n) == /\ b[n] \in Seq(stored)
                      /\ Len(b[n]) =< n
                      /\ b[n] # << >> => b[n][1] = start
                      /\ IsPath(S, b[n])
                      /\ Len(b[n]) < n => b[n] # << >> /\ S[Last(b[n])].prev \notin stored
           Bad == {n \in 0..limit : ~Good(n)}
<1>2. Good(0)
  <2>1. b[0] = << >>
    BY <1>1, 0 \in 0..limit DEF WalkStep
  <2> QED
    BY <2>1 DEF IsPath
<1>3. ASSUME NEW n \in 1..limit, Good(n - 1) PROVE Good(n)
  <2> DEFINE w == b[n - 1]
             next == IF n = 1 THEN start ELSE S[Last(w)].prev
  <2>1. n # 0 /\ n \in 0..limit /\ n - 1 \in Nat
    OBVIOUS
  <2>2. b[n] = IF Len(w) = n - 1 /\ next \in stored THEN Append(w, next) ELSE w
    BY <1>1, <2>1 DEF WalkStep
  <2>3. /\ w \in Seq(stored) /\ Len(w) \in Nat /\ Len(w) =< n - 1
        /\ w # << >> => w[1] = start
        /\ \A k \in 1..(Len(w) - 1) : w[k + 1] = S[w[k]].prev
        /\ Len(w) < n - 1 => w # << >> /\ S[Last(w)].prev \notin stored
    BY <1>3 DEF IsPath
  <2>4. n # 1 /\ Len(w) = n - 1 => w # << >> /\ Last(w) = w[n - 1]
    BY <2>1, <2>3 DEF Last
  <2>5. n = 1 => Len(w) = 0 /\ next = start
    BY <2>3
  <2>6. n # 1 => next = S[Last(w)].prev
    OBVIOUS
  <2> HIDE DEF w, next
  <2>7. CASE Len(w) = n - 1 /\ next \in stored
    <3>1. b[n] = Append(w, next)
      BY <2>2, <2>7
    <3>2. /\ b[n] \in Seq(stored) /\ Len(b[n]) = n /\ b[n] # << >>
          /\ \A k \in 1..n : b[n][k] = IF k = n THEN next ELSE w[k]
      BY <2>3, <2>7, <3>1
    <3>3. b[n][1] = start
      <4>1. CASE n = 1
        BY <2>5, <3>2, <4>1
      <4>2. CASE n # 1
        BY <2>1, <2>3, <2>4, <2>7, <3>2, <4>2
      <4> QED
        BY <4>1, <4>2
    <3>4. ASSUME NEW k \in 1..(n - 1) PROVE b[n][k + 1] = S[b[n][k]].prev
      <4>1. b[n][k] = w[k] /\ k \in 1..n /\ k + 1 \in 1..n
        BY <3>2
      <4>2. CASE k = n - 1
        BY <2>4, <2>6, <2>7, <3>2, <4>1, <4>2
      <4>3. CASE k # n - 1
        BY <2>3, <2>7, <3>2, <4>1, <4>3
      <4> QED
        BY <4>2, <4>3
    <3> QED
      BY <3>2, <3>3, <3>4 DEF IsPath
  <2>8. CASE ~(Len(w) = n - 1 /\ next \in stored)
    <3>1. b[n] = w
      BY <2>2, <2>8
    <3>2. w # << >> /\ S[Last(w)].prev \notin stored
      <4>1. CASE Len(w) < n - 1
        BY <2>3, <4>1
      <4>2. CASE Len(w) = n - 1
        BY <2>4, <2>5, <2>6, <2>8, <4>2
      <4> QED
        BY <2>3, <4>1, <4>2
    <3> QED
      BY <2>3, <3>1, <3>2 DEF IsPath
  <2> QED
    BY <2>7, <2>8
<1> HIDE DEF Good
<1>4. Bad = {}
  <2>1. SUFFICES ASSUME Bad # {} PROVE FALSE
    BY <2>1
  <2>5. Bad \in SUBSET Nat
    OBVIOUS
  <2>2. PICK n \in Bad : \A k \in Bad : n =< k
    BY <2>1, <2>5, LeastNat
  <2>3. n # 0
    BY <1>2, <2>2
  <2>4. n \in 1..limit /\ n - 1 \in 0..limit /\ n - 1 \notin Bad
    BY <2>2, <2>3
  <2> QED
    BY <1>3, <2>2, <2>4
<1>5. Good(limit)
  BY <1>4
<1> QED
  BY <1>1, <1>5 DEF Good

(* Two paths that meet go on together. *)
LEMMA PathsMeet ==
  ASSUME NEW S, NEW all, NEW v \in Seq(all), NEW w \in Seq(all), IsPath(S, v), IsPath(S, w),
         NEW a \in 1..Len(v), NEW b \in 1..Len(w), v[a] = w[b],
         NEW n \in Nat, a + n =< Len(v), b + n =< Len(w)
  PROVE  v[a + n] = w[b + n]
<1> DEFINE Bad == {k \in 0..n : v[a + k] # w[b + k]}
<1>0. n \in 0..n
  OBVIOUS
<1>1. SUFFICES ASSUME Bad # {} PROVE FALSE
  BY <1>0, <1>1
<1>2. Bad \in SUBSET Nat
  OBVIOUS
<1>3. PICK k \in Bad : \A j \in Bad : k =< j
  BY <1>1, <1>2, LeastNat
<1>4. k # 0
  BY <1>3
<1>5. k - 1 \in 0..n /\ k - 1 \notin Bad
  BY <1>3, <1>4
<1>6. v[a + (k - 1)] = w[b + (k - 1)]
  BY <1>5
<1>7. /\ a + (k - 1) \in 1..(Len(v) - 1) /\ (a + (k - 1)) + 1 = a + k
      /\ b + (k - 1) \in 1..(Len(w) - 1) /\ (b + (k - 1)) + 1 = b + k
  BY <1>3, <1>4
<1>8. v[a + k] = S[v[a + (k - 1)]].prev /\ w[b + k] = S[w[b + (k - 1)]].prev
  BY <1>7 DEF IsPath
<1> QED
  BY <1>3, <1>6, <1>8

(* A path goes down one height per share. *)
LEMMA PathHeights ==
  ASSUME NEW S, NEW all, NEW w \in Seq(all), IsPath(S, w),
         \A i \in all : S[i].height \in Nat,
         \A i \in all : S[i].prev \in all => S[i].height = S[S[i].prev].height + 1,
         NEW k \in 1..Len(w)
  PROVE  w[k] \in all /\ S[w[k]].height = S[w[1]].height - k + 1
<1> DEFINE Bad == {n \in 1..Len(w) : S[w[n]].height # S[w[1]].height - n + 1}
<1>0. \A n \in 1..Len(w) : w[n] \in all
  OBVIOUS
<1>1. SUFFICES ASSUME Bad # {} PROVE FALSE
  BY <1>0, <1>1
<1>2. Bad \in SUBSET Nat
  OBVIOUS
<1>3. PICK n \in Bad : \A j \in Bad : n =< j
  BY <1>1, <1>2, LeastNat
<1>4. 1 \in 1..Len(w) /\ S[w[1]].height \in Nat
  BY <1>0
<1>5. n # 1
  BY <1>3, <1>4
<1>6. n \in 1..Len(w) /\ n \in Nat /\ Len(w) \in Nat
      /\ S[w[n]].height # S[w[1]].height - n + 1
  BY <1>3
<1>7. n - 1 \in 1..(Len(w) - 1) /\ (n - 1) + 1 = n /\ n - 1 \in 1..Len(w) /\ n - 1 < n
  BY <1>5, <1>6
<1>8. n - 1 \in 1..Len(w) /\ n - 1 \notin Bad
  <2>1. ~(n =< n - 1)
    BY <1>7, <1>6
  <2> QED
    BY <1>3, <1>7, <2>1
<1>9. S[w[n - 1]].height = S[w[1]].height - (n - 1) + 1
  BY <1>8
<1>10. w[n] = S[w[n - 1]].prev
  BY <1>7 DEF IsPath
<1>11. w[n - 1] \in all /\ w[n] \in all
  BY <1>0, <1>3, <1>8
<1>12. S[w[n - 1]].height = S[w[n]].height + 1 /\ S[w[n]].height \in Nat
  BY <1>10, <1>11
<1>13. \A f, g, h \in Int : f = g - (n - 1) + 1 /\ f = h + 1 => h = g - n + 1
  BY <1>6
<1>14. /\ S[w[n - 1]].height \in Int
       /\ S[w[n]].height \in Int
       /\ S[w[1]].height \in Int
  BY <1>4, <1>11, <1>12
<1>15. S[w[n]].height = S[w[1]].height - n + 1
  BY <1>9, <1>12, <1>13, <1>14, Zenon
<1> QED
  BY <1>6, <1>15

-----------------------------------------------------------------------------
(* Stores with whole chains *)

(* A store from which nothing was pruned: chains end at a genesis share. *)
Whole(S, stored) ==
    Genesis \notin stored /\ \A i \in stored : S[i].prev \in stored \cup {Genesis}

(***************************************************************************)
(* From a share that both have, two stores of whole chains walk alike,     *)
(* whatever else they hold and however many shares were mined in between.  *)
(***************************************************************************)
LEMMA WholeWalksAgree ==
  ASSUME NEW S, NEW T, NEW one, NEW other, Whole(S, one), Whole(T, other),
         \A i \in one \cap other : T[i].prev = S[i].prev,
         NEW start \in (one \cap other) \cup {Genesis}, NEW limit \in Nat
  PROVE  /\ WalkBack(S, one, start, limit) = WalkBack(T, other, start, limit)
         /\ WalkBack(S, one, start, limit) \in Seq(one \cap other)
<1>1. PICK a : /\ WalkBack(S, one, start, limit) = a[limit]
               /\ \A n \in 0..limit : a[n] = WalkStep(S, one, start, a, n)
  BY WalkUnfold
<1>2. PICK b : /\ WalkBack(T, other, start, limit) = b[limit]
               /\ \A n \in 0..limit : b[n] = WalkStep(T, other, start, b, n)
  BY WalkUnfold
<1> DEFINE Good(n) == a[n] = b[n] /\ a[n] \in Seq(one \cap other) /\ Len(a[n]) =< n
           Bad == {n \in 0..limit : ~Good(n)}
<1>3. Good(0)
  <2>1. a[0] = << >> /\ b[0] = << >>
    BY <1>1, <1>2, 0 \in 0..limit DEF WalkStep
  <2> QED
    BY <2>1
<1>4. ASSUME NEW n \in 1..limit, Good(n - 1) PROVE Good(n)
  <2> DEFINE w == a[n - 1]
             next == IF n = 1 THEN start ELSE S[Last(w)].prev
             then == IF n = 1 THEN start ELSE T[Last(w)].prev
  <2>1. n # 0 /\ n \in 0..limit /\ n - 1 \in Nat
    OBVIOUS
  <2>2. a[n] = IF Len(w) = n - 1 /\ next \in one THEN Append(w, next) ELSE w
    BY <1>1, <2>1 DEF WalkStep
  <2>3. b[n] = IF Len(w) = n - 1 /\ then \in other THEN Append(w, then) ELSE w
    BY <1>2, <1>4, <2>1 DEF WalkStep
  <2>4. w \in Seq(one \cap other) /\ Len(w) \in Nat /\ Len(w) =< n - 1
    BY <1>4
  <2>5. ASSUME Len(w) = n - 1
        PROVE  then = next /\ (next \in one <=> next \in other)
    <3>1. CASE n = 1
      BY <3>1 DEF Whole
    <3>2. CASE n # 1
      <4>1. Last(w) = w[n - 1] /\ n - 1 \in 1..Len(w)
        BY <2>1, <2>5, <3>2 DEF Last
      <4>2. Last(w) \in one \cap other
        BY <2>4, <4>1
      <4>3. next = S[Last(w)].prev /\ then = T[Last(w)].prev
        BY <3>2
      <4>4. then = next
        BY <4>2, <4>3
      <4> HIDE DEF next, then
      <4> QED
        BY <4>2, <4>3, <4>4 DEF Whole
    <3> QED
      BY <3>1, <3>2
  <2> HIDE DEF w, next, then
  <2>6. CASE Len(w) = n - 1 /\ next \in one
    <3>1. a[n] = Append(w, next) /\ b[n] = Append(w, next) /\ next \in one \cap other
      BY <2>2, <2>3, <2>5, <2>6
    <3> QED
      BY <2>4, <2>6, <3>1
  <2>7. CASE ~(Len(w) = n - 1 /\ next \in one)
    <3>1. a[n] = w /\ b[n] = w
      BY <2>2, <2>3, <2>5, <2>7
    <3> QED
      BY <2>4, <3>1
  <2> QED
    BY <2>6, <2>7
<1> HIDE DEF Good
<1>5. Bad = {}
  <2>1. SUFFICES ASSUME Bad # {} PROVE FALSE
    BY <2>1
  <2>2. Bad \in SUBSET Nat
    OBVIOUS
  <2>3. PICK n \in Bad : \A k \in Bad : n =< k
    BY <2>1, <2>2, LeastNat
  <2>4. n # 0
    BY <1>3, <2>3
  <2>5. n \in 1..limit /\ n - 1 \in 0..limit /\ n - 1 \notin Bad
    BY <2>3, <2>4
  <2> QED
    BY <1>4, <2>3, <2>5
<1>6. Good(limit)
  BY <1>5
<1> QED
  BY <1>1, <1>2, <1>6 DEF Good

(* A walk from a stored share is not empty. *)
LEMMA WalkStarts ==
  ASSUME NEW S, NEW stored, NEW start \in stored, NEW limit \in Nat \ {0}
  PROVE  WalkBack(S, stored, start, limit) # << >>
<1>1. Len(WalkBack(S, stored, start, limit)) < limit => WalkBack(S, stored, start, limit) # << >>
  BY WalkIsPath
<1>2. Len(<< >>) < limit
  OBVIOUS
<1> QED
  BY <1>1, <1>2

(* Both stores derive the same target limit for the next share. *)
LEMMA TargetsAgree ==
  ASSUME NEW S, NEW T, NEW one, NEW other, Whole(S, one), Whole(T, other),
         \A i \in one \cap other : T[i] = S[i],
         NEW prev \in (one \cap other) \cup {Genesis}, NEW timestamp
  PROVE  ExpectedTarget(T, other, prev, timestamp) = ExpectedTarget(S, one, prev, timestamp)
<1>1. CASE prev = Genesis
  BY <1>1 DEF ExpectedTarget
<1>2. CASE prev # Genesis
  <2> DEFINE w == WalkBack(S, one, prev, RetargetWindow)
  <2>1. RetargetWindow \in Nat \ {0}
    BY TargetAssumption
  <2>2. w = WalkBack(T, other, prev, RetargetWindow) /\ w \in Seq(one \cap other)
    BY <2>1, WholeWalksAgree
  <2>3. w # << >>
    BY <1>2, <2>1, WalkStarts
  <2>4. ExpectedTarget(S, one, prev, timestamp) =
          IF Len(w) < RetargetWindow /\ ~ReachesGenesis(S, w) THEN NoTarget
          ELSE RetargetTarget(S[prev].limit, WorkOf(S, ToSet(w)), timestamp - S[Last(w)].timestamp)
    BY <1>2 DEF ExpectedTarget
  <2>5. ExpectedTarget(T, other, prev, timestamp) =
          IF Len(w) < RetargetWindow /\ ~ReachesGenesis(T, w) THEN NoTarget
          ELSE RetargetTarget(T[prev].limit, WorkOf(T, ToSet(w)), timestamp - T[Last(w)].timestamp)
    BY <1>2, <2>2 DEF ExpectedTarget
  <2> HIDE DEF w
  <2>6. ToSet(w) \subseteq one \cap other /\ Last(w) \in one \cap other
    BY <2>2, <2>3 DEF ToSet, Last
  <2>7. T[Last(w)] = S[Last(w)] /\ T[prev] = S[prev] /\ \A i \in ToSet(w) : T[i] = S[i]
    BY <1>2, <2>6
  <2>8. WorkOf(T, ToSet(w)) = WorkOf(S, ToSet(w))
    BY <2>7, WorkOfSame
  <2>9. ReachesGenesis(T, w) <=> ReachesGenesis(S, w)
    BY <2>7 DEF ReachesGenesis
  <2> QED
    BY <2>4, <2>5, <2>7, <2>8, <2>9
<1> QED
  BY <1>1, <1>2

(* What is left of the work of uncles depends on nothing but their difficulty. *)
UncleStep(S, g, s) ==
    IF s = {} THEN 0 ELSE UncleWeight(Difficulty(S[Pick(s)])) + g[s \ {Pick(s)}]

LEMMA UncleWorkSame ==
  ASSUME NEW S, NEW T, NEW ids, \A i \in ids : Difficulty(T[i]) = Difficulty(S[i])
  PROVE  UncleWork(T, ids) = UncleWork(S, ids)
<1> DEFINE f(g) == [s \in SUBSET ids |-> UncleStep(S, g, s)]
           h(g) == [s \in SUBSET ids |-> UncleStep(T, g, s)]
<1>1. ASSUME NEW g PROVE f(g) = h(g)
  <2>1. ASSUME NEW s \in SUBSET ids PROVE UncleStep(S, g, s) = UncleStep(T, g, s)
    BY DEF UncleStep, Pick
  <2> QED
    BY <2>1
<1>2. (CHOOSE g : g = f(g)) = (CHOOSE g : g = h(g))
  <2> HIDE DEF f, h
  <2>1. \A g : g = f(g) <=> g = h(g)
    BY <1>1
  <2> QED
    BY <2>1
<1>3. UncleWork(S, ids) = (CHOOSE g : g = f(g))[ids]
  BY DEF UncleWork, MapThenSumSet, MapThenFoldSet, UncleStep, Pick
<1>4. UncleWork(T, ids) = (CHOOSE g : g = h(g))[ids]
  BY DEF UncleWork, MapThenSumSet, MapThenFoldSet, UncleStep, Pick
<1> QED
  BY <1>2, <1>3, <1>4

(* Both stores pay the same, if they have the uncles that are named too. *)
LEMMA PayoutsAgree ==
  ASSUME NEW S, NEW T, NEW one, NEW other, Whole(S, one), Whole(T, other),
         \A i \in one \cap other : T[i] = S[i] /\ S[i].uncles \subseteq one \cap other,
         NEW tip \in (one \cap other) \cup {Genesis}
  PROVE  PplnsWeights(T, other, tip) = PplnsWeights(S, one, tip)
<1> DEFINE main == ToSet(WalkBack(S, one, tip, Window))
           uncles == UnclesOf(S, main)
<1>1. WalkBack(S, one, tip, Window) = WalkBack(T, other, tip, Window)
      /\ WalkBack(S, one, tip, Window) \in Seq(one \cap other)
  <2>1. Window \in Nat
    BY WindowAssumption
  <2>2. \A i \in one \cap other : T[i].prev = S[i].prev
    OBVIOUS
  <2> HIDE DEF main, uncles
  <2> QED
    BY <2>1, <2>2, WholeWalksAgree
<1>2. main \subseteq one \cap other
  BY <1>1 DEF ToSet
<1>3. PplnsWeights(S, one, tip) = WindowWeights(S, main, uncles \cap one)
      /\ PplnsWeights(T, other, tip) = WindowWeights(T, main, UnclesOf(T, main) \cap other)
  BY <1>1 DEF PplnsWeights
<1> HIDE DEF main
<1>4. /\ \A i \in main : T[i] = S[i] /\ S[i].uncles \subseteq one \cap other
  BY <1>2
<1>5. UnclesOf(T, main) = uncles
  BY <1>4 DEF UnclesOf
<1>6. uncles \subseteq one \cap other
  BY <1>4 DEF UnclesOf
<1> HIDE DEF uncles
<1>7. uncles \cap other = uncles /\ uncles \cap one = uncles
  BY <1>6
<1>8. ASSUME NEW m
      PROVE  /\ {i \in main : T[i].miner = m} = {i \in main : S[i].miner = m}
             /\ {u \in uncles : T[u].miner = m} = {u \in uncles : S[u].miner = m}
             /\ WorkOf(T, {i \in main : S[i].miner = m}) = WorkOf(S, {i \in main : S[i].miner = m})
             /\ UncleWork(T, {u \in uncles : S[u].miner = m}) = UncleWork(S, {u \in uncles : S[u].miner = m})
  <2>1. /\ {i \in main : T[i].miner = m} = {i \in main : S[i].miner = m}
        /\ {u \in uncles : T[u].miner = m} = {u \in uncles : S[u].miner = m}
    BY <1>4, <1>6
  <2>2. WorkOf(T, {i \in main : S[i].miner = m}) = WorkOf(S, {i \in main : S[i].miner = m})
    BY <1>4, WorkOfSame
  <2>3. UncleWork(T, {u \in uncles : S[u].miner = m}) = UncleWork(S, {u \in uncles : S[u].miner = m})
    BY <1>6, UncleWorkSame
  <2> QED
    BY <2>1, <2>2, <2>3
<1>9. WindowWeights(T, main, uncles) = WindowWeights(S, main, uncles)
  <2> DEFINE f(m) == WorkOf(S, {i \in main : S[i].miner = m})
                     + UncleWork(S, {u \in uncles : S[u].miner = m})
             g(m) == WorkOf(T, {i \in main : T[i].miner = m})
                     + UncleWork(T, {u \in uncles : T[u].miner = m})
  <2>1. \A m : g(m) = f(m)
    BY <1>8
  <2>2. /\ WindowWeights(S, main, uncles) = [m \in Miners |-> f(m)]
        /\ WindowWeights(T, main, uncles) = [m \in Miners |-> g(m)]
    BY DEF WindowWeights
  <2> HIDE DEF f, g
  <2> QED
    BY <2>1, <2>2
<1> QED
  BY <1>3, <1>5, <1>7, <1>9
=============================================================================
