---------------------------- MODULE GossipProofs ----------------------------
(***************************************************************************)
(* The safety of the gossip for any nodes, links, works and bounds: what   *)
(* every connection carries, and what every node keeps.                    *)
(***************************************************************************)
EXTENDS Gossip, TLAPS, FiniteSetTheorems, WellFoundedInduction

-----------------------------------------------------------------------------
(* Sequences and numbers *)

LEMMA RangeAppend ==
  ASSUME NEW M, NEW s \in Seq(M), NEW x \in M
  PROVE  Append(s, x) \in Seq(M) /\ Range(Append(s, x)) = Range(s) \cup {x}
<1>1. /\ DOMAIN Append(s, x) = 1..(Len(s) + 1) /\ DOMAIN s = 1..Len(s) /\ Len(s) \in Nat
      /\ \A k \in 1..Len(s) : Append(s, x)[k] = s[k]
      /\ Append(s, x)[Len(s) + 1] = x
  OBVIOUS
<1>2. ASSUME NEW y \in Range(Append(s, x)) PROVE y \in Range(s) \cup {x}
  <2>1. PICK k \in 1..(Len(s) + 1) : y = Append(s, x)[k]
    BY <1>1, <1>2 DEF Range
  <2>2. k \in 1..Len(s) \/ k = Len(s) + 1
    BY <1>1, <2>1
  <2> QED
    BY <1>1, <2>1, <2>2 DEF Range
<1>3. ASSUME NEW y \in Range(s) \cup {x} PROVE y \in Range(Append(s, x))
  <2>1. (\E k \in 1..Len(s) : y = s[k]) \/ y = x
    BY <1>1, <1>3 DEF Range
  <2>2. 1..Len(s) \subseteq 1..(Len(s) + 1) /\ Len(s) + 1 \in 1..(Len(s) + 1)
    BY <1>1
  <2>3. \E k \in 1..(Len(s) + 1) : y = Append(s, x)[k]
    BY <1>1, <2>1, <2>2
  <2> QED
    BY <1>1, <2>3 DEF Range
<1> QED
  BY <1>2, <1>3

LEMMA RangeTail ==
  ASSUME NEW M, NEW s \in Seq(M), s # << >>
  PROVE  /\ Tail(s) \in Seq(M) /\ Head(s) \in M
         /\ Head(s) \in Range(s)
         /\ Range(Tail(s)) \subseteq Range(s)
         /\ Range(s) \subseteq Range(Tail(s)) \cup {Head(s)}
<1>1. /\ DOMAIN Tail(s) = 1..(Len(s) - 1) /\ DOMAIN s = 1..Len(s) /\ Len(s) \in Nat \ {0}
      /\ \A k \in 1..(Len(s) - 1) : Tail(s)[k] = s[k + 1]
      /\ Head(s) = s[1] /\ 1 \in 1..Len(s)
  OBVIOUS
<1>2. ASSUME NEW y \in Range(Tail(s)) PROVE y \in Range(s)
  <2>1. PICK k \in 1..(Len(s) - 1) : y = s[k + 1]
    BY <1>1, <1>2 DEF Range
  <2>2. k + 1 \in 1..Len(s)
    BY <1>1
  <2> QED
    BY <1>1, <2>1, <2>2 DEF Range
<1>3. ASSUME NEW y \in Range(s) PROVE y \in Range(Tail(s)) \cup {Head(s)}
  <2>1. PICK k \in 1..Len(s) : y = s[k]
    BY <1>1, <1>3 DEF Range
  <2>2. CASE k = 1
    BY <1>1, <2>1, <2>2
  <2>3. CASE k # 1
    <3>1. k - 1 \in 1..(Len(s) - 1) /\ (k - 1) + 1 = k
      BY <1>1, <2>3
    <3>2. Tail(s)[k - 1] = y
      BY <1>1, <2>1, <3>1
    <3> QED
      BY <1>1, <3>1, <3>2 DEF Range
  <2> QED
    BY <2>2, <2>3
<1>4. Head(s) \in Range(s)
  BY <1>1 DEF Range
<1> QED
  BY <1>2, <1>3, <1>4

(* What holds of the range holds at every place. *)
LEMMA RangePlaces ==
  ASSUME NEW M, NEW s \in Seq(M)
  PROVE  /\ DOMAIN s = 1..Len(s)
         /\ \A k \in DOMAIN s : s[k] \in Range(s)
         /\ \A x \in Range(s) : x \in M /\ \E k \in DOMAIN s : s[k] = x
BY DEF Range

LEMMA LeastNat ==
  ASSUME NEW T \in SUBSET Nat, T # {}
  PROVE  \E n \in T : \A k \in T : n =< k
<1>1. IsWellFoundedOn(OpToRel(<, Nat), Nat)
  BY NatLessThanWellFounded
<1>2. PICK n \in T : \A k \in T : ~(<<k, n>> \in OpToRel(<, Nat))
  BY <1>1, WFMin
<1>3. \A k \in T : ~(k < n)
  BY <1>2 DEF OpToRel
<1> QED
  BY <1>3

LEMMA MaxOfTwo ==
  ASSUME NEW a \in Int, NEW b \in Int
  PROVE  Max({a, b}) \in {a, b} /\ a =< Max({a, b}) /\ b =< Max({a, b})
<1>1. \E x \in {a, b} : \A y \in {a, b} : x >= y
  <2>1. CASE a >= b
    BY <2>1
  <2>2. CASE b >= a
    BY <2>2
  <2> QED
    BY <2>1, <2>2
<1> QED
  BY <1>1 DEF Max

-----------------------------------------------------------------------------
(* Blocks a node has seen *)

LEMMA WithoutFacts ==
  ASSUME NEW M, NEW seen \in Seq(M), NEW b
  PROVE  /\ Without(seen, b) \in Seq(M) /\ Len(Without(seen, b)) =< Len(seen)
         /\ Range(Without(seen, b)) \subseteq Range(seen)
<1>1. CASE b \notin Range(seen)
  BY <1>1 DEF Without
<1>2. CASE b \in Range(seen)
  <2> DEFINE k == CHOOSE k \in DOMAIN seen : seen[k] = b
             w == RemoveAt(seen, k)
  <2>1. k \in 1..Len(seen)
    BY <1>2, RangePlaces
  <2>2. Without(seen, b) = w
    BY <1>2 DEF Without
  <2> HIDE DEF k
  <2>3. w = SubSeq(seen, 1, k - 1) \o SubSeq(seen, k + 1, Len(seen))
    BY DEF RemoveAt
  <2>4. /\ SubSeq(seen, 1, k - 1) \in Seq(M) /\ Len(SubSeq(seen, 1, k - 1)) = k - 1
        /\ \A i \in 1..(k - 1) : SubSeq(seen, 1, k - 1)[i] = seen[i]
    BY <2>1
  <2>5. /\ SubSeq(seen, k + 1, Len(seen)) \in Seq(M)
        /\ Len(SubSeq(seen, k + 1, Len(seen))) = Len(seen) - k
        /\ \A i \in 1..(Len(seen) - k) : SubSeq(seen, k + 1, Len(seen))[i] = seen[k + i]
    BY <2>1
  <2> DEFINE f == SubSeq(seen, 1, k - 1)
             g == SubSeq(seen, k + 1, Len(seen))
  <2> HIDE DEF f, g, w
  <2>6. f \in Seq(M) /\ Len(f) = k - 1 /\ \A i \in 1..(k - 1) : f[i] = seen[i]
    BY <2>4 DEF f
  <2>7. g \in Seq(M) /\ Len(g) = Len(seen) - k /\ \A i \in 1..(Len(seen) - k) : g[i] = seen[k + i]
    BY <2>5 DEF g
  <2>8. w = f \o g
    BY <2>3 DEF f, g
  <2>9. w \in Seq(M) /\ Len(w) = Len(seen) - 1
    BY <2>1, <2>6, <2>7, <2>8
  <2>10. ASSUME NEW i \in 1..Len(w) PROVE w[i] \in Range(seen)
    <3>1. CASE i =< k - 1
      <4>1. w[i] = seen[i] /\ i \in 1..Len(seen)
        BY <2>1, <2>6, <2>7, <2>8, <2>9, <3>1
      <4> QED
        BY <4>1, RangePlaces
    <3>2. CASE ~(i =< k - 1)
      <4>1. i - (k - 1) \in 1..(Len(seen) - k)
        BY <2>1, <2>9, <3>2
      <4>2. w[i] = g[i - (k - 1)]
        BY <2>1, <2>6, <2>7, <2>8, <2>9, <3>2, <4>1
      <4>3. w[i] = seen[k + (i - (k - 1))] /\ k + (i - (k - 1)) \in 1..Len(seen)
        BY <2>1, <2>7, <4>1, <4>2
      <4> QED
        BY <4>3, RangePlaces
    <3> QED
      BY <3>1, <3>2
  <2> QED
    BY <2>1, <2>2, <2>9, <2>10, RangePlaces
<1> QED
  BY <1>1, <1>2

LEMMA SeenFacts ==
  ASSUME NEW M, NEW seen \in Seq(M), NEW b \in M, Len(seen) =< MaxBlocksSeen
  PROVE  /\ Seen(seen, b) \in Seq(M) /\ Len(Seen(seen, b)) =< MaxBlocksSeen
         /\ Range(Seen(seen, b)) \subseteq Range(seen) \cup {b}
<1> DEFINE w == Without(seen, b)
           kept == Append(w, b)
<1>1. w \in Seq(M) /\ Len(w) =< Len(seen) /\ Range(w) \subseteq Range(seen)
  BY WithoutFacts
<1>2. Seen(seen, b) = IF Len(kept) > MaxBlocksSeen THEN Tail(kept) ELSE kept
  BY DEF Seen
<1> HIDE DEF w
<1>3. kept \in Seq(M) /\ Range(kept) = Range(w) \cup {b} /\ kept # << >>
      /\ Len(kept) = Len(w) + 1
  BY <1>1, RangeAppend
<1> HIDE DEF kept
<1>4. Tail(kept) \in Seq(M) /\ Range(Tail(kept)) \subseteq Range(kept)
      /\ Len(Tail(kept)) = Len(kept) - 1
  <2>1. Len(Tail(kept)) = Len(kept) - 1
    BY <1>3
  <2> QED
    BY <1>3, <2>1, RangeTail
<1>5. MaxBlocksSeen \in Nat /\ Len(seen) \in Nat /\ Len(w) \in Nat
  BY <1>1, GossipAssumption
<1>6. Len(Seen(seen, b)) =< MaxBlocksSeen
  BY <1>1, <1>2, <1>3, <1>4, <1>5
<1> QED
  BY <1>1, <1>2, <1>3, <1>4, <1>6

-----------------------------------------------------------------------------
(* What a node keeps *)

(***************************************************************************)
(* A node's sharechain has a stored tip unless it is empty, its recent     *)
(* blocks are blocks that were found, and what it stores without a proof   *)
(* it has still to announce.                                               *)
(***************************************************************************)
NodeFits(s) ==
    /\ s \in NodeState
    /\ s.tip \in s.store \cup {Genesis}
    /\ s.tip = Genesis <=> s.store = {}
    /\ Len(s.blocksSeen) =< MaxBlocksSeen
    /\ Range(s.blocksSeen) \subseteq 1..blocks
    /\ s.store \ s.proofs \subseteq Range(s.unannounced)

(* Every share builds on an earlier one, by some work *)
ShareRecord == [prev : Nat, height : Nat, total : Nat \ {0}, chain : SUBSET Nat]

SharesFit ==
    /\ shares \in Seq(ShareRecord)
    /\ \A i \in Ids : shares[i].prev \in 0..(i - 1) /\ shares[i].chain \subseteq 1..i

(* The states that the shares of a window sync may lead to from s *)
Onward(s) ==
    {t \in NodeState : /\ NodeFits(t)
                       /\ s.proofs \subseteq t.proofs
                       /\ t.pending = s.pending}

LEMMA IdFacts ==
  ASSUME SharesFit
  PROVE  /\ Ids = 1..Len(shares) /\ Len(shares) \in Nat /\ Genesis \notin Ids
         /\ \A i \in Ids : /\ shares[i].height \in Nat /\ shares[i].total \in Nat \ {0}
                           /\ Total(shares, i) = shares[i].total
         /\ Total(shares, Genesis) = 0
<1>1. Ids = 1..Len(shares) /\ Len(shares) \in Nat /\ Genesis \notin Ids
  BY DEF SharesFit, Ids, Genesis
<1>2. ASSUME NEW i \in Ids
      PROVE  shares[i].height \in Nat /\ shares[i].total \in Nat \ {0}
  <2>1. shares[i] \in ShareRecord
    BY <1>1 DEF SharesFit
  <2> QED
    BY <2>1 DEF ShareRecord
<1> QED
  BY <1>1, <1>2 DEF Total

(* A node that has stored a share has a tip: everything else is as it was. *)
StoredAs(s, i, t) ==
    /\ t \in NodeState /\ t.proofs = s.proofs /\ t.pending = s.pending
    /\ t.unannounced = s.unannounced /\ t.blocksSeen = s.blocksSeen
    /\ t.store \subseteq s.store \cup {i}
    /\ t.tip \in t.store /\ t.tip # Genesis

TipFits(s) == s \in NodeState /\ s.tip \in s.store \cup {Genesis}

LEMMA StoredShape ==
  SharesFit => \A s : \A i \in Ids : TipFits(s) => StoredAs(s, i, Stored(shares, s, i))
<1> SUFFICES ASSUME SharesFit, NEW s, NEW i \in Ids, TipFits(s)
             PROVE  StoredAs(s, i, Stored(shares, s, i))
  OBVIOUS
<1> DEFINE t == Stored(shares, s, i)
<1>1. /\ t \in NodeState /\ t.proofs = s.proofs /\ t.pending = s.pending
      /\ t.unannounced = s.unannounced /\ t.blocksSeen = s.blocksSeen
      /\ t.store \subseteq s.store \cup {i}
  BY DEF TipFits, NodeState, Stored
<1>2. t.tip \in t.store /\ t.tip # Genesis
  <2>1. CASE Total(shares, i) > Total(shares, s.tip)
    <3>1. shares[i].height >= shares[i].height - Retention
      BY IdFacts, GossipAssumption
    <3>2. t.tip = i /\ t.store = {j \in s.store \cup {i} : shares[j].height >= shares[i].height - Retention}
      BY <2>1 DEF Stored, TipFits, NodeState
    <3> QED
      BY <3>1, <3>2, IdFacts
  <2>2. CASE ~(Total(shares, i) > Total(shares, s.tip))
    <3>1. s.tip # Genesis
      BY <2>2, IdFacts
    <3>2. t.tip = s.tip /\ t.store = s.store \cup {i}
      BY <2>2 DEF Stored, TipFits, NodeState
    <3> QED
      BY <3>1, <3>2 DEF TipFits
  <2> QED
    BY <2>1, <2>2
<1> QED
  BY <1>1, <1>2 DEF StoredAs

(* A share is stored with its proof. *)
LEMMA StoredFacts ==
  ASSUME SharesFit, NEW s, NodeFits(s), NEW i \in Ids
  PROVE  /\ StoredProven(s, i) \in NodeState /\ NodeFits(StoredProven(s, i))
         /\ StoredProven(s, i).proofs = s.proofs \cup {i}
         /\ StoredProven(s, i).pending = s.pending
<1> DEFINE t == Stored(shares, s, i)
           u == [t EXCEPT !.proofs = @ \cup {i}]
<1>1. StoredAs(s, i, t)
  BY StoredShape DEF NodeFits, TipFits
<1>2. StoredProven(s, i) = u
  BY DEF StoredProven
<1> HIDE DEF t
<1>3. s.proofs \in SUBSET Ids
  BY DEF NodeFits, NodeState
<1>4. /\ u \in NodeState /\ u.proofs = s.proofs \cup {i} /\ u.pending = s.pending
      /\ u.unannounced = s.unannounced /\ u.blocksSeen = s.blocksSeen
      /\ u.store = t.store /\ u.tip = t.tip
  BY <1>1, <1>3 DEF StoredAs, NodeState
<1> HIDE DEF u
<1>5. NodeFits(u)
  BY <1>1, <1>4 DEF StoredAs, NodeFits
<1> QED
  BY <1>2, <1>4, <1>5

LEMMA SyncedFacts ==
  ASSUME SharesFit, NEW s, NEW t \in Onward(s), NEW i \in Ids
  PROVE  Synced(t, i) \in Onward(s)
<1>1. t \in NodeState /\ NodeFits(t) /\ s.proofs \subseteq t.proofs /\ t.pending = s.pending
  BY DEF Onward
<1>2. CASE i \in t.store
  BY <1>2 DEF Synced
<1>3. CASE i \notin t.store /\ ParentKnown(t, i)
  <2>1. Synced(t, i) = StoredProven(t, i)
    BY <1>3 DEF Synced
  <2> QED
    BY <1>1, <2>1, StoredFacts DEF Onward
<1>4. CASE i \notin t.store /\ ~ParentKnown(t, i)
  <2> DEFINE u == [t EXCEPT !.gaps = @ \cup {i}]
  <2>1. Synced(t, i) = u
    BY <1>4 DEF Synced
  <2>2. /\ u \in NodeState /\ u.proofs = t.proofs /\ u.pending = t.pending
        /\ u.unannounced = t.unannounced /\ u.blocksSeen = t.blocksSeen
        /\ u.store = t.store /\ u.tip = t.tip
    BY <1>1 DEF NodeState
  <2> HIDE DEF u
  <2>3. NodeFits(u)
    BY <1>1, <2>2 DEF NodeFits
  <2> QED
    BY <1>1, <2>1, <2>2, <2>3 DEF Onward
<1> QED
  BY <1>2, <1>3, <1>4

(***************************************************************************)
(* AllSynced goes through a batch by a recursive function on its subsets.  *)
(* That this function exists, and that its values are fit states, needs    *)
(* induction; each proof takes a smallest counterexample.                  *)
(***************************************************************************)
SyncStep(s, g, ids) == IF ids = {} THEN s ELSE Synced(g[ids \ {Max(ids)}], Max(ids))

SmallSubsets(ids, n) == {r \in SUBSET ids : Cardinality(r) =< n}

LEMMA SmallerBatch ==
  ASSUME SharesFit, NEW r \in SUBSET Ids, r # {}
  PROVE  /\ Max(r) \in r /\ IsFiniteSet(r) /\ Cardinality(r) \in Nat \ {0}
         /\ r \ {Max(r)} \in SUBSET Ids
         /\ Cardinality(r \ {Max(r)}) = Cardinality(r) - 1
<1>1. Ids = 1..Len(shares) /\ Len(shares) \in Nat
  BY IdFacts
<1>2. IsFiniteSet(r)
  <2>1. IsFiniteSet(Ids)
    BY <1>1, FS_Interval
  <2> QED
    BY <2>1, FS_Subset
<1>3. Max(r) \in r
  <2> DEFINE below == {n \in Nat : \E x \in r : n = Len(shares) - x}
  <2>1. below # {} /\ below \in SUBSET Nat
    <3>1. \A x \in r : Len(shares) - x \in Nat
      BY <1>1
    <3> QED
      BY <3>1
  <2>2. PICK n \in below : \A k \in below : n =< k
    BY <2>1, LeastNat
  <2>3. PICK x \in r : n = Len(shares) - x
    BY <2>2
  <2>4. \A y \in r : x >= y
    <3>1. \A y \in r : Len(shares) - y \in below
      BY <1>1
    <3>2. \A y \in r : Len(shares) - x =< Len(shares) - y
      BY <2>2, <2>3, <3>1
    <3> HIDE DEF below
    <3> QED
      BY <1>1, <3>2
  <2> QED
    BY <2>4 DEF Max
<1> QED
  BY <1>2, <1>3, FS_RemoveElement, FS_CardinalityType, FS_EmptySet

LEMMA SyncExists ==
  ASSUME SharesFit, NEW s, NodeFits(s), NEW ids \in SUBSET Ids, NEW n \in Nat
  PROVE  \E g \in [SmallSubsets(ids, n) -> Onward(s)] :
            \A r \in SmallSubsets(ids, n) : g[r] = SyncStep(s, g, r)
<1> DEFINE Has(m) == \E g \in [SmallSubsets(ids, m) -> Onward(s)] :
                        \A r \in SmallSubsets(ids, m) : g[r] = SyncStep(s, g, r)
           Bad == {m \in Nat : ~Has(m)}
<1>1. SUFFICES ASSUME Bad # {} PROVE FALSE
  BY <1>1
<1>2. PICK m \in Bad : \A k \in Bad : m =< k
  BY <1>1, LeastNat
<1>3. s \in Onward(s)
  BY DEF Onward, NodeFits
<1>4. \A r \in SUBSET ids : r # {} =>
         /\ Max(r) \in ids /\ Cardinality(r) \in Nat \ {0}
         /\ r \ {Max(r)} \in SUBSET ids
         /\ Cardinality(r \ {Max(r)}) = Cardinality(r) - 1
  BY SmallerBatch
<1>5. Cardinality({}) = 0
  BY FS_EmptySet
<1>6. m \in Nat
  BY <1>2
<1>7. CASE m = 0
  <2> DEFINE g == [r \in SmallSubsets(ids, 0) |-> s]
  <2>1. ASSUME NEW r \in SmallSubsets(ids, 0) PROVE r = {}
    <3>1. r \in SUBSET ids /\ Cardinality(r) =< 0
      BY DEF SmallSubsets
    <3>2. r # {} => Cardinality(r) \in Nat \ {0}
      BY <1>4, <3>1
    <3> QED
      BY <3>1, <3>2
  <2>2. g \in [SmallSubsets(ids, 0) -> Onward(s)]
    BY <1>3
  <2>3. \A r \in SmallSubsets(ids, 0) : g[r] = SyncStep(s, g, r)
    BY <2>1 DEF SyncStep
  <2>4. Has(0)
    BY <2>2, <2>3
  <2> QED
    BY <1>2, <1>7, <2>4
<1>8. CASE m # 0
  <2>1. m - 1 \in Nat /\ m - 1 \notin Bad
    BY <1>2, <1>8
  <2>2. PICK h \in [SmallSubsets(ids, m - 1) -> Onward(s)] :
          \A r \in SmallSubsets(ids, m - 1) : h[r] = SyncStep(s, h, r)
    BY <2>1
  <2> DEFINE g == [r \in SmallSubsets(ids, m) |-> SyncStep(s, h, r)]
  <2>3. \A r \in SmallSubsets(ids, m) : r # {} =>
           /\ r \ {Max(r)} \in SmallSubsets(ids, m - 1)
           /\ Max(r) \in Ids
    BY <1>2, <1>4 DEF SmallSubsets
  <2>4. g \in [SmallSubsets(ids, m) -> Onward(s)]
    <3>1. ASSUME NEW r \in SmallSubsets(ids, m) PROVE SyncStep(s, h, r) \in Onward(s)
      <4>1. CASE r = {}
        BY <1>3, <4>1 DEF SyncStep
      <4>2. CASE r # {}
        <5>1. h[r \ {Max(r)}] \in Onward(s)
          BY <2>2, <2>3, <4>2
        <5> QED
          BY <2>3, <4>2, <5>1, SyncedFacts DEF SyncStep
      <4> QED
        BY <4>1, <4>2
    <3> QED
      BY <3>1
  <2>5. \A r \in SmallSubsets(ids, m - 1) : r \in SmallSubsets(ids, m) /\ g[r] = h[r]
    <3>1. ASSUME NEW r \in SmallSubsets(ids, m - 1) PROVE r \in SmallSubsets(ids, m)
      <4>1. r \in SUBSET ids /\ Cardinality(r) =< m - 1
        BY DEF SmallSubsets
      <4>2. Cardinality(r) \in Nat
        <5>1. CASE r = {}
          BY <1>5, <5>1
        <5>2. CASE r # {}
          BY <1>4, <4>1, <5>2
        <5> QED
          BY <5>1, <5>2
      <4>3. Cardinality(r) =< m
        BY <1>6, <4>1, <4>2
      <4> QED
        BY <4>1, <4>3 DEF SmallSubsets
    <3> QED
      BY <2>2, <3>1
  <2>6. \A r \in SmallSubsets(ids, m) : g[r] = SyncStep(s, g, r)
    <3>1. ASSUME NEW r \in SmallSubsets(ids, m), r # {}
          PROVE  SyncStep(s, h, r) = SyncStep(s, g, r)
      BY <2>3, <2>5, <3>1 DEF SyncStep
    <3>2. \A r \in SmallSubsets(ids, m) : r = {} => SyncStep(s, h, r) = SyncStep(s, g, r)
      BY DEF SyncStep
    <3> QED
      BY <3>1, <3>2
  <2>7. Has(m)
    BY <2>4, <2>6
  <2> QED
    BY <1>2, <2>7
<1> QED
  BY <1>7, <1>8

(* A batch of a window sync keeps the node fit, and takes no proof away. *)
LEMMA AllSyncedFacts ==
  ASSUME SharesFit, NEW s, NodeFits(s), NEW ids \in SUBSET Ids
  PROVE  AllSynced(s, ids) \in Onward(s)
<1> DEFINE iter == CHOOSE g : g = [r \in SUBSET ids |-> SyncStep(s, g, r)]
<1>1. AllSynced(s, ids) = iter[ids]
  BY DEF AllSynced, MapThenFoldSet, SyncStep
<1>2. \A r \in SUBSET ids : r # {} =>
         /\ Max(r) \in Ids /\ Cardinality(r) \in Nat \ {0}
         /\ r \ {Max(r)} \in SUBSET ids
         /\ Cardinality(r \ {Max(r)}) = Cardinality(r) - 1
  BY SmallerBatch
<1>3. \A r \in SUBSET ids : Cardinality(r) \in Nat /\ Cardinality(r) =< Cardinality(ids)
  <2>1. IsFiniteSet(ids)
    <3>1. IsFiniteSet(Ids)
      BY IdFacts, FS_Interval
    <3> QED
      BY <3>1, FS_Subset
  <2> QED
    BY <2>1, FS_Subset, FS_CardinalityType
<1>4. \E g : g = [r \in SUBSET ids |-> SyncStep(s, g, r)]
  <2>1. SmallSubsets(ids, Cardinality(ids)) = SUBSET ids
    BY <1>3 DEF SmallSubsets
  <2>2. \E g \in [SmallSubsets(ids, Cardinality(ids)) -> Onward(s)] :
           \A r \in SmallSubsets(ids, Cardinality(ids)) : g[r] = SyncStep(s, g, r)
    BY <1>3, SyncExists
  <2>3. PICK g \in [SUBSET ids -> Onward(s)] : \A r \in SUBSET ids : g[r] = SyncStep(s, g, r)
    BY <2>1, <2>2
  <2>4. g = [r \in SUBSET ids |-> SyncStep(s, g, r)]
    BY <2>3
  <2> QED
    BY <2>4
<1>5. iter = [r \in SUBSET ids |-> SyncStep(s, iter, r)]
  BY <1>4
<1> HIDE DEF iter
<1> DEFINE Bad == {n \in Nat : \E r \in SUBSET ids : Cardinality(r) = n /\ iter[r] \notin Onward(s)}
<1>6. Bad = {}
  <2>1. SUFFICES ASSUME Bad # {} PROVE FALSE
    BY <2>1
  <2>2. PICK n \in Bad : \A k \in Bad : n =< k
    BY <2>1, LeastNat
  <2>3. PICK r \in SUBSET ids : Cardinality(r) = n /\ iter[r] \notin Onward(s)
    BY <2>2
  <2>4. iter[r] = SyncStep(s, iter, r)
    BY <1>5
  <2>5. r # {}
    BY <2>3, <2>4 DEF SyncStep, Onward, NodeFits
  <2>6. Cardinality(r \ {Max(r)}) = n - 1 /\ n - 1 \in Nat /\ ~(n =< n - 1)
    BY <1>2, <2>3, <2>5
  <2>7. iter[r \ {Max(r)}] \in Onward(s)
    BY <1>2, <2>2, <2>5, <2>6
  <2> QED
    BY <1>2, <2>3, <2>4, <2>5, <2>7, SyncedFacts DEF SyncStep
<1> QED
  BY <1>1, <1>3, <1>6

-----------------------------------------------------------------------------
(* What the connections carry *)

(***************************************************************************)
(* What is announced or answered by a node is proven there, what is asked  *)
(* of a node can be proven there, and a block on its way was found.        *)
(***************************************************************************)
Fits(p, msg) ==
    /\ msg.type \in {"share", "proof"} => msg.id \in node[p[1]].proofs
    /\ msg.type = "getproof" => msg.id \in node[p[2]].proofs
    /\ msg.type = "block" => msg.block =< blocks

ChanFits ==
    /\ chan \in [Pairs -> Seq(Message)]
    /\ \A p \in Pairs : \A msg \in Range(chan[p]) : Fits(p, msg)

(* d carries what c does, and more: new holds pairs of nodes with messages *)
More(c, d, new) ==
    /\ d \in [Pairs -> Seq(Message)]
    /\ \A p \in Pairs : /\ Range(c[p]) \subseteq Range(d[p])
                        /\ \A x \in Range(d[p]) : x \in Range(c[p]) \/ <<p, x>> \in new

LEMMA MoreNone ==
  ASSUME NEW c \in [Pairs -> Seq(Message)]
  PROVE  More(c, c, {})
BY DEF More

LEMMA MoreSent ==
  ASSUME NEW c \in [Pairs -> Seq(Message)], NEW n, NEW m, <<n, m>> \in Pairs, NEW msg \in Message
  PROVE  /\ More(c, Sent(c, n, m, msg), {<<<<n, m>>, msg>>})
         /\ msg \in Range(Sent(c, n, m, msg)[<<n, m>>])
<1> DEFINE d == Sent(c, n, m, msg)
<1>1. /\ d = [c EXCEPT ![<<n, m>>] = Append(@, msg)]
  BY DEF Sent
<1>2. Append(c[<<n, m>>], msg) \in Seq(Message)
      /\ Range(Append(c[<<n, m>>], msg)) = Range(c[<<n, m>>]) \cup {msg}
  BY RangeAppend
<1>3. d \in [Pairs -> Seq(Message)] /\ d[<<n, m>>] = Append(c[<<n, m>>], msg)
      /\ \A p \in Pairs : p # <<n, m>> => d[p] = c[p]
  BY <1>1, <1>2
<1> QED
  BY <1>2, <1>3 DEF More

LEMMA MoreBroadcast ==
  ASSUME NEW c \in [Pairs -> Seq(Message)], NEW n, NEW msg \in Message, NEW excluded
  PROVE  More(c, Broadcast(c, n, msg, excluded), {<<p, msg>> : p \in {q \in Pairs : q[1] = n}})
<1> DEFINE d == Broadcast(c, n, msg, excluded)
<1>1. d = [p \in Pairs |-> IF p[1] = n /\ p[2] \in peers[n] \ excluded THEN Append(c[p], msg) ELSE c[p]]
  BY DEF Broadcast
<1>2. ASSUME NEW p \in Pairs
      PROVE  /\ d[p] \in Seq(Message)
             /\ d[p] = c[p] \/ (p[1] = n /\ Range(d[p]) = Range(c[p]) \cup {msg})
  <2>1. Append(c[p], msg) \in Seq(Message) /\ Range(Append(c[p], msg)) = Range(c[p]) \cup {msg}
    BY RangeAppend
  <2> QED
    BY <1>1, <2>1
<1>3. d \in [Pairs -> Seq(Message)]
  BY <1>1, <1>2
<1> HIDE DEF d
<1> QED
  BY <1>2, <1>3 DEF More, d

(* The head of a channel is taken. *)
LEMMA RestFacts ==
  ASSUME chan \in [Pairs -> Seq(Message)], NEW n, NEW m, <<m, n>> \in Pairs,
         chan[<<m, n>>] # << >>
  PROVE  /\ Rest(n, m) \in [Pairs -> Seq(Message)]
         /\ Msg(n, m) \in Message /\ Msg(n, m) \in Range(chan[<<m, n>>])
         /\ \A p \in Pairs : /\ Range(Rest(n, m)[p]) \subseteq Range(chan[p])
                             /\ \A x \in Range(chan[p]) :
                                   x \in Range(Rest(n, m)[p]) \/ (p = <<m, n>> /\ x = Msg(n, m))
<1> DEFINE s == chan[<<m, n>>]
           d == Rest(n, m)
<1>1. /\ Tail(s) \in Seq(Message) /\ Head(s) \in Message /\ Head(s) \in Range(s)
      /\ Range(Tail(s)) \subseteq Range(s) /\ Range(s) \subseteq Range(Tail(s)) \cup {Head(s)}
  BY RangeTail
<1>2. d = [chan EXCEPT ![<<m, n>>] = Tail(@)] /\ Msg(n, m) = Head(s)
  BY DEF Rest, Msg
<1>3. d \in [Pairs -> Seq(Message)] /\ d[<<m, n>>] = Tail(s)
      /\ \A p \in Pairs : p # <<m, n>> => d[p] = chan[p]
  BY <1>1, <1>2
<1> HIDE DEF d
<1> QED
  BY <1>1, <1>2, <1>3 DEF d

(* What is left and what is added fits, where no proof is lost. *)
LEMMA ChanKept ==
  ASSUME ChanFits, UNCHANGED shares, NEW c, NEW new,
         \A p \in Pairs : Range(c[p]) \subseteq Range(chan[p]),
         More(c, chan', new),
         \A p \in Pairs : \A x : <<p, x>> \in new => Fits(p, x)',
         \A n \in Nodes : node[n].proofs \subseteq node'[n].proofs,
         blocks \in Nat, blocks' \in Nat, blocks =< blocks'
  PROVE  ChanFits'
<1>1. Message' = Message
  BY DEF Message, Ids
<1>2. ASSUME NEW p \in Pairs, NEW x \in Range(chan[p])
      PROVE  Fits(p, x)'
  <2>1. Fits(p, x) /\ x \in Message
    BY RangePlaces DEF ChanFits
  <2>2. p[1] \in Nodes /\ p[2] \in Nodes
    BY DEF Pairs
  <2>3. x.type = "block" => x.block =< blocks'
    <3>1. x.type = "block" => x.block \in Int
      BY <2>1 DEF Message
    <3> QED
      BY <2>1, <3>1 DEF Fits
  <2> QED
    BY <2>1, <2>2, <2>3 DEF Fits
<1>3. \A p \in Pairs : \A x \in Range(chan'[p]) : Fits(p, x)'
  BY <1>2 DEF More
<1> QED
  BY <1>1, <1>3 DEF ChanFits, More

-----------------------------------------------------------------------------
(* The invariant *)

NodesFit == node \in [Nodes -> NodeState] /\ \A n \in Nodes : NodeFits(node[n])

Bounds ==
    /\ peers \in [Nodes -> SUBSET Nodes] /\ dialed \subseteq Links
    /\ stream \in [Pairs -> SUBSET Ids]
    /\ restarts \in 0..MaxRestarts /\ blocks \in 0..MaxBlocks /\ losses \in 0..MaxLosses

SafeInv == SharesFit /\ NodesFit /\ ChanFits /\ Bounds

GossipInv == SafeInv /\ (losses = 0 /\ restarts = 0 => PendingIsAsked)

AskedOver(c, n, i) ==
    \E m \in Nodes \ {n} : \/ [type |-> "getproof", id |-> i] \in Range(c[<<n, m>>])
                           \/ [type |-> "proof", id |-> i] \in Range(c[<<m, n>>])

LEMMA AskedIsOver ==
  chan \in [Pairs -> Seq(Message)] =>
    \A n \in Nodes : \A i : Asked(n, i) <=> AskedOver(chan, n, i)
<1> SUFFICES ASSUME chan \in [Pairs -> Seq(Message)], NEW n \in Nodes, NEW i
             PROVE  Asked(n, i) <=> AskedOver(chan, n, i)
  OBVIOUS
<1>1. \A m \in Nodes \ {n} : chan[<<n, m>>] \in Seq(Message) /\ chan[<<m, n>>] \in Seq(Message)
  BY DEF Pairs
<1>2. \A p \in Pairs : \A x : x \in Range(chan[p]) <=> \E k \in DOMAIN chan[p] : chan[p][k] = x
  BY DEF Range
<1>3. \A m \in Nodes \ {n} : <<n, m>> \in Pairs /\ <<m, n>> \in Pairs
  BY DEF Pairs
<1> QED
  BY <1>2, <1>3 DEF Asked, AskedOver

(* The channels carry on what they did, except for one message of t. *)
AllBut(t, gone) ==
    \A p \in Pairs : \A x \in Range(chan[p]) : x \in Range(chan'[p]) \/ (p = t /\ x = gone)

(* What is asked stays asked until its message is taken. *)
LEMMA AskedStays ==
  ASSUME ChanFits, ChanFits', NEW t, NEW gone, AllBut(t, gone), NEW k \in Nodes, NEW j, Asked(k, j)
  PROVE  \/ Asked(k, j)'
         \/ \E l \in Nodes : t = <<k, l>> /\ gone = [type |-> "getproof", id |-> j]
         \/ \E l \in Nodes : t = <<l, k>> /\ gone = [type |-> "proof", id |-> j]
<1>1. AskedOver(chan, k, j)
  BY AskedIsOver DEF ChanFits
<1>2. (chan \in [Pairs -> Seq(Message)] =>
         \A n \in Nodes : \A i : Asked(n, i) <=> AskedOver(chan, n, i))'
  BY AskedIsOver, PTL
<1>3. AskedOver(chan', k, j) => Asked(k, j)'
  BY <1>2 DEF ChanFits
<1>4. PICK l \in Nodes \ {k} : \/ [type |-> "getproof", id |-> j] \in Range(chan[<<k, l>>])
                               \/ [type |-> "proof", id |-> j] \in Range(chan[<<l, k>>])
  BY <1>1 DEF AskedOver
<1>5. <<k, l>> \in Pairs /\ <<l, k>> \in Pairs
  BY DEF Pairs
<1>6. CASE [type |-> "getproof", id |-> j] \in Range(chan[<<k, l>>])
  <2>1. \/ [type |-> "getproof", id |-> j] \in Range(chan'[<<k, l>>])
        \/ t = <<k, l>> /\ gone = [type |-> "getproof", id |-> j]
    BY <1>5, <1>6 DEF AllBut
  <2> QED
    BY <1>3, <2>1 DEF AskedOver
<1>7. CASE [type |-> "proof", id |-> j] \in Range(chan[<<l, k>>])
  <2>1. \/ [type |-> "proof", id |-> j] \in Range(chan'[<<l, k>>])
        \/ t = <<l, k>> /\ gone = [type |-> "proof", id |-> j]
    BY <1>5, <1>7 DEF AllBut
  <2> QED
    BY <1>3, <2>1 DEF AskedOver
<1> QED
  BY <1>4, <1>6, <1>7

(* A step that takes nothing: what it sends fits, and what is asked stays asked. *)
LEMMA SendingStep ==
  ASSUME SafeInv, UNCHANGED shares, NEW new, More(chan, chan', new),
         \A p \in Pairs : \A x : <<p, x>> \in new => Fits(p, x)',
         \A n \in Nodes : node[n].proofs \subseteq node'[n].proofs,
         blocks' \in Nat, blocks =< blocks'
  PROVE  ChanFits' /\ \A k \in Nodes : \A j : Asked(k, j) => Asked(k, j)'
<1>1. ChanFits'
  <2>1. blocks \in Nat
    BY GossipAssumption DEF SafeInv, Bounds
  <2> QED
    BY <2>1, ChanKept DEF SafeInv
<1>2. ASSUME NEW k \in Nodes, NEW j, Asked(k, j) PROVE Asked(k, j)'
  <2> DEFINE none == [type |-> "none"]
  <2>1. AllBut({}, none)
    BY DEF AllBut, More
  <2>2. none # [type |-> "getproof", id |-> j] /\ none # [type |-> "proof", id |-> j]
    <3>1. none.type # "getproof" /\ none.type # "proof"
      OBVIOUS
    <3> QED
      BY <3>1
  <2> HIDE DEF none
  <2> QED
    BY <1>1, <1>2, <2>1, <2>2, AskedStays DEF SafeInv
<1> QED
  BY <1>1, <1>2

(* A step that takes the next message of m to n. *)
LEMMA HandlerStep ==
  ASSUME SafeInv, UNCHANGED <<shares, blocks>>, NEW n, NEW m, <<m, n>> \in Pairs,
         chan[<<m, n>>] # << >>, NEW new, More(Rest(n, m), chan', new),
         \A p \in Pairs : \A x : <<p, x>> \in new => Fits(p, x)',
         \A k \in Nodes : node[k].proofs \subseteq node'[k].proofs
  PROVE  /\ ChanFits'
         /\ \A k \in Nodes : \A j :
               Asked(k, j) => \/ Asked(k, j)'
                              \/ k = m /\ Msg(n, m) = [type |-> "getproof", id |-> j]
                              \/ k = n /\ Msg(n, m) = [type |-> "proof", id |-> j]
<1>1. /\ \A p \in Pairs : Range(Rest(n, m)[p]) \subseteq Range(chan[p])
      /\ \A p \in Pairs : \A x \in Range(chan[p]) :
            x \in Range(Rest(n, m)[p]) \/ (p = <<m, n>> /\ x = Msg(n, m))
  BY RestFacts DEF SafeInv, ChanFits
<1>2. ChanFits'
  <2>1. blocks \in Nat /\ blocks' = blocks
    BY GossipAssumption DEF SafeInv, Bounds
  <2>2. blocks' \in Nat /\ blocks =< blocks'
    BY <2>1
  <2> QED
    BY <1>1, <2>1, <2>2, ChanKept DEF SafeInv
<1>3. ASSUME NEW k \in Nodes, NEW j, Asked(k, j)
      PROVE  \/ Asked(k, j)'
             \/ k = m /\ Msg(n, m) = [type |-> "getproof", id |-> j]
             \/ k = n /\ Msg(n, m) = [type |-> "proof", id |-> j]
  <2> DEFINE t == <<m, n>>
             gone == Msg(n, m)
  <2>1. AllBut(t, gone)
    BY <1>1 DEF AllBut, More
  <2> HIDE DEF t, gone
  <2>2. \/ Asked(k, j)'
        \/ \E l \in Nodes : t = <<k, l>> /\ gone = [type |-> "getproof", id |-> j]
        \/ \E l \in Nodes : t = <<l, k>> /\ gone = [type |-> "proof", id |-> j]
    BY <1>2, <1>3, <2>1, AskedStays DEF SafeInv
  <2>3. \A l : (t = <<k, l>> => k = m) /\ (t = <<l, k>> => k = n)
    BY DEF t
  <2>4. gone = Msg(n, m)
    BY DEF gone
  <2> QED
    BY <2>2, <2>3, <2>4
<1> QED
  BY <1>2, <1>3

(* A step that takes a message of another kind than a request or an answer *)
LEMMA PlainStep ==
  ASSUME SafeInv, UNCHANGED <<shares, blocks>>, NEW n, NEW m, <<m, n>> \in Pairs,
         chan[<<m, n>>] # << >>, NEW new, More(Rest(n, m), chan', new),
         \A p \in Pairs : \A x : <<p, x>> \in new => Fits(p, x)',
         \A k \in Nodes : node[k].proofs \subseteq node'[k].proofs,
         Msg(n, m).type # "getproof", Msg(n, m).type # "proof"
  PROVE  ChanFits' /\ \A k \in Nodes : \A j : Asked(k, j) => Asked(k, j)'
<1>1. /\ ChanFits'
      /\ \A k \in Nodes : \A j :
            Asked(k, j) => \/ Asked(k, j)'
                           \/ k = m /\ Msg(n, m) = [type |-> "getproof", id |-> j]
                           \/ k = n /\ Msg(n, m) = [type |-> "proof", id |-> j]
  BY HandlerStep
<1>2. \A j : Msg(n, m) # [type |-> "getproof", id |-> j] /\ Msg(n, m) # [type |-> "proof", id |-> j]
  OBVIOUS
<1> QED
  BY <1>1, <1>2

(* Every message that a node sends is one. *)
LEMMA Messages ==
  ASSUME SafeInv
  PROVE  /\ \A i \in Ids : ShareMsg(i) \in Message
         /\ \A i \in Ids : [type |-> "getproof", id |-> i] \in Message
         /\ \A i \in Ids : [type |-> "proof", id |-> i] \in Message
         /\ \A h \in Nat : GetSharesMsg(h) \in Message
         /\ \A ids \in SUBSET Ids : [type |-> "shares", ids |-> ids] \in Message
         /\ \A b \in 1..MaxBlocks : BlockMsg(b) \in Message
         /\ \A n \in Nodes : HelloMsg(n) \in Message /\ Height(node[n]) \in Nat \cup {-1}
<1>1. ASSUME NEW n \in Nodes PROVE Height(node[n]) \in Nat \cup {-1}
  <2>1. node[n].tip \in Ids \cup {Genesis}
    BY DEF SafeInv, NodesFit, NodeState
  <2> QED
    BY <2>1, IdFacts DEF SafeInv, Height, HeightOf
<1> QED
  BY <1>1 DEF Message, ShareMsg, GetSharesMsg, HelloMsg, BlockMsg

(* What the next message holds *)
LEMMA NextMessage ==
  ASSUME SafeInv, NEW n, NEW m, NEW type, <<m, n>> \in Pairs, Takes(n, m, type)
  PROVE  /\ chan[<<m, n>>] # << >> /\ Msg(n, m).type = type
         /\ Rest(n, m) \in [Pairs -> Seq(Message)]
         /\ type \in {"share", "getproof", "proof"} => Msg(n, m).id \in Ids
         /\ type = "shares" => Msg(n, m).ids \in SUBSET Ids
         /\ type = "block" => Msg(n, m).block \in 1..MaxBlocks /\ Msg(n, m).block =< blocks
         /\ type \in {"share", "proof"} => Msg(n, m).id \in node[m].proofs
         /\ type = "getproof" => Msg(n, m).id \in node[n].proofs
<1>1. chan[<<m, n>>] # << >> /\ Msg(n, m).type = type
  BY DEF Takes, Msg
<1>2. Msg(n, m) \in Message /\ Fits(<<m, n>>, Msg(n, m)) /\ Rest(n, m) \in [Pairs -> Seq(Message)]
  BY <1>1, RestFacts DEF SafeInv, ChanFits
<1>3. /\ type \in {"share", "getproof", "proof"} => Msg(n, m).id \in Ids
      /\ type = "shares" => Msg(n, m).ids \in SUBSET Ids
      /\ type = "block" => Msg(n, m).block \in 1..MaxBlocks
  BY <1>1, <1>2 DEF Message
<1> QED
  BY <1>1, <1>2, <1>3 DEF Fits

-----------------------------------------------------------------------------
(* The steps *)

StepFits == NodesFit' /\ ChanFits' /\ Bounds' /\ (PendingIsAsked => PendingIsAsked')

(* A node moves on from a fit state to another, the others stay. *)
LEMMA NodeMoves ==
  ASSUME SafeInv, UNCHANGED <<shares, blocks>>, NEW n \in Nodes, NEW t, NodeFits(t),
         node' = [node EXCEPT ![n] = t]
  PROVE  NodesFit' /\ node'[n] = t /\ \A k \in Nodes : k # n => node'[k] = node[k]
<1>1. t \in NodeState /\ NodeState' = NodeState
  BY DEF NodeFits, NodeState, Ids
<1>2. /\ node' \in [Nodes -> NodeState] /\ node'[n] = t
      /\ \A k \in Nodes : k # n => node'[k] = node[k]
  BY <1>1 DEF SafeInv, NodesFit
<1>3. ASSUME NEW k \in Nodes PROVE NodeFits(node[k])'
  <2>1. NodeFits(node'[k])
    BY <1>2 DEF SafeInv, NodesFit
  <2> QED
    BY <1>1, <2>1 DEF NodeFits
<1> QED
  BY <1>1, <1>2, <1>3 DEF NodesFit

LEMMA NodesStay ==
  ASSUME SafeInv, UNCHANGED <<shares, blocks, node>>
  PROVE  NodesFit'
BY DEF SafeInv, NodesFit, NodeFits, NodeState, Ids

(* The steps that only send leave what is pending asked. *)
LEMMA PendingStays ==
  ASSUME \A k \in Nodes : node'[k].pending = node[k].pending,
         \A k \in Nodes : \A j : Asked(k, j) => Asked(k, j)'
  PROVE  PendingIsAsked => PendingIsAsked'
BY DEF PendingIsAsked

LEMMA BroadcastShareStep ==
  ASSUME SafeInv, NEW n \in Nodes, BroadcastShare(n)
  PROVE  StepFits
<1> DEFINE s == node[n]
           i == Head(s.unannounced)
           t == [s EXCEPT !.proofs = @ \cup {i}, !.unannounced = Tail(@)]
           new == {<<p, ShareMsg(i)>> : p \in {q \in Pairs : q[1] = n}}
<1>1. /\ s.unannounced # << >> /\ UNCHANGED <<shares, blocks, peers, dialed, stream, losses, restarts>>
      /\ chan' = Broadcast(chan, n, ShareMsg(i), {})
      /\ node' = [node EXCEPT ![n].proofs = @ \cup {i}, ![n].unannounced = Tail(@)]
  BY DEF BroadcastShare, counts
<1>2. NodeFits(s) /\ node \in [Nodes -> NodeState]
  BY DEF SafeInv, NodesFit
<1>3. /\ Tail(s.unannounced) \in Seq(Ids) /\ i \in Ids
      /\ Range(s.unannounced) \subseteq Range(Tail(s.unannounced)) \cup {i}
  BY <1>1, <1>2, RangeTail DEF NodeFits, NodeState
<1>4. node' = [node EXCEPT ![n] = t]
  BY <1>1, <1>2 DEF NodeState
<1>5. /\ t \in NodeState /\ t.proofs = s.proofs \cup {i} /\ t.pending = s.pending
      /\ t.unannounced = Tail(s.unannounced) /\ t.blocksSeen = s.blocksSeen
      /\ t.store = s.store /\ t.tip = s.tip
  BY <1>2, <1>3 DEF NodeFits, NodeState
<1> HIDE DEF t
<1>6. NodeFits(t)
  BY <1>2, <1>3, <1>5 DEF NodeFits
<1>7. NodesFit' /\ node'[n] = t /\ \A k \in Nodes : k # n => node'[k] = node[k]
  BY <1>1, <1>4, <1>6, NodeMoves
<1>8. More(chan, chan', new)
  BY <1>1, <1>3, Messages, MoreBroadcast DEF SafeInv, ChanFits
<1>9. \A p \in Pairs : \A x : <<p, x>> \in new => Fits(p, x)'
  BY <1>5, <1>7 DEF Fits, ShareMsg
<1>10. \A k \in Nodes : node[k].proofs \subseteq node'[k].proofs /\ node'[k].pending = node[k].pending
  BY <1>5, <1>7
<1> HIDE DEF new
<1>11. ChanFits' /\ \A k \in Nodes : \A j : Asked(k, j) => Asked(k, j)'
  <2>1. blocks' \in Nat /\ blocks =< blocks'
    BY <1>1, GossipAssumption DEF SafeInv, Bounds
  <2> QED
    BY <1>1, <1>8, <1>9, <1>10, <2>1, SendingStep
<1>12. Bounds'
  BY <1>1 DEF SafeInv, Bounds, Ids
<1> QED
  BY <1>7, <1>10, <1>11, <1>12, PendingStays DEF StepFits

LEMMA HandleHelloStep ==
  ASSUME SafeInv, NEW n \in Nodes, NEW m \in Nodes, <<n, m>> \in Pairs, HandleHello(n, m)
  PROVE  StepFits
<1> DEFINE msg == GetSharesMsg(Height(node[n]) + 1)
<1>1. /\ Takes(n, m, "hello") /\ UNCHANGED <<shares, blocks, node, peers, dialed, stream, losses, restarts>>
      /\ chan' = Rest(n, m) \/ chan' = Sent(Rest(n, m), n, m, msg)
  BY DEF HandleHello, counts
<1>2. <<m, n>> \in Pairs /\ chan[<<m, n>>] # << >> /\ Msg(n, m).type = "hello"
      /\ Rest(n, m) \in [Pairs -> Seq(Message)]
  <2>1. <<m, n>> \in Pairs
    BY DEF Pairs
  <2> QED
    BY <1>1, <2>1, NextMessage
<1>3. msg \in Message /\ msg.type = "getshares"
  BY Messages DEF GetSharesMsg
<1>4. PICK new : /\ More(Rest(n, m), chan', new)
                 /\ \A p \in Pairs : \A x : <<p, x>> \in new => x = msg
  <2>1. CASE chan' = Rest(n, m)
    BY <1>2, <2>1, MoreNone
  <2>2. CASE chan' = Sent(Rest(n, m), n, m, msg)
    <3>1. More(Rest(n, m), chan', {<<<<n, m>>, msg>>})
      BY <1>2, <1>3, <2>2, MoreSent
    <3> QED
      BY <3>1
  <2> QED
    BY <1>1, <2>1, <2>2
<1>5. \A p \in Pairs : \A x : <<p, x>> \in new => Fits(p, x)'
  BY <1>3, <1>4 DEF Fits
<1>6. /\ ChanFits'
      /\ \A k \in Nodes : \A j : Asked(k, j) => Asked(k, j)'
  <2>1. Msg(n, m).type # "getproof" /\ Msg(n, m).type # "proof"
    BY <1>2
  <2>2. \A k \in Nodes : node[k].proofs \subseteq node'[k].proofs
    BY <1>1
  <2>3. More(Rest(n, m), chan', new)
    BY <1>4
  <2> QED
    BY <1>1, <1>2, <1>5, <2>1, <2>2, <2>3, PlainStep
<1>7. NodesFit' /\ Bounds'
  BY <1>1, NodesStay DEF SafeInv, Bounds, Ids
<1>8. \A k \in Nodes : node'[k].pending = node[k].pending
  BY <1>1
<1> QED
  BY <1>6, <1>7, <1>8, PendingStays DEF StepFits

(* A request or an answer under way is one. *)
LEMMA AskedNow ==
  ASSUME ChanFits', NEW k \in Nodes, NEW l \in Nodes, l # k, NEW j,
         \/ [type |-> "getproof", id |-> j] \in Range(chan'[<<k, l>>])
         \/ [type |-> "proof", id |-> j] \in Range(chan'[<<l, k>>])
  PROVE  Asked(k, j)'
<1>1. (chan \in [Pairs -> Seq(Message)] =>
         \A n \in Nodes : \A i : Asked(n, i) <=> AskedOver(chan, n, i))'
  BY AskedIsOver, PTL
<1>2. AskedOver(chan', k, j)
  BY DEF AskedOver
<1> QED
  BY <1>1, <1>2 DEF ChanFits

LEMMA FromParentType ==
  ASSUME SafeInv, NEW i \in Ids
  PROVE  FromParent(i) \in Nat
<1>1. shares[i].height \in Nat
  BY IdFacts DEF SafeInv
<1>2. shares[i].height - 1 \in Int /\ 0 \in Int
  BY <1>1
<1>3. FromParent(i) \in {0, shares[i].height - 1} /\ 0 =< FromParent(i)
  BY <1>2, MaxOfTwo DEF FromParent
<1> QED
  BY <1>2, <1>3

LEMMA HandleShareStep ==
  ASSUME SafeInv, NEW n \in Nodes, NEW m \in Nodes, <<n, m>> \in Pairs, HandleShare(n, m)
  PROVE  StepFits
<1> DEFINE i == Msg(n, m).id
           s == node[n]
           known == i \in s.store \cup s.pending
           asksProof == ParentKnown(s, i)
           request == [type |-> "getproof", id |-> i]
           sync == GetSharesMsg(FromParent(i))
           t == [s EXCEPT !.pending = @ \cup {i}]
<1>1. /\ Takes(n, m, "share") /\ UNCHANGED <<shares, blocks, peers, dialed, stream, losses, restarts>>
      /\ chan' = IF known THEN Rest(n, m)
                 ELSE Sent(Rest(n, m), n, m, IF asksProof THEN request ELSE sync)
      /\ node' = IF known \/ ~asksProof THEN node ELSE [node EXCEPT ![n].pending = @ \cup {i}]
  BY DEF HandleShare, counts
<1>2. <<m, n>> \in Pairs /\ n # m
  BY DEF Pairs
<1>3. /\ chan[<<m, n>>] # << >> /\ Msg(n, m).type = "share" /\ i \in Ids
      /\ Rest(n, m) \in [Pairs -> Seq(Message)] /\ i \in node[m].proofs
  BY <1>1, <1>2, NextMessage
<1>4. NodeFits(s) /\ node \in [Nodes -> NodeState]
  BY DEF SafeInv, NodesFit
<1>5. /\ t \in NodeState /\ t.proofs = s.proofs /\ t.pending = s.pending \cup {i}
      /\ t.unannounced = s.unannounced /\ t.blocksSeen = s.blocksSeen
      /\ t.store = s.store /\ t.tip = s.tip
  BY <1>3, <1>4 DEF NodeFits, NodeState
<1>6. [node EXCEPT ![n].pending = @ \cup {i}] = [node EXCEPT ![n] = t]
  BY <1>4 DEF NodeState
<1> HIDE DEF t
<1>7. NodeFits(t)
  BY <1>4, <1>5 DEF NodeFits
<1>8. /\ NodesFit'
      /\ \A k \in Nodes : node'[k].proofs = node[k].proofs
      /\ \A k \in Nodes : \A j \in node'[k].pending :
            j \in node[k].pending \/ (k = n /\ j = i /\ ~known /\ asksProof)
  <2>1. CASE known \/ ~asksProof
    <3>1. node' = node
      BY <1>1, <2>1
    <3> QED
      BY <1>1, <3>1, NodesStay
  <2>2. CASE ~known /\ asksProof
    <3>1. node' = [node EXCEPT ![n] = t]
      BY <1>1, <1>6, <2>2
    <3>2. NodesFit' /\ node'[n] = t /\ \A k \in Nodes : k # n => node'[k] = node[k]
      BY <1>1, <1>7, <3>1, NodeMoves
    <3> QED
      BY <1>5, <2>2, <3>2
  <2> QED
    BY <2>1, <2>2
<1>9. request \in Message /\ sync \in Message /\ sync.type = "getshares"
  BY <1>3, Messages, FromParentType DEF GetSharesMsg
<1> HIDE DEF request, sync
<1>10. PICK new : /\ More(Rest(n, m), chan', new)
                  /\ \A p \in Pairs : \A x : <<p, x>> \in new => x = sync \/ (p = <<n, m>> /\ x = request)
                  /\ ~known /\ asksProof => request \in Range(chan'[<<n, m>>])
  <2>1. CASE known
    BY <1>1, <1>3, <2>1, MoreNone
  <2>2. CASE ~known /\ asksProof
    <3>1. chan' = Sent(Rest(n, m), n, m, request)
      BY <1>1, <2>2
    <3>2. More(Rest(n, m), chan', {<<<<n, m>>, request>>}) /\ request \in Range(chan'[<<n, m>>])
      BY <1>3, <1>9, <3>1, MoreSent
    <3> QED
      BY <3>2
  <2>3. CASE ~known /\ ~asksProof
    <3>1. chan' = Sent(Rest(n, m), n, m, sync)
      BY <1>1, <2>3
    <3>2. More(Rest(n, m), chan', {<<<<n, m>>, sync>>})
      BY <1>3, <1>9, <3>1, MoreSent
    <3> QED
      BY <2>3, <3>2
  <2> QED
    BY <2>1, <2>2, <2>3
<1>11. \A p \in Pairs : \A x : <<p, x>> \in new => Fits(p, x)'
  BY <1>3, <1>8, <1>9, <1>10 DEF Fits, request
<1>12. /\ ChanFits'
       /\ \A k \in Nodes : \A j : Asked(k, j) => Asked(k, j)'
  <2>1. Msg(n, m).type # "getproof" /\ Msg(n, m).type # "proof"
    BY <1>3
  <2>2. \A k \in Nodes : node[k].proofs \subseteq node'[k].proofs
    BY <1>8
  <2>3. More(Rest(n, m), chan', new)
    BY <1>10
  <2> HIDE DEF i, known, asksProof, s
  <2> QED
    BY <1>1, <1>2, <1>3, <1>11, <2>1, <2>2, <2>3, PlainStep
<1>13. Bounds'
  BY <1>1 DEF SafeInv, Bounds, Ids
<1>14. PendingIsAsked => PendingIsAsked'
  <2>1. ASSUME PendingIsAsked, NEW k \in Nodes, NEW j \in node'[k].pending PROVE Asked(k, j)'
    <3>1. CASE j \in node[k].pending
      BY <1>12, <2>1, <3>1 DEF PendingIsAsked
    <3>2. CASE k = n /\ j = i /\ ~known /\ asksProof
      <4>1. [type |-> "getproof", id |-> j] \in Range(chan'[<<n, m>>])
        BY <1>10, <3>2 DEF request
      <4> QED
        BY <1>2, <1>12, <3>2, <4>1, AskedNow
    <3> QED
      BY <1>8, <2>1, <3>1, <3>2
  <2> QED
    BY <2>1 DEF PendingIsAsked
<1> QED
  BY <1>8, <1>12, <1>13, <1>14 DEF StepFits

LEMMA HandleGetProofStep ==
  ASSUME SafeInv, NEW n \in Nodes, NEW m \in Nodes, <<n, m>> \in Pairs, HandleGetProof(n, m)
  PROVE  StepFits
<1> DEFINE i == Msg(n, m).id
           answer == [type |-> "proof", id |-> i]
<1>1. /\ Takes(n, m, "getproof")
      /\ UNCHANGED <<shares, blocks, node, peers, dialed, stream, losses, restarts>>
      /\ chan' = IF i \in node[n].proofs THEN Sent(Rest(n, m), n, m, answer) ELSE Rest(n, m)
  BY DEF HandleGetProof, counts
<1>2. <<m, n>> \in Pairs /\ n # m
  BY DEF Pairs
<1>3. /\ chan[<<m, n>>] # << >> /\ Msg(n, m).type = "getproof" /\ i \in Ids
      /\ Rest(n, m) \in [Pairs -> Seq(Message)] /\ i \in node[n].proofs
  BY <1>1, <1>2, NextMessage
<1>4. answer \in Message
  BY <1>3, Messages
<1> DEFINE new == {<<<<n, m>>, answer>>}
<1>5. More(Rest(n, m), chan', new) /\ answer \in Range(chan'[<<n, m>>])
  BY <1>1, <1>3, <1>4, MoreSent
<1>6. \A p \in Pairs : \A x : <<p, x>> \in new => Fits(p, x)'
  BY <1>1, <1>3 DEF Fits
<1> HIDE DEF new
<1>7. /\ ChanFits'
      /\ \A k \in Nodes : \A j :
            Asked(k, j) => Asked(k, j)' \/ (k = m /\ Msg(n, m) = [type |-> "getproof", id |-> j])
  <2>1. Msg(n, m).type # "proof"
    BY <1>3
  <2>2. \A k \in Nodes : node[k].proofs \subseteq node'[k].proofs
    BY <1>1
  <2> QED
    BY <1>1, <1>2, <1>3, <1>5, <1>6, <2>1, <2>2, HandlerStep
<1>8. NodesFit' /\ Bounds'
  BY <1>1, NodesStay DEF SafeInv, Bounds, Ids
<1>9. PendingIsAsked => PendingIsAsked'
  <2>1. ASSUME PendingIsAsked, NEW k \in Nodes, NEW j \in node[k].pending PROVE Asked(k, j)'
    <3>1. Asked(k, j)
      BY <2>1 DEF PendingIsAsked
    <3>2. CASE k = m /\ Msg(n, m) = [type |-> "getproof", id |-> j]
      <4>1. [type |-> "proof", id |-> j] \in Range(chan'[<<n, m>>])
        BY <1>5, <3>2
      <4> QED
        BY <1>2, <1>7, <3>2, <4>1, AskedNow
    <3> QED
      BY <1>7, <3>1, <3>2
  <2> QED
    BY <1>1, <2>1 DEF PendingIsAsked
<1> QED
  BY <1>7, <1>8, <1>9 DEF StepFits

LEMMA HandleProofStep ==
  ASSUME SafeInv, NEW n \in Nodes, NEW m \in Nodes, <<n, m>> \in Pairs, HandleProof(n, m)
  PROVE  StepFits
<1> DEFINE i == Msg(n, m).id
           s == node[n]
           u == [s EXCEPT !.pending = @ \ {i}]
           accepted == i \in s.pending \ u.store /\ ParentKnown(u, i)
           t == IF accepted THEN StoredProven(u, i) ELSE u
           relay == Broadcast(Rest(n, m), n, ShareMsg(i), {m})
           relayed == {<<p, ShareMsg(i)>> : p \in {q \in Pairs : q[1] = n}}
<1>1. /\ Takes(n, m, "proof")
      /\ UNCHANGED <<shares, blocks, peers, dialed, stream, losses, restarts>>
      /\ chan' = IF accepted THEN relay ELSE Rest(n, m)
      /\ node' = [node EXCEPT ![n] = t]
  BY DEF HandleProof, counts
<1>2. <<m, n>> \in Pairs /\ n # m
  BY DEF Pairs
<1>3. /\ chan[<<m, n>>] # << >> /\ Msg(n, m).type = "proof" /\ i \in Ids
      /\ Rest(n, m) \in [Pairs -> Seq(Message)]
  BY <1>1, <1>2, NextMessage
<1>4. NodeFits(s)
  BY DEF SafeInv, NodesFit
<1>5. /\ u \in NodeState /\ u.proofs = s.proofs /\ u.pending = s.pending \ {i}
      /\ u.unannounced = s.unannounced /\ u.blocksSeen = s.blocksSeen
      /\ u.store = s.store /\ u.tip = s.tip
  BY <1>3, <1>4 DEF NodeFits, NodeState
<1> HIDE DEF u
<1>6. NodeFits(u)
  BY <1>4, <1>5 DEF NodeFits
<1>7. /\ NodeFits(t) /\ s.proofs \subseteq t.proofs /\ t.pending = s.pending \ {i}
      /\ accepted => i \in t.proofs
  <2>1. CASE accepted
    <3>1. /\ NodeFits(StoredProven(u, i)) /\ StoredProven(u, i).proofs = u.proofs \cup {i}
          /\ StoredProven(u, i).pending = u.pending
      BY <1>3, <1>6, StoredFacts DEF SafeInv
    <3>2. t = StoredProven(u, i)
      BY <2>1
    <3> QED
      BY <1>5, <3>1, <3>2
  <2>2. CASE ~accepted
    BY <1>5, <1>6, <2>2
  <2> QED
    BY <2>1, <2>2
<1> HIDE DEF t, accepted
<1>8. NodesFit' /\ node'[n] = t /\ \A k \in Nodes : k # n => node'[k] = node[k]
  BY <1>1, <1>7, NodeMoves
<1>9. PICK new : /\ More(Rest(n, m), chan', new)
                 /\ \A p \in Pairs : \A x : <<p, x>> \in new => accepted /\ p[1] = n /\ x = ShareMsg(i)
  <2>1. CASE accepted
    <3>1. More(Rest(n, m), chan', relayed)
      BY <1>1, <1>3, <2>1, Messages, MoreBroadcast
    <3> QED
      BY <2>1, <3>1
  <2>2. CASE ~accepted
    BY <1>1, <1>3, <2>2, MoreNone
  <2> QED
    BY <2>1, <2>2
<1>10. \A p \in Pairs : \A x : <<p, x>> \in new => Fits(p, x)'
  BY <1>7, <1>8, <1>9 DEF Fits, ShareMsg
<1>11. /\ ChanFits'
       /\ \A k \in Nodes : \A j :
             Asked(k, j) => Asked(k, j)' \/ (k = n /\ Msg(n, m) = [type |-> "proof", id |-> j])
  <2>1. \A j : Msg(n, m) # [type |-> "getproof", id |-> j]
    BY <1>3
  <2>2. \A k \in Nodes : node[k].proofs \subseteq node'[k].proofs
    BY <1>7, <1>8
  <2>3. More(Rest(n, m), chan', new)
    BY <1>9
  <2> HIDE DEF i
  <2>4. /\ ChanFits'
        /\ \A k \in Nodes : \A j :
              Asked(k, j) => \/ Asked(k, j)'
                             \/ k = m /\ Msg(n, m) = [type |-> "getproof", id |-> j]
                             \/ k = n /\ Msg(n, m) = [type |-> "proof", id |-> j]
    BY <1>1, <1>2, <1>3, <1>10, <2>2, <2>3, HandlerStep
  <2> QED
    BY <2>1, <2>4
<1>12. Bounds'
  BY <1>1 DEF SafeInv, Bounds, Ids
<1>13. PendingIsAsked => PendingIsAsked'
  <2>1. ASSUME PendingIsAsked, NEW k \in Nodes, NEW j \in node'[k].pending PROVE Asked(k, j)'
    <3>1. j \in node[k].pending /\ (k = n => j # i)
      BY <1>7, <1>8, <2>1
    <3>2. Asked(k, j)
      BY <2>1, <3>1 DEF PendingIsAsked
    <3>3. ~(k = n /\ Msg(n, m) = [type |-> "proof", id |-> j])
      BY <3>1
    <3> QED
      BY <1>11, <3>2, <3>3
  <2> QED
    BY <2>1 DEF PendingIsAsked
<1> QED
  BY <1>8, <1>11, <1>12, <1>13 DEF StepFits

LEMMA SendBatchFacts ==
  ASSUME SafeInv, NEW n \in Nodes, NEW m \in Nodes, <<n, m>> \in Pairs, NEW list \in SUBSET Ids,
         NEW c \in [Pairs -> Seq(Message)], SendBatch(n, m, list, c)
  PROVE  /\ stream' \in [Pairs -> SUBSET Ids]
         /\ \E new : More(c, chan', new) /\ \A p \in Pairs : \A x : <<p, x>> \in new => Fits(p, x)'
<1> DEFINE earlier(i) == Cardinality({j \in list \cap node[n].proofs : j < i})
           ids == {i \in list \cap node[n].proofs : earlier(i) < SyncBatch}
           rest == {i \in list : earlier(i) >= SyncBatch}
           batch == [type |-> "shares", ids |-> ids]
<1>1. /\ stream' = [stream EXCEPT ![<<n, m>>] = rest]
      /\ chan' = IF ids = {} THEN c ELSE Sent(c, n, m, batch)
  BY DEF SendBatch, Batch
<1>2. rest \in SUBSET Ids /\ ids \in SUBSET Ids
  OBVIOUS
<1> HIDE DEF rest, ids
<1>3. batch \in Message /\ batch.type = "shares"
  BY <1>2, Messages
<1>4. stream' \in [Pairs -> SUBSET Ids]
  BY <1>1, <1>2 DEF SafeInv, Bounds
<1> HIDE DEF batch
<1>5. \E new : More(c, chan', new) /\ \A p \in Pairs : \A x : <<p, x>> \in new => x = batch
  <2>1. CASE ids = {}
    BY <1>1, <2>1, MoreNone
  <2>2. CASE ids # {}
    <3>1. More(c, chan', {<<<<n, m>>, batch>>})
      BY <1>1, <1>3, <2>2, MoreSent
    <3> QED
      BY <3>1
  <2> QED
    BY <2>1, <2>2
<1>6. \A p \in Pairs : \A x : x.type = "shares" => Fits(p, x)'
  BY DEF Fits
<1> QED
  BY <1>3, <1>4, <1>5, <1>6

LEMMA HandleGetSharesStep ==
  ASSUME SafeInv, NEW n \in Nodes, NEW m \in Nodes, <<n, m>> \in Pairs, HandleGetShares(n, m)
  PROVE  StepFits
<1> DEFINE list == MainChain(node[n], Msg(n, m).from)
<1>1. /\ Takes(n, m, "getshares")
      /\ UNCHANGED <<shares, blocks, node, peers, dialed, losses, restarts>>
      /\ SendBatch(n, m, list, Rest(n, m))
  BY DEF HandleGetShares, counts
<1>2. <<m, n>> \in Pairs
  BY DEF Pairs
<1>3. /\ chan[<<m, n>>] # << >> /\ Msg(n, m).type = "getshares"
      /\ Rest(n, m) \in [Pairs -> Seq(Message)]
  BY <1>1, <1>2, NextMessage
<1>4. list \in SUBSET Ids
  BY DEF MainChain, SafeInv, NodesFit, NodeState
<1> HIDE DEF list
<1>5. stream' \in [Pairs -> SUBSET Ids]
  BY <1>1, <1>3, <1>4, SendBatchFacts
<1>6. PICK new : More(Rest(n, m), chan', new) /\ \A p \in Pairs : \A x : <<p, x>> \in new => Fits(p, x)'
  BY <1>1, <1>3, <1>4, SendBatchFacts
<1>7. ChanFits' /\ \A k \in Nodes : \A j : Asked(k, j) => Asked(k, j)'
  <2>1. Msg(n, m).type # "getproof" /\ Msg(n, m).type # "proof"
    BY <1>3
  <2>2. \A k \in Nodes : node[k].proofs \subseteq node'[k].proofs
    BY <1>1
  <2> QED
    BY <1>1, <1>2, <1>3, <1>6, <2>1, <2>2, PlainStep
<1>8. NodesFit' /\ Bounds'
  BY <1>1, <1>5, NodesStay DEF SafeInv, Bounds, Ids
<1>9. \A k \in Nodes : node'[k].pending = node[k].pending
  BY <1>1
<1> QED
  BY <1>7, <1>8, <1>9, PendingStays DEF StepFits

LEMMA ContinueSyncStep ==
  ASSUME SafeInv, NEW n \in Nodes, NEW m \in Nodes, <<n, m>> \in Pairs, ContinueSync(n, m)
  PROVE  StepFits
<1> DEFINE list == stream[<<n, m>>]
<1>1. /\ UNCHANGED <<shares, blocks, node, peers, dialed, losses, restarts>>
      /\ SendBatch(n, m, list, chan)
  BY DEF ContinueSync, counts
<1>2. list \in SUBSET Ids /\ chan \in [Pairs -> Seq(Message)]
  BY DEF SafeInv, Bounds, ChanFits
<1> HIDE DEF list
<1>3. stream' \in [Pairs -> SUBSET Ids]
  BY <1>1, <1>2, SendBatchFacts
<1>4. PICK new : More(chan, chan', new) /\ \A p \in Pairs : \A x : <<p, x>> \in new => Fits(p, x)'
  BY <1>1, <1>2, SendBatchFacts
<1>5. ChanFits' /\ \A k \in Nodes : \A j : Asked(k, j) => Asked(k, j)'
  <2>1. \A k \in Nodes : node[k].proofs \subseteq node'[k].proofs
    BY <1>1
  <2>2. blocks' \in Nat /\ blocks =< blocks'
    BY <1>1, GossipAssumption DEF SafeInv, Bounds
  <2> QED
    BY <1>1, <1>4, <2>1, <2>2, SendingStep
<1>6. NodesFit' /\ Bounds'
  BY <1>1, <1>3, NodesStay DEF SafeInv, Bounds, Ids
<1>7. \A k \in Nodes : node'[k].pending = node[k].pending
  BY <1>1
<1> QED
  BY <1>5, <1>6, <1>7, PendingStays DEF StepFits

LEMMA HandleSharesStep ==
  ASSUME SafeInv, NEW n \in Nodes, NEW m \in Nodes, <<n, m>> \in Pairs, HandleShares(n, m)
  PROVE  StepFits
<1> DEFINE t == AllSynced(node[n], Msg(n, m).ids)
<1>1. /\ Takes(n, m, "shares")
      /\ UNCHANGED <<shares, blocks, peers, dialed, stream, losses, restarts>>
      /\ chan' = Rest(n, m) /\ node' = [node EXCEPT ![n] = t]
  BY DEF HandleShares, counts
<1>2. <<m, n>> \in Pairs
  BY DEF Pairs
<1>3. /\ chan[<<m, n>>] # << >> /\ Msg(n, m).type = "shares" /\ Msg(n, m).ids \in SUBSET Ids
      /\ Rest(n, m) \in [Pairs -> Seq(Message)]
  BY <1>1, <1>2, NextMessage
<1>4. t \in Onward(node[n])
  BY <1>3, AllSyncedFacts DEF SafeInv, NodesFit
<1> HIDE DEF t
<1>5. NodeFits(t) /\ node[n].proofs \subseteq t.proofs /\ t.pending = node[n].pending
  BY <1>4 DEF Onward
<1>6. NodesFit' /\ node'[n] = t /\ \A k \in Nodes : k # n => node'[k] = node[k]
  BY <1>1, <1>5, NodeMoves
<1>7. \A k \in Nodes : node[k].proofs \subseteq node'[k].proofs /\ node'[k].pending = node[k].pending
  BY <1>5, <1>6
<1>8. ChanFits' /\ \A k \in Nodes : \A j : Asked(k, j) => Asked(k, j)'
  <2> DEFINE new == {}
  <2>1. More(Rest(n, m), chan', new) /\ \A p \in Pairs : \A x : <<p, x>> \in new => Fits(p, x)'
    BY <1>1, <1>3, MoreNone
  <2>2. Msg(n, m).type # "getproof" /\ Msg(n, m).type # "proof"
    BY <1>3
  <2> HIDE DEF new
  <2> QED
    BY <1>1, <1>2, <1>3, <1>7, <2>1, <2>2, PlainStep
<1>9. Bounds'
  BY <1>1 DEF SafeInv, Bounds, Ids
<1> QED
  BY <1>6, <1>7, <1>8, <1>9, PendingStays DEF StepFits

(* A node that has seen a block is fit, in the number of blocks as of then. *)
SeenBy(s, b) == [s EXCEPT !.blocksSeen = Seen(@, b)]

LEMMA SeenByFacts ==
  ASSUME NEW s, NodeFits(s), NEW b \in 1..MaxBlocks
  PROVE  LET t == SeenBy(s, b)
         IN  /\ t \in NodeState /\ t.proofs = s.proofs /\ t.pending = s.pending
             /\ t.unannounced = s.unannounced /\ t.store = s.store /\ t.tip = s.tip
             /\ Len(t.blocksSeen) =< MaxBlocksSeen
             /\ Range(t.blocksSeen) \subseteq 1..blocks \cup {b}
<1>1. s \in NodeState /\ s.blocksSeen \in Seq(1..MaxBlocks)
  BY DEF NodeFits, NodeState
<1>2. /\ Seen(s.blocksSeen, b) \in Seq(1..MaxBlocks) /\ Len(Seen(s.blocksSeen, b)) =< MaxBlocksSeen
      /\ Range(Seen(s.blocksSeen, b)) \subseteq 1..blocks \cup {b}
  <2>1. Len(s.blocksSeen) =< MaxBlocksSeen /\ Range(s.blocksSeen) \subseteq 1..blocks
    BY DEF NodeFits
  <2> DEFINE r == s.blocksSeen
  <2>2. r \in Seq(1..MaxBlocks) /\ Len(r) =< MaxBlocksSeen /\ Range(r) \subseteq 1..blocks
    BY <1>1, <2>1
  <2> HIDE DEF r
  <2>3. /\ Seen(r, b) \in Seq(1..MaxBlocks) /\ Len(Seen(r, b)) =< MaxBlocksSeen
        /\ Range(Seen(r, b)) \subseteq Range(r) \cup {b}
    BY <2>2, SeenFacts
  <2> QED
    BY <2>2, <2>3 DEF r
<1> DEFINE q == Seen(s.blocksSeen, b)
           t == SeenBy(s, b)
<1>3. t = [s EXCEPT !.blocksSeen = q]
  BY <1>1 DEF SeenBy, NodeState
<1> HIDE DEF q, t
<1>4. /\ t \in NodeState /\ t.proofs = s.proofs /\ t.pending = s.pending
      /\ t.unannounced = s.unannounced /\ t.store = s.store /\ t.tip = s.tip
      /\ t.blocksSeen = q
  BY <1>1, <1>2, <1>3 DEF NodeState, q
<1> QED
  BY <1>2, <1>4 DEF q, t

LEMMA HandleBlockStep ==
  ASSUME SafeInv, NEW n \in Nodes, NEW m \in Nodes, <<n, m>> \in Pairs, HandleBlock(n, m)
  PROVE  StepFits
<1> DEFINE b == Msg(n, m).block
           t == SeenBy(node[n], b)
           relay == Broadcast(Rest(n, m), n, BlockMsg(b), {m})
           relayed == {<<p, BlockMsg(b)>> : p \in {q \in Pairs : q[1] = n}}
<1>1. /\ Takes(n, m, "block")
      /\ UNCHANGED <<shares, blocks, peers, dialed, stream, losses, restarts>>
      /\ chan' = Rest(n, m) \/ chan' = relay
      /\ node' = [node EXCEPT ![n].blocksSeen = Seen(@, b)]
  BY DEF HandleBlock, counts
<1>2. <<m, n>> \in Pairs
  BY DEF Pairs
<1>3. /\ chan[<<m, n>>] # << >> /\ Msg(n, m).type = "block"
      /\ b \in 1..MaxBlocks /\ b =< blocks
      /\ Rest(n, m) \in [Pairs -> Seq(Message)]
  BY <1>1, <1>2, NextMessage
<1>4. NodeFits(node[n]) /\ node \in [Nodes -> NodeState] /\ blocks \in Nat
  BY GossipAssumption DEF SafeInv, NodesFit, Bounds
<1>5. node' = [node EXCEPT ![n] = t]
  BY <1>1, <1>4 DEF SeenBy, NodeState
<1> HIDE DEF b
<1>6. /\ t \in NodeState /\ t.proofs = node[n].proofs /\ t.pending = node[n].pending
      /\ t.unannounced = node[n].unannounced /\ t.store = node[n].store /\ t.tip = node[n].tip
      /\ Len(t.blocksSeen) =< MaxBlocksSeen /\ Range(t.blocksSeen) \subseteq 1..blocks \cup {b}
  BY <1>3, <1>4, SeenByFacts
<1> HIDE DEF t
<1>7. NodeFits(t)
  <2>1. b \in 1..blocks
    BY <1>3, <1>4
  <2> QED
    BY <1>4, <1>6, <2>1 DEF NodeFits
<1>8. NodesFit' /\ node'[n] = t /\ \A k \in Nodes : k # n => node'[k] = node[k]
  BY <1>1, <1>5, <1>7, NodeMoves
<1>9. \A k \in Nodes : node[k].proofs \subseteq node'[k].proofs /\ node'[k].pending = node[k].pending
  BY <1>6, <1>8
<1>10. PICK new : /\ More(Rest(n, m), chan', new)
                  /\ \A p \in Pairs : \A x : <<p, x>> \in new => x = BlockMsg(b)
  <2>1. CASE chan' = Rest(n, m)
    BY <1>3, <2>1, MoreNone
  <2>2. CASE chan' = relay
    <3>1. More(Rest(n, m), chan', relayed)
      BY <1>3, <2>2, Messages, MoreBroadcast
    <3> QED
      BY <3>1
  <2> QED
    BY <1>1, <2>1, <2>2
<1>11. \A p \in Pairs : \A x : <<p, x>> \in new => Fits(p, x)'
  BY <1>1, <1>3, <1>10 DEF Fits, BlockMsg
<1>12. ChanFits' /\ \A k \in Nodes : \A j : Asked(k, j) => Asked(k, j)'
  <2>1. More(Rest(n, m), chan', new)
    BY <1>10
  <2>2. Msg(n, m).type # "getproof" /\ Msg(n, m).type # "proof"
    BY <1>3
  <2> QED
    BY <1>1, <1>2, <1>3, <1>9, <1>11, <2>1, <2>2, PlainStep
<1>13. Bounds'
  BY <1>1 DEF SafeInv, Bounds, Ids
<1> QED
  BY <1>8, <1>9, <1>12, <1>13, PendingStays DEF StepFits

LEMMA BroadcastBlockStep ==
  ASSUME SafeInv, NEW n \in Nodes, BroadcastBlock(n)
  PROVE  StepFits
<1> DEFINE b == blocks + 1
           t == SeenBy(node[n], b)
           new == {<<p, BlockMsg(b)>> : p \in {q \in Pairs : q[1] = n}}
<1>1. /\ b =< MaxBlocks /\ blocks' = b
      /\ UNCHANGED <<shares, peers, dialed, stream, losses, restarts>>
      /\ chan' = Broadcast(chan, n, BlockMsg(b), {})
      /\ node' = [node EXCEPT ![n].blocksSeen = Seen(@, b)]
  BY DEF BroadcastBlock
<1>2. blocks \in Nat /\ MaxBlocks \in Nat /\ b \in 1..MaxBlocks /\ b \in Nat
  BY <1>1, GossipAssumption DEF SafeInv, Bounds
<1>3. NodeFits(node[n]) /\ node \in [Nodes -> NodeState]
  BY DEF SafeInv, NodesFit
<1>4. node' = [node EXCEPT ![n] = t]
  BY <1>1, <1>3 DEF SeenBy, NodeState
<1>5. blocks =< b /\ 1..blocks \cup {b} \subseteq 1..b
  BY <1>2
<1>6. b \in 1..MaxBlocks
  BY <1>2
<1> HIDE DEF b
<1>7. /\ t \in NodeState /\ t.proofs = node[n].proofs /\ t.pending = node[n].pending
      /\ t.unannounced = node[n].unannounced /\ t.store = node[n].store /\ t.tip = node[n].tip
      /\ Len(t.blocksSeen) =< MaxBlocksSeen /\ Range(t.blocksSeen) \subseteq 1..blocks \cup {b}
  BY <1>3, <1>6, SeenByFacts
<1> HIDE DEF t
<1>8. NodeState' = NodeState
  BY <1>1 DEF NodeState, Ids
<1>9. /\ node' \in [Nodes -> NodeState] /\ node'[n] = t
      /\ \A k \in Nodes : k # n => node'[k] = node[k]
  BY <1>3, <1>4, <1>7
<1>10. NodesFit'
  <2>1. ASSUME NEW k \in Nodes PROVE NodeFits(node[k])'
    <3>1. NodeFits(node[k])
      BY DEF SafeInv, NodesFit
    <3>2. /\ node'[k] \in NodeState' /\ node'[k].tip = node[k].tip /\ node'[k].store = node[k].store
          /\ node'[k].proofs = node[k].proofs /\ node'[k].unannounced = node[k].unannounced
          /\ Len(node'[k].blocksSeen) =< MaxBlocksSeen
          /\ Range(node'[k].blocksSeen) \subseteq 1..blocks \cup {b}
      <4>1. CASE k = n
        BY <1>7, <1>8, <1>9, <4>1
      <4>2. CASE k # n
        BY <1>8, <1>9, <3>1, <4>2 DEF NodeFits
      <4> QED
        BY <4>1, <4>2
    <3>3. Range(node'[k].blocksSeen) \subseteq 1..blocks'
      BY <1>1, <1>5, <3>2
    <3> QED
      BY <3>1, <3>2, <3>3 DEF NodeFits
  <2> QED
    BY <1>8, <1>9, <2>1 DEF NodesFit
<1>11. \A k \in Nodes : node[k].proofs \subseteq node'[k].proofs /\ node'[k].pending = node[k].pending
  BY <1>7, <1>9
<1>12. More(chan, chan', new)
  <2>1. BlockMsg(b) \in Message /\ chan \in [Pairs -> Seq(Message)]
    BY <1>6, Messages DEF SafeInv, ChanFits
  <2> QED
    BY <1>1, <2>1, MoreBroadcast
<1>13. \A p \in Pairs : \A x : <<p, x>> \in new => Fits(p, x)'
  <2>1. \A x : x = BlockMsg(b) => x.type = "block" /\ x.block =< blocks'
    BY <1>1, <1>2 DEF BlockMsg
  <2> QED
    BY <2>1 DEF Fits
<1> HIDE DEF new
<1>14. ChanFits' /\ \A k \in Nodes : \A j : Asked(k, j) => Asked(k, j)'
  <2>1. blocks' \in Nat /\ blocks =< blocks'
    BY <1>1, <1>2, <1>5
  <2> QED
    BY <1>1, <1>11, <1>12, <1>13, <2>1, SendingStep
<1>15. Bounds'
  <2>1. blocks' \in 0..MaxBlocks
    BY <1>1, <1>2
  <2> QED
    BY <1>1, <2>1 DEF SafeInv, Bounds, Ids
<1> QED
  BY <1>10, <1>11, <1>14, <1>15, PendingStays DEF StepFits

(* A node greets another. *)
LEMMA GreetingStep ==
  ASSUME SafeInv, NEW n \in Nodes, NEW m \in Nodes, <<n, m>> \in Pairs,
         UNCHANGED <<shares, blocks, node, stream, losses, restarts>>,
         chan' = Sent(chan, n, m, HelloMsg(n)),
         peers' = [peers EXCEPT ![n] = @ \cup {m}], dialed' \subseteq Links
  PROVE  StepFits
<1> DEFINE msg == HelloMsg(n)
           new == {<<<<n, m>>, msg>>}
<1>1. msg \in Message /\ msg.type = "hello" /\ chan \in [Pairs -> Seq(Message)]
  BY Messages DEF HelloMsg, SafeInv, ChanFits
<1> HIDE DEF msg
<1>2. More(chan, chan', new)
  <2>1. chan' = Sent(chan, n, m, msg)
    BY DEF msg
  <2> QED
    BY <1>1, <2>1, MoreSent
<1>3. \A p \in Pairs : \A x : <<p, x>> \in new => Fits(p, x)'
  <2>1. \A x : x.type = "hello" => \A p \in Pairs : Fits(p, x)'
    BY DEF Fits
  <2>2. \A p \in Pairs : \A x : <<p, x>> \in new => x = msg
    OBVIOUS
  <2> QED
    BY <1>1, <2>1, <2>2
<1> HIDE DEF new
<1>4. ChanFits' /\ \A k \in Nodes : \A j : Asked(k, j) => Asked(k, j)'
  <2>1. blocks' \in Nat /\ blocks =< blocks'
    BY GossipAssumption DEF SafeInv, Bounds
  <2>2. \A k \in Nodes : node[k].proofs \subseteq node'[k].proofs
    OBVIOUS
  <2> QED
    BY <1>2, <1>3, <2>1, <2>2, SendingStep
<1>5. NodesFit' /\ Bounds'
  <2>1. peers' \in [Nodes -> SUBSET Nodes]
    BY DEF SafeInv, Bounds
  <2> QED
    BY <2>1, NodesStay DEF SafeInv, Bounds, Ids
<1>6. \A k \in Nodes : node'[k].pending = node[k].pending
  OBVIOUS
<1> QED
  BY <1>4, <1>5, <1>6, PendingStays DEF StepFits

LEMMA ConnectStep ==
  ASSUME SafeInv, NEW n \in Nodes, NEW m \in Nodes, <<n, m>> \in Pairs,
         Connect(n, m) \/ OnInbound(n, m)
  PROVE  StepFits
<1>1. dialed' \subseteq Links
  BY DEF Connect, OnInbound, SafeInv, Bounds
<1>2. /\ UNCHANGED <<shares, blocks, node, stream, losses, restarts>>
      /\ chan' = Sent(chan, n, m, HelloMsg(n)) /\ peers' = [peers EXCEPT ![n] = @ \cup {m}]
  BY DEF Connect, OnInbound, counts
<1> QED
  BY <1>1, <1>2, GreetingStep

(* Connections end with what is under way on them. *)
LEMMA CutFits ==
  ASSUME SafeInv, UNCHANGED <<shares, blocks>>, NEW pairs, Cut(pairs),
         \A p \in Pairs \ pairs : node'[p[1]] = node[p[1]] /\ node'[p[2]] = node[p[2]]
  PROVE  ChanFits' /\ stream' \in [Pairs -> SUBSET Ids]
<1>1. Message' = Message
  BY DEF Message, Ids
<1>2. /\ chan' = [p \in Pairs |-> IF p \in pairs THEN << >> ELSE chan[p]]
      /\ stream' = [p \in Pairs |-> IF p \in pairs THEN {} ELSE stream[p]]
  BY DEF Cut
<1>3. chan' \in [Pairs -> Seq(Message)] /\ stream' \in [Pairs -> SUBSET Ids]
  BY <1>2 DEF SafeInv, ChanFits, Bounds
<1>4. ASSUME NEW p \in Pairs, NEW x \in Range(chan'[p]) PROVE Fits(p, x)'
  <2>1. CASE p \in pairs
    <3>1. Range(chan'[p]) = {}
      BY <1>2, <2>1 DEF Range
    <3> QED
      BY <1>4, <3>1
  <2>2. CASE p \notin pairs
    <3>1. Fits(p, x)
      BY <1>2, <1>4, <2>2 DEF SafeInv, ChanFits
    <3> QED
      BY <2>2, <3>1 DEF Fits
  <2> QED
    BY <2>1, <2>2
<1> QED
  BY <1>1, <1>3, <1>4 DEF ChanFits

LEMMA RestartStep ==
  ASSUME SafeInv, NEW n \in Nodes, Restart(n)
  PROVE  NodesFit' /\ ChanFits' /\ Bounds' /\ restarts' # 0
<1> DEFINE pairs == {p \in Pairs : n \in {p[1], p[2]}}
<1>1. /\ restarts < MaxRestarts /\ restarts' = restarts + 1
      /\ node' = [node EXCEPT ![n] = Fresh]
      /\ peers' = [m \in Nodes |-> IF m = n THEN {} ELSE peers[m] \ {n}]
      /\ dialed' \subseteq dialed
      /\ Cut(pairs) /\ UNCHANGED <<shares, blocks, losses>>
  BY DEF Restart
<1>2. NodeFits(Fresh)
  <2>1. Fresh \in NodeState
    BY DEF Fresh, NodeState
  <2>2. Len(<< >>) = 0 /\ Range(<< >>) = {} /\ MaxBlocksSeen \in Nat
    BY GossipAssumption DEF Range
  <2> QED
    BY <2>1, <2>2 DEF NodeFits, Fresh
<1>3. NodesFit' /\ \A k \in Nodes : k # n => node'[k] = node[k]
  BY <1>1, <1>2, NodeMoves
<1>4. \A p \in Pairs \ pairs : p[1] \in Nodes /\ p[2] \in Nodes /\ p[1] # n /\ p[2] # n
  BY DEF Pairs
<1>5. \A p \in Pairs \ pairs : node'[p[1]] = node[p[1]] /\ node'[p[2]] = node[p[2]]
  BY <1>3, <1>4
<1> HIDE DEF pairs
<1>6. ChanFits' /\ stream' \in [Pairs -> SUBSET Ids]
  BY <1>1, <1>5, CutFits
<1>7. restarts' \in 0..MaxRestarts /\ restarts' # 0
  BY <1>1, GossipAssumption DEF SafeInv, Bounds
<1>8. Bounds'
  BY <1>1, <1>6, <1>7 DEF SafeInv, Bounds, Ids
<1> QED
  BY <1>3, <1>6, <1>7, <1>8

LEMMA LoseStep ==
  ASSUME SafeInv, NEW n \in Nodes, NEW m \in Nodes, Lose(n, m)
  PROVE  NodesFit' /\ ChanFits' /\ Bounds' /\ losses' # 0
<1>1. /\ losses < MaxLosses /\ losses' = losses + 1
      /\ peers' = [peers EXCEPT ![n] = @ \ {m}, ![m] = @ \ {n}]
      /\ Cut({<<n, m>>, <<m, n>>}) /\ UNCHANGED <<shares, blocks, node, dialed, restarts>>
  BY DEF Lose
<1>2. ChanFits' /\ stream' \in [Pairs -> SUBSET Ids]
  BY <1>1, CutFits
<1>3. losses' \in 0..MaxLosses /\ losses' # 0
  BY <1>1, GossipAssumption DEF SafeInv, Bounds
<1>4. peers' \in [Nodes -> SUBSET Nodes]
  BY <1>1 DEF SafeInv, Bounds
<1>5. Bounds'
  BY <1>1, <1>2, <1>3, <1>4 DEF SafeInv, Bounds, Ids
<1> QED
  BY <1>1, <1>2, <1>3, <1>5, NodesStay

(* A share mined on the tip, or before it, has a height, a total and ancestors. *)
LEMMA MinedShare ==
  ASSUME SafeInv, NEW n \in Nodes, NEW w \in Works[n], NEW prev \in node[n].store \cup {Genesis},
         NEW i, i = Len(shares) + 1, NEW mined,
         mined = [prev |-> prev, height |-> HeightOf(shares, prev) + 1,
                  total |-> Total(shares, prev) + w, chain |-> {i} \cup Chain(prev)],
         shares' = Append(shares, mined)
  PROVE  SharesFit' /\ i \in Ids' /\ Ids \subseteq Ids'
<1>1. /\ Ids = 1..Len(shares) /\ Len(shares) \in Nat /\ shares \in Seq(ShareRecord)
      /\ Total(shares, Genesis) = 0
      /\ \A j \in Ids : /\ shares[j].height \in Nat /\ Total(shares, j) \in Nat
                        /\ shares[j].prev \in 0..(j - 1) /\ shares[j].chain \subseteq 1..j
  BY IdFacts DEF SafeInv, SharesFit
<1>2. prev \in Ids \cup {Genesis}
  BY DEF SafeInv, NodesFit, NodeState
<1>3. prev \in 0..Len(shares) /\ i \in Nat \ {0} /\ prev \in 0..(i - 1)
  BY <1>1, <1>2 DEF Genesis
<1>4. w \in Nat \ {0}
  BY GossipAssumption
<1>5. /\ HeightOf(shares, prev) + 1 \in Nat /\ Total(shares, prev) + w \in Nat \ {0}
      /\ Chain(prev) \subseteq 1..Len(shares)
  <2>1. CASE prev = Genesis
    BY <1>1, <1>4, <2>1 DEF HeightOf, Chain
  <2>2. CASE prev # Genesis
    <3>1. shares[prev].chain \subseteq 1..prev /\ shares[prev].height \in Nat /\ Total(shares, prev) \in Nat
      BY <1>1, <1>2, <2>2
    <3>2. 1..prev \subseteq 1..Len(shares)
      BY <1>3
    <3> QED
      BY <1>4, <2>2, <3>1, <3>2 DEF HeightOf, Chain
  <2> QED
    BY <2>1, <2>2
<1>6. {i} \cup Chain(prev) \subseteq 1..i
  BY <1>1, <1>3, <1>5
<1>7. mined \in ShareRecord
  <2>1. 1..i \subseteq Nat /\ prev \in Nat
    BY <1>3
  <2> QED
    BY <1>5, <1>6, <2>1 DEF ShareRecord
<1>8. /\ shares' \in Seq(ShareRecord) /\ Len(shares') = Len(shares) + 1
      /\ shares'[i] = mined /\ \A j \in Ids : shares'[j] = shares[j]
  BY <1>1, <1>7
<1>9. Ids' = 1..(Len(shares) + 1) /\ Ids \subseteq Ids' /\ i \in Ids'
      /\ \A j \in Ids' : j \in Ids \/ j = i
  BY <1>1, <1>8 DEF Ids
<1>10. ASSUME NEW j \in Ids'
       PROVE  shares'[j].prev \in 0..(j - 1) /\ shares'[j].chain \subseteq 1..j
  <2>1. CASE j \in Ids
    BY <1>1, <1>8, <2>1
  <2>2. CASE j = i
    <3>1. mined.prev = prev /\ mined.chain = {i} \cup Chain(prev)
      OBVIOUS
    <3> QED
      BY <1>3, <1>6, <1>8, <2>2, <3>1
  <2> QED
    BY <1>9, <2>1, <2>2
<1> QED
  BY <1>8, <1>9, <1>10 DEF SharesFit

(* What was fit stays fit when there are more shares. *)
LEMMA MoreShares ==
  ASSUME Ids \subseteq Ids', UNCHANGED blocks
  PROVE  /\ NodeState \subseteq NodeState' /\ Message \subseteq Message'
         /\ Seq(Message) \subseteq Seq(Message)'
         /\ \A t : NodeFits(t) => NodeFits(t)'
<1>1. \A q : q \in Seq(Ids) => q \in Seq(Ids)'
  OBVIOUS
<1>2. NodeState \subseteq NodeState'
  BY <1>1 DEF NodeState
<1>3. Message \subseteq Message'
  BY DEF Message
<1>4. Seq(Message) \subseteq Seq(Message)'
  BY <1>3
<1> QED
  BY <1>2, <1>3, <1>4 DEF NodeFits

LEMMA StoredNext ==
  ASSUME SharesFit', NEW x, NEW j \in Ids', TipFits(x)', NEW y, y = Stored(shares', x, j)
  PROVE  StoredAs(x, j, y)'
<1>1. (SharesFit => \A s : \A i \in Ids : TipFits(s) => StoredAs(s, i, Stored(shares, s, i)))'
  BY StoredShape, PTL
<1>2. StoredAs(x, j, Stored(shares, x, j))'
  BY <1>1
<1> QED
  BY <1>2 DEF StoredAs

LEMMA MineStep ==
  ASSUME SafeInv, NEW n \in Nodes, NEW w \in Works[n], NEW prev, Mine(n, prev, w)
  PROVE  SharesFit' /\ StepFits
<1>1. PICK i : i = Len(shares) + 1
  OBVIOUS
<1>2. PICK s : s = node[n]
  OBVIOUS
<1> DEFINE u == [Stored(shares', s, i) EXCEPT !.unannounced = Append(@, i)]
<1>3. PICK mined : mined = [prev |-> prev, height |-> HeightOf(shares, prev) + 1,
                            total |-> Total(shares, prev) + w, chain |-> {i} \cup Chain(prev)]
  OBVIOUS
<1>4. /\ prev \in node[n].store \cup {Genesis} /\ shares' = Append(shares, mined)
      /\ node' = [node EXCEPT ![n] = u]
      /\ UNCHANGED <<peers, dialed, chan, stream, blocks, losses, restarts>>
  BY <1>1, <1>2, <1>3 DEF Mine, counts
<1>5. SharesFit' /\ i \in Ids' /\ Ids \subseteq Ids'
  BY <1>1, <1>3, <1>4, MinedShare
<1>6. /\ NodeState \subseteq NodeState' /\ Seq(Message) \subseteq Seq(Message)'
      /\ \A x : NodeFits(x) => NodeFits(x)'
  BY <1>4, <1>5, MoreShares
<1>7. NodeFits(s) /\ NodeFits(s)'
  BY <1>2, <1>6 DEF SafeInv, NodesFit
<1> PICK t : t = Stored(shares', s, i)
  OBVIOUS
<1>8. StoredAs(s, i, t)'
  <2>1. TipFits(s)'
    BY <1>7 DEF NodeFits, TipFits
  <2> QED
    BY <1>5, <2>1, StoredNext
<1>9. /\ t \in NodeState' /\ t.proofs = s.proofs /\ t.pending = s.pending
      /\ t.unannounced = s.unannounced /\ t.blocksSeen = s.blocksSeen
      /\ t.store \subseteq s.store \cup {i} /\ t.tip \in t.store /\ t.tip # Genesis
  BY <1>8 DEF StoredAs
<1>10. PICK q : q = Append(s.unannounced, i)
  OBVIOUS
<1>11. q \in Seq(Ids)' /\ Range(q) = Range(s.unannounced) \cup {i}
  BY <1>5, <1>7, <1>10, RangeAppend DEF NodeFits, NodeState
<1>12. u = [t EXCEPT !.unannounced = q]
  BY <1>9, <1>10 DEF NodeState
<1>13. /\ u \in NodeState' /\ u.proofs = s.proofs /\ u.pending = s.pending
       /\ u.unannounced = q /\ u.blocksSeen = s.blocksSeen /\ u.store = t.store /\ u.tip = t.tip
  BY <1>9, <1>11, <1>12 DEF NodeState
<1>14. PICK v : v = u
  OBVIOUS
<1> HIDE DEF u
<1>15. NodeFits(v)'
  <2>1. v.tip \in v.store \cup {Genesis} /\ (v.tip = Genesis <=> v.store = {})
    BY <1>9, <1>13, <1>14
  <2>2. v.store \ v.proofs \subseteq Range(v.unannounced)
    BY <1>7, <1>9, <1>11, <1>13, <1>14 DEF NodeFits
  <2>3. Len(v.blocksSeen) =< MaxBlocksSeen /\ (Range(v.blocksSeen) \subseteq 1..blocks)'
    BY <1>4, <1>7, <1>13, <1>14 DEF NodeFits
  <2> QED
    BY <1>13, <1>14, <2>1, <2>2, <2>3 DEF NodeFits
<1>16. /\ node' \in [Nodes -> NodeState'] /\ node'[n] = v /\ \A k \in Nodes : k # n => node'[k] = node[k]
  BY <1>4, <1>6, <1>13, <1>14 DEF SafeInv, NodesFit
<1>17. NodesFit'
  <2>1. ASSUME NEW k \in Nodes PROVE NodeFits(node[k])'
    <3>1. CASE k = n
      BY <1>15, <1>16, <3>1 DEF NodeFits
    <3>2. CASE k # n
      <4>1. PICK x : x = node[k]
        OBVIOUS
      <4>2. NodeFits(x)'
        BY <1>6, <4>1 DEF SafeInv, NodesFit
      <4> QED
        BY <1>16, <3>2, <4>1, <4>2 DEF NodeFits
    <3> QED
      BY <3>1, <3>2
  <2> QED
    BY <1>16, <2>1 DEF NodesFit
<1>18. \A k \in Nodes : node'[k].proofs = node[k].proofs /\ node'[k].pending = node[k].pending
  BY <1>2, <1>13, <1>14, <1>16
<1>19. ChanFits'
  <2>1. chan' \in [Pairs -> Seq(Message)]'
    BY <1>4, <1>6 DEF SafeInv, ChanFits
  <2>2. ASSUME NEW p \in Pairs, NEW x \in Range(chan[p]) PROVE Fits(p, x)'
    <3>1. Fits(p, x) /\ p[1] \in Nodes /\ p[2] \in Nodes
      BY DEF SafeInv, ChanFits, Pairs
    <3> QED
      BY <1>4, <1>18, <3>1 DEF Fits
  <2> QED
    BY <1>4, <2>1, <2>2 DEF ChanFits
<1>20. Bounds'
  BY <1>4, <1>5 DEF SafeInv, Bounds
<1>21. \A k \in Nodes : \A j : Asked(k, j) => Asked(k, j)'
  BY <1>4 DEF Asked
<1> QED
  BY <1>5, <1>17, <1>18, <1>19, <1>20, <1>21, PendingStays DEF StepFits

-----------------------------------------------------------------------------
(* The theorems *)

LEMMA InitFits == Init => GossipInv
<1> SUFFICES ASSUME Init PROVE GossipInv
  OBVIOUS
<1>1. /\ shares = << >> /\ node = [n \in Nodes |-> Fresh]
      /\ chan = [p \in Pairs |-> << >>] /\ stream = [p \in Pairs |-> {}]
      /\ blocks = 0 /\ losses = 0 /\ restarts = 0
  BY DEF Init
<1>2. SharesFit
  <2>1. shares \in Seq(ShareRecord) /\ Len(shares) = 0
    BY <1>1
  <2>2. Ids = {}
    BY <2>1 DEF Ids
  <2> QED
    BY <2>1, <2>2 DEF SharesFit
<1>3. Range(<< >>) = {}
  BY DEF Range
<1>4. NodesFit
  <2>1. Fresh \in NodeState
    BY DEF Fresh, NodeState
  <2>2. NodeFits(Fresh)
    BY <1>3, <2>1, GossipAssumption DEF NodeFits, Fresh
  <2> QED
    BY <1>1, <2>1, <2>2 DEF NodesFit
<1>5. ChanFits
  BY <1>1, <1>3 DEF ChanFits
<1>6. Bounds
  <2>1. dialed \subseteq Links /\ peers \in [Nodes -> SUBSET Nodes]
    BY GossipAssumption DEF Init
  <2> QED
    BY <1>1, <2>1, GossipAssumption DEF Bounds
<1>7. PendingIsAsked
  BY <1>1 DEF PendingIsAsked, Fresh
<1> QED
  BY <1>2, <1>4, <1>5, <1>6, <1>7 DEF GossipInv, SafeInv

(* The work of n for its connection with m *)
LEMMA ServeStep ==
  ASSUME SafeInv, NEW p \in Pairs, Serve(p[1], p[2])
  PROVE  UNCHANGED <<shares, losses, restarts>> /\ StepFits
<1>1. PICK n, m : n = p[1] /\ m = p[2]
  OBVIOUS
<1>2. n \in Nodes /\ m \in Nodes /\ <<n, m>> \in Pairs
  BY <1>1 DEF Pairs
<1>3. CASE Connect(n, m)
  BY <1>2, <1>3, ConnectStep DEF Connect, counts
<1>4. CASE OnInbound(n, m)
  BY <1>2, <1>4, ConnectStep DEF OnInbound, counts
<1>5. CASE HandleHello(n, m)
  BY <1>2, <1>5, HandleHelloStep DEF HandleHello, counts
<1>6. CASE HandleShare(n, m)
  BY <1>2, <1>6, HandleShareStep DEF HandleShare, counts
<1>7. CASE HandleGetProof(n, m)
  BY <1>2, <1>7, HandleGetProofStep DEF HandleGetProof, counts
<1>8. CASE HandleProof(n, m)
  BY <1>2, <1>8, HandleProofStep DEF HandleProof, counts
<1>9. CASE HandleGetShares(n, m)
  BY <1>2, <1>9, HandleGetSharesStep DEF HandleGetShares, counts
<1>10. CASE HandleShares(n, m)
  BY <1>2, <1>10, HandleSharesStep DEF HandleShares, counts
<1>11. CASE HandleBlock(n, m)
  BY <1>2, <1>11, HandleBlockStep DEF HandleBlock, counts
<1>12. CASE ContinueSync(n, m)
  BY <1>2, <1>12, ContinueSyncStep DEF ContinueSync, counts
<1>13. Serve(n, m)
  BY <1>1
<1> QED
  BY <1>3, <1>4, <1>5, <1>6, <1>7, <1>8, <1>9, <1>10, <1>11, <1>12, <1>13 DEF Serve, Handle

LEMMA StepKeeps == GossipInv /\ [Next]_vars => GossipInv'
<1> SUFFICES ASSUME GossipInv, [Next]_vars PROVE GossipInv'
  OBVIOUS
<1> USE DEF GossipInv
<1>1. ASSUME UNCHANGED <<losses, restarts>>, SharesFit', StepFits
      PROVE  GossipInv'
  BY <1>1 DEF StepFits, SafeInv
<1>2. UNCHANGED shares => SharesFit'
  BY DEF SafeInv, SharesFit, Ids
<1>3. ASSUME NEW n \in Nodes, NEW w \in Works[n], NEW prev, Mine(n, prev, w)
      PROVE  GossipInv'
  BY <1>1, <1>3, MineStep DEF Mine, counts
<1>4. ASSUME NEW n \in Nodes, BroadcastShare(n)
      PROVE  GossipInv'
  BY <1>1, <1>2, <1>4, BroadcastShareStep DEF BroadcastShare, counts
<1>5. ASSUME NEW n \in Nodes, BroadcastBlock(n)
      PROVE  GossipInv'
  BY <1>1, <1>2, <1>5, BroadcastBlockStep DEF BroadcastBlock
<1>6. ASSUME NEW n \in Nodes, Restart(n)
      PROVE  GossipInv'
  BY <1>2, <1>6, RestartStep DEF Restart, SafeInv
<1>7. ASSUME NEW p \in Pairs, Serve(p[1], p[2])
      PROVE  GossipInv'
  BY <1>1, <1>2, <1>7, ServeStep
<1>8. ASSUME NEW p \in Pairs, Lose(p[1], p[2])
      PROVE  GossipInv'
  <2>1. p[1] \in Nodes /\ p[2] \in Nodes
    BY DEF Pairs
  <2> QED
    BY <1>2, <1>8, <2>1, LoseStep DEF Lose, SafeInv
<1>9. CASE UNCHANGED vars
  <2>1. UNCHANGED <<shares, node, peers, dialed, chan, stream, blocks, losses, restarts>>
    BY <1>9 DEF vars
  <2>2. NodesFit'
    BY <2>1, NodesStay
  <2>3. Message' = Message /\ Ids' = Ids
    BY <2>1 DEF Message, Ids
  <2>4. ChanFits'
    BY <2>1, <2>3 DEF SafeInv, ChanFits, Fits
  <2>5. Bounds'
    BY <2>1, <2>3 DEF SafeInv, Bounds
  <2>6. PendingIsAsked => PendingIsAsked'
    <3>1. \A k \in Nodes : \A j : Asked(k, j) => Asked(k, j)'
      BY <2>1 DEF Asked
    <3>2. \A k \in Nodes : node'[k].pending = node[k].pending
      BY <2>1
    <3> QED
      BY <3>1, <3>2, PendingStays
  <2> QED
    BY <1>1, <1>2, <2>1, <2>2, <2>4, <2>5, <2>6 DEF StepFits
<1> QED
  BY <1>3, <1>4, <1>5, <1>6, <1>7, <1>8, <1>9 DEF Next

(***************************************************************************)
(* Whatever is sent, lost, mined and restarted: nodes keep fit states and  *)
(* connections carry what their ends can answer (_h_share, _h_getproof,    *)
(* _h_proof, broadcast_share).                                             *)
(***************************************************************************)
THEOREM GossipInvariance == Spec => []GossipInv
<1>1. Init => GossipInv
  BY InitFits
<1>2. GossipInv /\ [Next]_vars => GossipInv'
  BY StepKeeps
<1> QED
  BY <1>1, <1>2, PTL DEF Spec

(***************************************************************************)
(* Shares, nodes and connections keep their shape: a node whose sharechain *)
(* is not empty has a stored tip, and remembers no more than               *)
(* MAX_BLOCKS_SEEN blocks (Sharechain, _seen_block).                       *)
(***************************************************************************)
THEOREM GossipTypeCorrect == Spec => []TypeOK
<1>1. GossipInv => TypeOK
  <2> SUFFICES ASSUME SafeInv PROVE TypeOK
    BY DEF GossipInv
  <2>1. \A i \in Ids : /\ shares[i].prev \in 0..(i - 1)
                      /\ shares[i].height \in Nat /\ shares[i].total \in Nat
                      /\ shares[i].chain \subseteq 1..i
    BY IdFacts DEF SafeInv, SharesFit
  <2>2. ASSUME NEW n \in Nodes
        PROVE  LET s == node[n] IN
               /\ DOMAIN s = DOMAIN Fresh
               /\ s.store \cup s.proofs \cup s.pending \cup s.gaps \cup Range(s.unannounced) \subseteq Ids
               /\ s.tip \in s.store \cup {Genesis}
               /\ (s.tip = Genesis) = (s.store = {})
               /\ Len(s.blocksSeen) =< MaxBlocksSeen /\ Range(s.blocksSeen) \subseteq 1..blocks
    <3>1. NodeFits(node[n]) /\ node[n] \in NodeState
      BY DEF SafeInv, NodesFit
    <3>2. Range(node[n].unannounced) \subseteq Ids
      BY <3>1, RangePlaces DEF NodeState
    <3>3. DOMAIN node[n] = DOMAIN Fresh
      BY <3>1 DEF NodeState, Fresh
    <3> QED
      BY <3>1, <3>2, <3>3 DEF NodeFits, NodeState
  <2>3. ASSUME NEW p \in Pairs, NEW k \in DOMAIN chan[p]
        PROVE  chan[p][k].type \in
                 {"hello", "share", "getproof", "proof", "getshares", "shares", "block"}
    <3>1. chan[p][k] \in Message
      BY DEF SafeInv, ChanFits
    <3> QED
      BY <3>1 DEF Message
  <2> QED
    BY <2>1, <2>2, <2>3 DEF TypeOK, SafeInv, Bounds
<1> QED
  BY <1>1, GossipInvariance, PTL

(***************************************************************************)
(* Whoever has announced a share keeps its proof for as long as the        *)
(* connection lasts: a getproof that follows the announcement is answered  *)
(* (broadcast_share, _h_proof, _h_getproof).                               *)
(***************************************************************************)
THEOREM AnnouncedCorrect == Spec => []AnnouncedIsProvable
<1>1. GossipInv => AnnouncedIsProvable
  BY RangePlaces DEF GossipInv, SafeInv, ChanFits, Fits, AnnouncedIsProvable
<1> QED
  BY <1>1, GossipInvariance, PTL

(***************************************************************************)
(* The only stored shares that a window sync leaves out for want of their  *)
(* proof are the node's own, between add_share and the broadcast_share     *)
(* task that _on_submit has queued (_h_getshares).                         *)
(***************************************************************************)
THEOREM UnprovenCorrect == Spec => []UnprovenIsUnannounced
<1>1. GossipInv => UnprovenIsUnannounced
  BY DEF GossipInv, SafeInv, NodesFit, NodeFits, UnprovenIsUnannounced
<1> QED
  BY <1>1, GossipInvariance, PTL

(***************************************************************************)
(* Until a connection is lost or a node restarts, every share in _pending  *)
(* has its request or its answer under way: the entry that makes later     *)
(* announcements of the share look known will be taken out.                *)
(***************************************************************************)
THEOREM PendingAskedCorrect == Spec => [](losses = 0 /\ restarts = 0 => PendingIsAsked)
<1>1. GossipInv => (losses = 0 /\ restarts = 0 => PendingIsAsked)
  BY DEF GossipInv
<1> QED
  BY <1>1, GossipInvariance, PTL
=============================================================================
