-------------------------- MODULE SharechainProofs --------------------------
(***************************************************************************)
(* The safety of the sharechain store for every window, depth, target and  *)
(* history: types, the choice of the best tip, and what pruning may take.  *)
(* Then: the pruning store with its incremental sums implements the ledger *)
(* that keeps everything and adds up whole chains, as long as shares build *)
(* at most a window below the highest tip.                                 *)
(***************************************************************************)
EXTENDS MCSharechain, ShareRulesProofs

-----------------------------------------------------------------------------
(* The inductive invariant *)

(***************************************************************************)
(* Every accepted share builds on shares accepted before it, one height    *)
(* above its parent, with its uncles at most UncleDepth heights back.      *)
(***************************************************************************)
HistoryLinked ==
    \A i \in Ids :
        /\ shares[i].prev \in 0..(i - 1)
        /\ shares[i].height < i
        /\ shares[i].height = IF shares[i].prev = Genesis THEN 0
                              ELSE shares[shares[i].prev].height + 1
        /\ \A u \in shares[i].uncles :
               u \in 1..(i - 1) /\ shares[u].height >= shares[i].height - UncleDepth

(* There is a best tip as soon as a share is stored, no higher than the peak. *)
TipStored ==
    /\ bestTip = NoTip => shares = << >>
    /\ bestTip # NoTip => bestTip \in stored /\ shares[bestTip].height =< peak

(***************************************************************************)
(* BestTipIsHeaviest is inductive only together with TipStored (the best   *)
(* tip survives the pruning it causes) and the types of the sums it        *)
(* compares; HorizonKept needs the heights HistoryLinked bounds.           *)
(***************************************************************************)
SharechainInv ==
    TypeOK /\ HistoryLinked /\ TipStored /\ BestTipIsHeaviest /\ HorizonKept

-----------------------------------------------------------------------------
(* What is offered, and what insertion does *)

(* Every share that is offered is a share, whatever is wrong with it. *)
LEMMA CandidateType ==
  ASSUME TypeOK, HistoryLinked, NEW c \in Candidates
  PROVE  /\ c \in Share
         /\ c.prev \in 0..Len(shares)
         /\ c.uncles \subseteq Ids
<1>1. PICK d \in Drafts : c = MakeShare(d)
  BY DEF Candidates
<1>2. /\ d.prev \in Parents /\ d.skipped \in {0, 1}
      /\ d.parentHeight \in Nat /\ d.timestamp \in Int
      /\ d.limit \in 1..MaxTarget /\ d.factor \in Nat \ {0}
      /\ d.uncles \subseteq Ids /\ d.miner \in Miners /\ d.sound \in BOOLEAN
  BY BoundAssumption DEF Drafts
<1>3. d.prev \in 0..Len(shares) /\ (d.prev # Genesis => d.prev \in Ids)
  BY <1>2 DEF Parents, Ids, Genesis, TypeOK
<1>4. Max({1, d.limit \div d.factor}) \in 1..MaxTarget
  <2>1. ASSUME NEW x \in Nat, NEW y \in Nat, 1 =< y PROVE x \div y \in Nat /\ x \div y =< x
    BY <2>1, SMT
  <2>2. d.limit \div d.factor \in Nat /\ d.limit \div d.factor =< d.limit
    BY <1>2, <2>1, TargetAssumption
  <2>3. ASSUME NEW x \in Nat PROVE Max({1, x}) \in {1, x} /\ Max({1, x}) >= 1
    BY MaxOfTwo, 1 \in Int, x \in Int
  <2> QED
    BY <1>2, <2>2, <2>3, TargetAssumption
<1>5. d.prev # Genesis => shares[d.prev].height \in Nat /\ shares[d.prev].height < d.prev
  <2>1. \A i \in Ids : shares[i] \in Share /\ shares[i].height < i
    BY DEF TypeOK, HistoryLinked, Ids
  <2>2. \A s \in Share : s.height \in Nat
    BY DEF Share
  <2> QED
    BY <1>3, <2>1, <2>2
<1>6. Len(shares) \in Nat
  BY DEF TypeOK
<1>7. c.height \in Nat
  BY <1>1, <1>2, <1>3, <1>5 DEF MakeShare
<1>8. d.uncles \subseteq Nat \ {0}
  BY <1>2, <1>6 DEF Ids
<1> QED
  BY <1>1, <1>2, <1>3, <1>4, <1>5, <1>7, <1>8 DEF Share, MakeShare

(* A share that meets the rules is one height above its parent. *)
LEMMA ValidHeight ==
  ASSUME TypeOK, HistoryLinked, NEW c \in Candidates, NEW now, Valid(shares, stored, c, now)
  PROVE  /\ c.height =< Len(shares)
         /\ c.height = IF c.prev = Genesis THEN 0 ELSE shares[c.prev].height + 1
<1>1. c.height = IF c.prev = Genesis THEN 0 ELSE shares[c.prev].height + 1
  BY DEF Valid, ValidChild, ValidGenesis
<1>2. Len(shares) \in Nat
  BY DEF TypeOK
<1>3. CASE c.prev = Genesis
  BY <1>1, <1>2, <1>3
<1>4. CASE c.prev # Genesis
  <2>1. c.prev \in Ids
    BY <1>4, CandidateType DEF Ids, Genesis
  <2>2. shares[c.prev].height \in Nat /\ shares[c.prev].height < c.prev
    <3>1. \A i \in Ids : shares[i] \in Share /\ shares[i].height < i
      BY DEF TypeOK, HistoryLinked, Ids
    <3>2. \A x \in Share : x.height \in Nat
      BY DEF Share
    <3> QED
      BY <2>1, <3>1, <3>2
  <2> QED
    BY <1>1, <1>2, <1>4, <2>1, <2>2 DEF Ids
<1> QED
  BY <1>1, <1>3, <1>4

(***************************************************************************)
(* What insertion may assume of its arguments: a valid share, under the    *)
(* next number or under the number it was accepted with before.            *)
(***************************************************************************)
Insertable(id, c) ==
    /\ id \in 1..(Len(shares) + 1)
    /\ id \notin stored
    /\ c \in Share
    /\ id \in Ids => c = shares[id]
    /\ id \notin Ids => Len(shares) < MaxShares
    /\ c.prev \in 0..(id - 1)
    /\ c.prev # Genesis => c.prev \in stored
    /\ c.height < id
    /\ c.height = IF c.prev = Genesis THEN 0 ELSE shares[c.prev].height + 1
    /\ \A u \in c.uncles : /\ u \in 1..(id - 1) /\ u \in Ids
                           /\ shares[u].height >= c.height - UncleDepth

(* A step either inserts such a share or changes nothing. *)
LEMMA StepInserts ==
  ASSUME SharechainInv, Next
  PROVE  \/ UNCHANGED vars
         \/ \E id \in 1..(Len(shares) + 1), c \in Share : Insertable(id, c) /\ Insert(id, c)
<1> USE DEF SharechainInv
<1>1. PICK now \in Clocks : \/ \E c \in Candidates : AddFreshShare(c, now)
                            \/ \E id \in Ids : AddKnownShare(id, now)
  BY DEF Next
<1>2. ASSUME NEW c \in Candidates, AddFreshShare(c, now), ~UNCHANGED vars
      PROVE  LET id == Len(shares) + 1 IN Insertable(id, c) /\ Insert(id, c)
  <2>1. /\ Len(shares) < MaxShares
        /\ Valid(shares, stored, c, now)
        /\ Insert(Len(shares) + 1, c)
    BY <1>2 DEF AddFreshShare, AddShare
  <2>2. Len(shares) \in Nat /\ Len(shares) + 1 \notin Ids /\ Len(shares) + 1 \notin stored
    BY DEF TypeOK, Ids
  <2>3. c.prev # Genesis => c.prev \in stored
    BY <2>1 DEF Valid, ValidChild
  <2>4. ASSUME NEW u \in c.uncles
        PROVE  u \in Ids /\ u < Len(shares) + 1 /\ shares[u].height >= c.height - UncleDepth
    <3>1. c.prev # Genesis
      BY <2>1, <2>4 DEF Valid, ValidGenesis
    <3>2. ValidUncle(shares, stored, c, u)
      BY <2>1, <2>4, <3>1 DEF Valid, ValidChild
    <3>3. u \in Ids /\ shares[u].height \in (c.height - UncleDepth)..(c.height - 1)
      BY <3>2 DEF ValidUncle, TypeOK
    <3> QED
      BY <3>3, <2>2, CandidateType, WindowAssumption DEF Share, Ids
  <2>5. /\ c \in Share
        /\ c.prev \in 0..Len(shares)
        /\ c.height =< Len(shares) /\ c.height \in Nat
        /\ c.height = IF c.prev = Genesis THEN 0 ELSE shares[c.prev].height + 1
    BY <2>1, CandidateType, ValidHeight DEF Share
  <2> QED
    BY <2>1, <2>2, <2>3, <2>4, <2>5 DEF Insertable, Ids
<1>3. ASSUME NEW id \in Ids, AddKnownShare(id, now), ~UNCHANGED vars
      PROVE  Insertable(id, shares[id]) /\ Insert(id, shares[id])
  <2>1. /\ id \notin stored
        /\ Valid(shares, stored, shares[id], now)
        /\ Insert(id, shares[id])
    BY <1>3 DEF AddKnownShare, AddShare
  <2>2. shares[id].prev # Genesis => shares[id].prev \in stored
    BY <2>1 DEF Valid, ValidChild
  <2>3. shares[id] \in Share /\ id \in Nat /\ Len(shares) \in Nat
    BY DEF TypeOK, Ids
  <2> QED
    BY <2>1, <2>2, <2>3 DEF Insertable, HistoryLinked, Ids
<1> QED
  <2>1. CASE UNCHANGED vars
    BY <2>1
  <2>2. CASE ~UNCHANGED vars
    <3>1. CASE \E c \in Candidates : AddFreshShare(c, now)
      BY <3>1, <2>2, <1>2, CandidateType DEF TypeOK
    <3>2. CASE \E id \in Ids : AddKnownShare(id, now)
      BY <3>2, <2>2, <1>3 DEF TypeOK, Ids
    <3> QED
      BY <1>1, <3>1, <3>2
  <2> QED
    BY <2>1, <2>2

(* What insertion does to the store, whichever of its two ways it takes *)
Effect(id, c) ==
    /\ shares' \in Seq(Share)
    /\ Ids' = Ids \cup {id}
    /\ \A i \in Ids : shares'[i] = shares[i]
    /\ shares'[id] = c
    /\ CumulativeOf(c) \in Nat \ {0}
    /\ bestTip' = IF BecomesBest(c) THEN id ELSE bestTip
    /\ peak' = IF BecomesBest(c) THEN Max({peak, c.height}) ELSE peak
    /\ stored' = IF BecomesBest(c) THEN Kept(shares', stored \cup {id}, c.height)
                 ELSE stored \cup {id}
    /\ cumulative' = [i \in stored' |-> IF i = id THEN CumulativeOf(c) ELSE cumulative[i]]

(* Insertion has that effect. *)
LEMMA InsertEffect ==
  ASSUME SharechainInv, NEW id, NEW c, Insertable(id, c), Insert(id, c)
  PROVE  Effect(id, c)
<1> USE DEF SharechainInv, Effect
<1> DEFINE all == IF id \in Ids THEN shares ELSE Append(shares, c)
           entries == [i \in stored \cup {id} |->
                          IF i = id THEN CumulativeOf(c) ELSE cumulative[i]]
<1>1. Len(shares) \in Nat /\ shares \in Seq(Share) /\ c \in Share /\ id \in 1..(Len(shares) + 1)
  BY DEF TypeOK, Insertable
<1>2. shares' = all
  BY DEF Insert
<1>3. all \in Seq(Share) /\ (\A i \in Ids : all[i] = shares[i]) /\ all[id] = c
      /\ 1..Len(all) = Ids \cup {id}
  <2>1. CASE id \in Ids
    BY <1>1, <2>1 DEF Ids, Insertable
  <2>2. CASE id \notin Ids
    <3>1. id = Len(shares) + 1
      BY <1>1, <2>2 DEF Ids
    <3> QED
      BY <1>1, <2>2, <3>1 DEF Ids
  <2> QED
    BY <2>1, <2>2
<1>4. CumulativeOf(c) \in Nat \ {0}
  <2>1. c.uncles \subseteq DOMAIN shares
    BY <1>1 DEF Insertable, Ids
  <2>2. AddedWork(shares, c) \in Nat \ {0} /\ Difficulty(c) \in Nat \ {0}
    BY <1>1, <2>1, AddedWorkPositive, DifficultyPositive
  <2>3. c.prev # Genesis => cumulative[c.prev] \in Nat \ {0}
    BY DEF Insertable, TypeOK
  <2> QED
    BY <2>2, <2>3 DEF CumulativeOf
<1>5. Ids' = 1..Len(shares')
  BY DEF Ids
<1>6. stored' = DOMAIN cumulative'
  BY DEF stored
<1>7. DOMAIN entries = stored \cup {id}
  OBVIOUS
<1>8. CASE BecomesBest(c)
  <2>1. /\ bestTip' = id
        /\ peak' = Max({peak, c.height})
        /\ cumulative' = [i \in Kept(all, stored \cup {id}, c.height) |-> entries[i]]
    BY <1>7, <1>8 DEF Insert
  <2>2. Kept(all, stored \cup {id}, c.height) \subseteq stored \cup {id}
    BY DEF Kept
  <2> QED
    BY <1>2, <1>3, <1>4, <1>5, <1>6, <1>8, <2>1, <2>2
<1>9. CASE ~BecomesBest(c)
  <2>1. bestTip' = bestTip /\ peak' = peak /\ cumulative' = entries
    BY <1>9 DEF Insert
  <2> QED
    BY <1>2, <1>3, <1>4, <1>5, <1>6, <1>9, <2>1
<1> QED
  BY <1>8, <1>9

(* The types the steps below use. *)
LEMMA InvFacts ==
  ASSUME SharechainInv
  PROVE  /\ stored \subseteq Ids /\ Ids \subseteq Nat \ {0}
         /\ cumulative \in [stored -> Nat \ {0}]
         /\ \A i \in Ids : shares[i] \in Share /\ shares[i].height \in Nat
         /\ peak \in Int
         /\ Retention \in Nat
<1>1. \A i \in Ids : shares[i] \in Share
  BY DEF SharechainInv, TypeOK, Ids
<1>2. \A s \in Share : s.height \in Nat
  BY DEF Share
<1>3. Retention \in Nat
  BY WindowAssumption DEF Retention
<1>4. /\ stored \subseteq Ids /\ Ids \subseteq Nat \ {0}
      /\ cumulative \in [stored -> Nat \ {0}] /\ peak \in Int
  BY DEF SharechainInv, TypeOK, Ids
<1> QED
  BY <1>1, <1>2, <1>3, <1>4

LEMMA InsertableFacts ==
  ASSUME NEW id, NEW c, Insertable(id, c)
  PROVE  id \notin stored /\ id \in Nat \ {0} /\ c.height \in Nat
  BY DEF Insertable, Share

(* Insertion keeps the types. *)
LEMMA InsertType ==
  ASSUME SharechainInv, NEW id, NEW c, Insertable(id, c), Insert(id, c)
  PROVE  TypeOK'
<1>0. Effect(id, c)
  BY InsertEffect
<1> USE <1>0 DEF Effect
<1>1. stored \subseteq Ids /\ cumulative \in [stored -> Nat \ {0}] /\ peak \in Nat \cup {-1}
      /\ bestTip \in Ids \cup {NoTip} /\ c.height \in Nat
  BY DEF SharechainInv, TypeOK, Insertable, Share
<1>2. stored' \subseteq stored \cup {id}
  BY DEF Kept
<1>3. stored' \subseteq Ids'
  BY <1>1, <1>2
<1>4. cumulative' \in [stored' -> Nat \ {0}]
  BY <1>1, <1>2
<1>5. bestTip' \in Ids' \cup {NoTip}
  BY <1>1 DEF NoTip
<1>6. peak' \in Nat \cup {-1}
  <2>1. Max({peak, c.height}) \in {peak, c.height}
    BY <1>1, MaxOfTwo, peak \in Int, c.height \in Int
  <2> QED
    BY <1>1, <2>1
<1> QED
  BY <1>3, <1>4, <1>5, <1>6 DEF TypeOK

(* Insertion keeps the history linked. *)
LEMMA InsertHistory ==
  ASSUME SharechainInv, NEW id, NEW c, Insertable(id, c), Insert(id, c)
  PROVE  HistoryLinked'
<1>1. /\ Ids' = Ids \cup {id}
      /\ \A i \in Ids : shares'[i] = shares[i]
      /\ shares'[id] = c
  BY InsertEffect DEF Effect
<1>2. id \in Nat /\ \A i \in Ids : i \in Nat /\ 1..(i - 1) \subseteq Ids
  BY DEF SharechainInv, TypeOK, Insertable, Ids
<1>3. 1..(id - 1) \subseteq Ids
  BY DEF SharechainInv, TypeOK, Insertable, Ids
<1>4. ASSUME NEW i \in Ids'
      PROVE  /\ shares'[i].prev \in 0..(i - 1)
             /\ shares'[i].height < i
             /\ shares'[i].height = IF shares'[i].prev = Genesis THEN 0
                                    ELSE shares'[shares'[i].prev].height + 1
             /\ \A u \in shares'[i].uncles :
                   u \in 1..(i - 1) /\ shares'[u].height >= shares'[i].height - UncleDepth
  <2>1. CASE i \in Ids
    <3>1. /\ shares[i].prev \in 0..(i - 1)
          /\ shares[i].height < i
          /\ shares[i].height = IF shares[i].prev = Genesis THEN 0
                                ELSE shares[shares[i].prev].height + 1
          /\ \A u \in shares[i].uncles :
                u \in 1..(i - 1) /\ shares[u].height >= shares[i].height - UncleDepth
      BY <2>1 DEF SharechainInv, HistoryLinked
    <3>2. shares[i].prev # Genesis => shares[i].prev \in Ids
      BY <1>2, <2>1, <3>1 DEF Genesis
    <3> QED
      BY <1>1, <1>2, <2>1, <3>1, <3>2
  <2>2. CASE i = id
    <3>1. c.prev # Genesis => c.prev \in Ids
      BY <1>3 DEF Insertable, Genesis
    <3>2. \A u \in c.uncles : shares'[u] = shares[u]
      BY <1>1 DEF Insertable
    <3> QED
      BY <1>1, <2>2, <3>1, <3>2 DEF Insertable
  <2> QED
    BY <1>1, <2>1, <2>2
<1> QED
  BY <1>4 DEF HistoryLinked

(* The best tip survives the pruning that its own arrival causes. *)
LEMMA InsertTip ==
  ASSUME SharechainInv, NEW id, NEW c, Insertable(id, c), Insert(id, c)
  PROVE  TipStored' /\ BestTipIsHeaviest'
<1>0. Effect(id, c)
  BY InsertEffect
<1> USE <1>0 DEF Effect
<1>1. /\ shares'[id] = c /\ Ids' = Ids \cup {id}
      /\ CumulativeOf(c) \in Nat
      /\ \A i \in Ids : shares'[i] = shares[i]
  OBVIOUS
<1>2. /\ stored \subseteq Ids /\ cumulative \in [stored -> Nat \ {0}] /\ id \notin stored
      /\ c.height \in Nat /\ id \in Nat \ {0} /\ peak \in Int /\ Retention \in Nat
  BY InvFacts, InsertableFacts
<1>3. shares' # << >>
  BY <1>1 DEF Ids
<1>4. CASE BecomesBest(c)
  <2>1. id \in stored'
    BY <1>1, <1>2, <1>4 DEF Kept
  <2>2. stored' \subseteq stored \cup {id}
    BY <1>4 DEF Kept
  <2>3. \A i \in stored : cumulative[i] =< CumulativeOf(c)
    <3>1. CASE bestTip = NoTip
      BY <1>2, <3>1 DEF SharechainInv, TipStored, Ids
    <3>2. CASE bestTip # NoTip
      BY <1>1, <1>2, <1>4, <3>2 DEF SharechainInv, TipStored, BestTipIsHeaviest, BecomesBest
    <3> QED
      BY <3>1, <3>2
  <2>7. Max({peak, c.height}) >= c.height
    BY <1>2, MaxOfTwo, c.height \in Int
  <2>4. bestTip' = id /\ peak' >= c.height
    BY <1>4, <2>7
  <2>5. TipStored'
    BY <1>1, <1>2, <2>1, <2>4 DEF TipStored, NoTip
  <2>6. \A i \in stored' : cumulative'[i] =< cumulative'[id]
    <3>1. cumulative'[id] = CumulativeOf(c)
      BY <2>1
    <3>2. ASSUME NEW i \in stored', i # id
          PROVE  cumulative'[i] = cumulative[i] /\ i \in stored
      BY <2>2, <3>2
    <3>3. ASSUME NEW i \in stored' PROVE cumulative'[i] =< CumulativeOf(c)
      <4>1. CASE i = id
        BY <1>1, <3>1, <4>1
      <4>2. CASE i # id
        BY <2>3, <3>2, <4>2
      <4> QED
        BY <4>1, <4>2
    <3> QED
      BY <3>1, <3>3
  <2> QED
    BY <2>1, <2>4, <2>5, <2>6 DEF BestTipIsHeaviest
<1>5. CASE ~BecomesBest(c)
  <2>1. /\ bestTip' = bestTip /\ peak' = peak /\ stored' = stored \cup {id}
        /\ bestTip # NoTip
    BY <1>5 DEF BecomesBest
  <2>2. bestTip \in stored /\ shares[bestTip].height =< peak
    BY <2>1 DEF SharechainInv, TipStored
  <2>3. TipStored'
    BY <1>1, <1>2, <2>1, <2>2 DEF TipStored
  <2>4. \A i \in stored' : cumulative'[i] =< cumulative'[bestTip]
    BY <1>1, <1>2, <1>5, <2>1, <2>2 DEF SharechainInv, BestTipIsHeaviest, BecomesBest
  <2> QED
    BY <2>1, <2>2, <2>3, <2>4 DEF BestTipIsHeaviest
<1> QED
  BY <1>4, <1>5

(* Insertion prunes nothing at or above the horizon of the highest tip. *)
LEMMA InsertHorizon ==
  ASSUME SharechainInv, NEW id, NEW c, Insertable(id, c), Insert(id, c)
  PROVE  HorizonKept'
<1>0. Effect(id, c)
  BY InsertEffect
<1> USE <1>0 DEF Effect
<1>1. /\ Ids' = Ids \cup {id} /\ shares'[id] = c
      /\ \A i \in Ids : shares'[i] = shares[i]
  OBVIOUS
<1>2. /\ c.height \in Nat /\ peak \in Int /\ Retention \in Nat
      /\ \A i \in Ids : shares[i].height \in Nat
  BY InvFacts, InsertableFacts
<1>3. \A i \in Ids : shares[i].height >= peak - Retention => i \in stored
  BY DEF SharechainInv, HorizonKept
<1>4. CASE BecomesBest(c)
  <2>4. c.height \in Int
    BY <1>2
  <2>5. /\ Max({peak, c.height}) \in {peak, c.height}
        /\ Max({peak, c.height}) >= peak /\ Max({peak, c.height}) >= c.height
    BY <1>2, <2>4, MaxOfTwo
  <2>1. peak' >= peak /\ peak' >= c.height /\ peak' \in Int
    BY <1>2, <1>4, <2>4, <2>5
  <2>2. \A i \in Ids' : shares'[i].height >= peak' - Retention =>
           i \in stored \cup {id} /\ shares'[i].height >= c.height - Retention
    <3> SUFFICES ASSUME NEW i \in Ids', shares'[i].height >= peak' - Retention
                 PROVE  i \in stored \cup {id} /\ shares'[i].height >= c.height - Retention
      OBVIOUS
    <3> DEFINE h == shares'[i].height
    <3>1. h \in Int
      BY <1>1, <1>2
    <3> HIDE DEF h
    <3>2. h >= peak - Retention /\ h >= c.height - Retention
      <4>1. h >= peak' - Retention
        BY DEF h
      <4> QED
        BY <1>2, <2>1, <3>1, <4>1
    <3>3. CASE i = id
      BY <3>2, <3>3 DEF h
    <3>4. CASE i # id
      <4>1. i \in Ids /\ shares'[i].height = shares[i].height
        BY <1>1, <3>4
      <4> QED
        BY <1>3, <3>2, <4>1 DEF h
    <3> QED
      BY <3>3, <3>4
  <2>3. stored' = Kept(shares', stored \cup {id}, c.height)
    BY <1>4
  <2> QED
    BY <1>2, <2>2, <2>3 DEF Kept, HorizonKept
<1>5. CASE ~BecomesBest(c)
  BY <1>1, <1>2, <1>3, <1>5 DEF HorizonKept
<1> QED
  BY <1>4, <1>5

-----------------------------------------------------------------------------
(* The theorems *)

LEMMA InvInit ==
  Init => SharechainInv
<1> SUFFICES ASSUME Init PROVE SharechainInv
  OBVIOUS
<1>1. Ids = {} /\ stored = {}
  BY DEF Init, Ids, stored
<1> QED
  BY <1>1 DEF Init, SharechainInv, TypeOK, HistoryLinked, TipStored, BestTipIsHeaviest,
              HorizonKept, NoTip

LEMMA InvNext ==
  SharechainInv /\ [Next]_vars => SharechainInv'
<1> SUFFICES ASSUME SharechainInv, [Next]_vars PROVE SharechainInv'
  OBVIOUS
<1>1. CASE UNCHANGED vars
  BY <1>1 DEF vars, SharechainInv, TypeOK, HistoryLinked, TipStored, BestTipIsHeaviest,
              HorizonKept, Ids, stored, Retention
<1>2. ASSUME NEW id \in 1..(Len(shares) + 1), NEW c \in Share, Insertable(id, c), Insert(id, c)
      PROVE  SharechainInv'
  BY <1>2, InsertType, InsertHistory, InsertTip, InsertHorizon DEF SharechainInv
<1> QED
  BY <1>1, <1>2, StepInserts

THEOREM Invariance == Spec => []SharechainInv
  BY InvInit, InvNext, PTL DEF Spec

(***************************************************************************)
(* The store always has the types the code gives it; above all, every      *)
(* cumulative difficulty is a positive number.                             *)
(***************************************************************************)
THEOREM TypeCorrect == Spec => []TypeOK
<1>1. SharechainInv => TypeOK
  BY DEF SharechainInv
<1> QED
  BY Invariance, <1>1, PTL

(***************************************************************************)
(* Whatever arrives in whatever order, the best tip is stored and carries  *)
(* at least as much work as every stored share.                            *)
(***************************************************************************)
THEOREM TipCorrect == Spec => []BestTipIsHeaviest
<1>1. SharechainInv => BestTipIsHeaviest
  BY DEF SharechainInv
<1> QED
  BY Invariance, <1>1, PTL

(***************************************************************************)
(* No share within `_retention' of the highest tip is ever missing.        *)
(***************************************************************************)
THEOREM HorizonCorrect == Spec => []HorizonKept
<1>1. SharechainInv => HorizonKept
  BY DEF SharechainInv
<1> QED
  BY Invariance, <1>1, PTL

-----------------------------------------------------------------------------
(* Pruning is invisible within a window of the highest tip *)

(* Above the horizon a walk through the store is a walk through the history. *)
LEMMA HistoryWalk ==
  ASSUME SharechainInv, NEW i \in Ids, NEW limit \in Nat,
         shares[i].height >= peak - Retention + limit - 1
  PROVE  /\ WalkBack(shares, stored, i, limit) = WalkBack(shares, Ids, i, limit)
         /\ \A a \in ToSet(WalkBack(shares, Ids, i, limit)) :
               a \in stored /\ shares[a].height >= shares[i].height - limit + 1
<1> DEFINE floor == peak - Retention
<1>1. floor \in Int /\ Ids \in SUBSET (Nat \ {0}) /\ stored \in SUBSET Ids
      /\ \A j \in Ids : shares[j].height \in Nat
  BY InvFacts
<1>2. \A j \in Ids : shares[j].height >= floor => j \in stored
  BY DEF SharechainInv, HorizonKept
<1>3. \A j \in Ids : shares[j].prev \in Ids =>
         shares[j].height = shares[shares[j].prev].height + 1
  BY <1>1 DEF SharechainInv, HistoryLinked, Genesis
<1>4. shares[i].height >= floor + limit - 1
  OBVIOUS
<1> HIDE DEF floor
<1>5. /\ WalkBack(shares, stored, i, limit) = WalkBack(shares, Ids, i, limit)
      /\ WalkBack(shares, Ids, i, limit) \in Seq(stored)
      /\ \A a \in ToSet(WalkBack(shares, Ids, i, limit)) :
            shares[a].height >= shares[i].height - limit + 1
  BY <1>1, <1>2, <1>3, <1>4, WalksAgree
<1>6. \A a \in ToSet(WalkBack(shares, Ids, i, limit)) : a \in stored
  BY <1>5 DEF ToSet
<1> QED
  BY <1>5, <1>6

(***************************************************************************)
(* The payout weights as of any share in the last window are those of a    *)
(* node that never pruned, for every window, depth and history: `_retention'*)
(* is large enough for a full walk after a reorganisation of a full window.*)
(***************************************************************************)
THEOREM WindowCorrect == Spec => []ReorgSeesFullWindow
<1>1. SharechainInv => ReorgSeesFullWindow
  <2> SUFFICES ASSUME SharechainInv, NEW i \in Ids, shares[i].height >= peak - Window
               PROVE  PplnsWeights(shares, stored, i) = PplnsWeights(shares, Ids, i)
    BY DEF ReorgSeesFullWindow
  <2> DEFINE main == ToSet(WalkBack(shares, Ids, i, Window))
             uncles == UnclesOf(shares, main)
  <2>1. /\ stored \subseteq Ids /\ Ids \subseteq Nat \ {0}
        /\ \A j \in Ids : shares[j].height \in Nat
        /\ peak \in Int /\ Window \in Nat \ {0} /\ UncleDepth \in Nat
    BY InvFacts, WindowAssumption
  <2>2. Retention = 2 * Window + UncleDepth
    BY DEF Retention
  <2>3. shares[i].height >= peak - Retention + Window - 1
    BY <2>1, <2>2
  <2>4. /\ WalkBack(shares, stored, i, Window) = WalkBack(shares, Ids, i, Window)
        /\ \A a \in main : a \in stored /\ shares[a].height >= shares[i].height - Window + 1
    BY <2>1, <2>3, HistoryWalk
  <2>7. PplnsWeights(shares, stored, i) = WindowWeights(shares, main, uncles \cap stored)
    BY <2>4 DEF PplnsWeights
  <2>8. PplnsWeights(shares, Ids, i) = WindowWeights(shares, main, uncles \cap Ids)
    BY DEF PplnsWeights
  <2> HIDE DEF main
  <2>5. ASSUME NEW a \in main, NEW u \in shares[a].uncles
        PROVE  u \in stored
    <3>1. a \in Ids /\ shares[a].height >= shares[i].height - Window + 1
      BY <2>1, <2>4
    <3>2. u \in 1..(a - 1) /\ shares[u].height >= shares[a].height - UncleDepth
      BY <3>1 DEF SharechainInv, HistoryLinked
    <3>3. u \in Ids
      BY <3>1, <3>2, <2>1 DEF SharechainInv, TypeOK, Ids
    <3>5. \A x, y, z \in Nat : x >= peak - Window /\ y >= x - Window + 1 /\ z >= y - UncleDepth
                              => z >= peak - Retention
      BY <2>1, <2>2
    <3>4. shares[u].height >= peak - Retention
      BY <2>1, <3>1, <3>2, <3>3, <3>5
    <3> QED
      BY <3>3, <3>4 DEF SharechainInv, HorizonKept
  <2>6. uncles \cap stored = uncles \cap Ids
    BY <2>1, <2>5 DEF UnclesOf
  <2> QED
    BY <2>6, <2>7, <2>8
<1> QED
  BY Invariance, <1>1, PTL

(* The rules never look at what pruning takes, for a share in the last window. *)
LEMMA VerdictStands ==
  ASSUME SharechainInv
  PROVE  VerdictUnaffectedByPruning
<1> SUFFICES ASSUME NEW c \in Candidates, NEW now \in Clocks,
                    c.prev # Genesis, shares[c.prev].height >= peak - Window
             PROVE  Valid(shares, stored, c, now) <=> Valid(shares, Ids, c, now)
  BY DEF VerdictUnaffectedByPruning
<1> SUFFICES ASSUME c.height = shares[c.prev].height + 1
             PROVE  Valid(shares, stored, c, now) <=> Valid(shares, Ids, c, now)
  BY DEF Valid, ValidChild
<1> DEFINE p == c.prev
<1>1. /\ stored \subseteq Ids /\ Ids \subseteq Nat \ {0}
      /\ \A j \in Ids : shares[j].height \in Nat
      /\ peak \in Int /\ Window \in Nat \ {0} /\ UncleDepth \in Nat
      /\ RetargetWindow \in Nat /\ RetargetWindow =< Window + UncleDepth + 1
  BY InvFacts, WindowAssumption, TargetAssumption, RetargetReachAssumption
<1>2. Retention = 2 * Window + UncleDepth
  BY DEF Retention
<1>3. /\ p \in Ids /\ c.height \in Nat /\ c.height = shares[p].height + 1
      /\ c.uncles \subseteq Ids
  <2>1. TypeOK /\ HistoryLinked
    BY DEF SharechainInv
  <2>2. /\ c \in Share /\ p \in 0..Len(shares)
        /\ c.uncles \subseteq Ids
    BY <2>1, CandidateType
  <2>3. c.height \in Nat
    BY <2>2 DEF Share
  <2> QED
    BY <2>1, <2>2, <2>3 DEF TypeOK, Ids, Genesis
<1>9. \A x \in Nat : x >= peak - Window =>
         /\ x >= peak - Retention
         /\ x >= peak - Retention + RetargetWindow - 1
         /\ x >= peak - Retention + (UncleDepth + 1) - 1
         /\ \A y \in Nat, h \in Nat :
               h = x + 1 /\ y >= h - UncleDepth => y >= peak - Retention
  BY <1>1, <1>2
<1>4. p \in stored
  <2>1. shares[p].height >= peak - Retention
    BY <1>1, <1>3, <1>9
  <2> QED
    BY <1>3, <2>1 DEF SharechainInv, HorizonKept
<1>5. ExpectedTarget(shares, stored, p, c.timestamp) = ExpectedTarget(shares, Ids, p, c.timestamp)
  <2>1. shares[p].height >= peak - Retention + RetargetWindow - 1
    BY <1>1, <1>3, <1>9
  <2>2. WalkBack(shares, stored, p, RetargetWindow) = WalkBack(shares, Ids, p, RetargetWindow)
    BY <1>1, <1>3, <2>1, HistoryWalk
  <2> QED
    BY <2>2 DEF ExpectedTarget
<1>6. Recent(shares, stored, p) = Recent(shares, Ids, p)
  <2>1. shares[p].height >= peak - Retention + (UncleDepth + 1) - 1
    BY <1>1, <1>3, <1>9
  <2>2. UncleDepth + 1 \in Nat
    BY <1>1
  <2>3. WalkBack(shares, stored, p, UncleDepth + 1) = WalkBack(shares, Ids, p, UncleDepth + 1)
    BY <1>3, <2>1, <2>2, HistoryWalk
  <2> QED
    BY <2>3 DEF Recent
<1>7. ASSUME NEW u \in c.uncles
      PROVE  ValidUncle(shares, stored, c, u) <=> ValidUncle(shares, Ids, c, u)
  <2>1. shares[u].height \in (c.height - UncleDepth)..(c.height - 1) => u \in stored
    <3>1. u \in Ids /\ shares[u].height \in Nat
      BY <1>1, <1>3
    <3>2. ASSUME shares[u].height >= c.height - UncleDepth PROVE u \in stored
      <4>1. shares[u].height >= peak - Retention
        BY <1>1, <1>3, <1>9, <3>1, <3>2
      <4> QED
        BY <3>1, <4>1 DEF SharechainInv, HorizonKept
    <3> QED
      BY <1>1, <1>3, <3>1, <3>2
  <2> QED
    BY <1>1, <1>6, <2>1 DEF ValidUncle
<1>8. ValidChild(shares, stored, c) <=> ValidChild(shares, Ids, c)
  BY <1>3, <1>4, <1>5, <1>7 DEF ValidChild
<1> QED
  BY <1>8 DEF Valid

(***************************************************************************)
(* A share that builds anywhere in the last window is judged as a node     *)
(* that never pruned would judge it: two nodes with different horizons     *)
(* cannot disagree about it.                                               *)
(***************************************************************************)
THEOREM VerdictCorrect == Spec => []VerdictUnaffectedByPruning
  BY Invariance, VerdictStands, PTL

-----------------------------------------------------------------------------
(* Work is credited once *)

(***************************************************************************)
(* What was seen of uncle u when share i was accepted: a stretch v of the  *)
(* chain below i that holds the uncle's parent, and neither the uncle nor  *)
(* a share that names it.                                                  *)
(***************************************************************************)
SeenBelow(S, i, u, v) ==
    /\ v # << >> /\ v[1] = S[i].prev /\ IsPath(S, v)
    /\ \E m \in 1..Len(v) : v[m] = S[u].prev
    /\ \A k \in 1..Len(v) : v[k] # u /\ u \notin S[v[k]].uncles

(***************************************************************************)
(* The rules look at UncleDepth + 1 stored shares at the time.  That no    *)
(* chain credits a share twice follows from what they found, which stays   *)
(* true of the history whatever is pruned or accepted later.               *)
(***************************************************************************)
UnclesSeen ==
    \A i \in Ids : \A u \in shares[i].uncles : \E v \in Seq(Ids) : SeenBelow(shares, i, u, v)

(* The history only grows, by a share that met the rules. *)
LEMMA HistoryGrows ==
  ASSUME SharechainInv, [Next]_vars
  PROVE  \/ shares' = shares
         \/ \E c \in Candidates, now \in Clocks :
               Valid(shares, stored, c, now) /\ shares' = Append(shares, c)
<1>1. CASE UNCHANGED vars
  BY <1>1 DEF vars
<1>2. ASSUME NEW now \in Clocks, NEW c \in Candidates, AddFreshShare(c, now), ~UNCHANGED vars
      PROVE  Valid(shares, stored, c, now) /\ shares' = Append(shares, c)
  <2>1. Valid(shares, stored, c, now) /\ Insert(Len(shares) + 1, c)
    BY <1>2 DEF AddFreshShare, AddShare
  <2>2. Len(shares) + 1 \notin Ids
    BY DEF SharechainInv, TypeOK, Ids
  <2> QED
    BY <2>1, <2>2 DEF Insert
<1>3. ASSUME NEW now \in Clocks, NEW id \in Ids, AddKnownShare(id, now) PROVE shares' = shares
  BY <1>3 DEF AddKnownShare, AddShare, Insert, vars
<1> QED
  BY <1>1, <1>2, <1>3 DEF Next

(* What was seen below a share stays seen. *)
LEMMA StaysSeen ==
  ASSUME NEW S, NEW T, NEW all, \A j \in all : T[j] = S[j],
         NEW i \in all, NEW u \in all, NEW v \in Seq(all), SeenBelow(S, i, u, v)
  PROVE  SeenBelow(T, i, u, v)
<1>1. \A k \in 1..Len(v) : T[v[k]] = S[v[k]]
  OBVIOUS
<1>2. Len(v) \in Nat /\ \A k \in 1..(Len(v) - 1) : k \in 1..Len(v)
  OBVIOUS
<1>3. IsPath(T, v)
  BY <1>1, <1>2 DEF SeenBelow, IsPath
<1> QED
  BY <1>1, <1>3 DEF SeenBelow

(* Every step keeps it. *)
LEMMA UnclesSeenNext ==
  ASSUME SharechainInv, UnclesSeen, [Next]_vars
  PROVE  UnclesSeen'
<1>1. CASE shares' = shares
  BY <1>1 DEF UnclesSeen, Ids
<1>2. ASSUME NEW c \in Candidates, NEW now \in Clocks,
             Valid(shares, stored, c, now), shares' = Append(shares, c)
      PROVE  UnclesSeen'
  <2> DEFINE id == Len(shares) + 1
  <2>1. /\ Len(shares) \in Nat /\ c \in Share /\ c.uncles \subseteq Ids
        /\ c.prev \in 0..Len(shares)
    BY CandidateType DEF SharechainInv, TypeOK
  <2>2. /\ Ids' = Ids \cup {id} /\ id \notin Ids
        /\ \A j \in Ids : shares'[j] = shares[j]
        /\ shares'[id] = c
    BY <1>2, <2>1 DEF SharechainInv, TypeOK, Ids
  <2>3. \A v \in Seq(Ids) : v \in Seq(Ids')
    BY <2>2
  <2>4. ASSUME NEW i \in Ids, NEW u \in shares[i].uncles
        PROVE  \E v \in Seq(Ids') : SeenBelow(shares', i, u, v)
    <3>1. PICK v \in Seq(Ids) : SeenBelow(shares, i, u, v)
      BY <2>4 DEF UnclesSeen
    <3>2. u \in Ids
      BY InvFacts DEF SharechainInv, TypeOK, HistoryLinked, Ids
    <3>3. SeenBelow(shares', i, u, v)
      BY <2>2, <3>1, <3>2, StaysSeen
    <3> QED
      BY <2>3, <3>3
  <2>5. ASSUME NEW u \in c.uncles
        PROVE  \E v \in Seq(Ids') : SeenBelow(shares', id, u, v)
    <3> DEFINE v == WalkBack(shares, stored, c.prev, UncleDepth + 1)
    <3>1. c.prev # Genesis
      BY <1>2, <2>5 DEF Valid, ValidGenesis
    <3>2. ValidChild(shares, stored, c)
      BY <1>2, <3>1 DEF Valid
    <3>3. /\ c.prev \in stored
          /\ u \in Ids /\ u \notin ToSet(v)
          /\ \A a \in ToSet(v) : u \notin shares[a].uncles
          /\ shares[u].prev \in ToSet(v)
      BY <2>1, <2>5, <3>2 DEF ValidChild, ValidUncle, Recent
    <3>4. UncleDepth + 1 \in Nat /\ stored \subseteq Ids
      BY WindowAssumption, InvFacts
    <3>5. v \in Seq(stored) /\ (v # << >> => v[1] = c.prev) /\ IsPath(shares, v)
      BY <3>3, <3>4, WalkIsPath
    <3> HIDE DEF v
    <3>6. v \in Seq(Ids) /\ DOMAIN v = 1..Len(v) /\ \A k \in 1..Len(v) : v[k] \in ToSet(v)
      BY <3>4, <3>5 DEF ToSet
    <3>7. \E m \in 1..Len(v) : v[m] = shares[u].prev
      BY <3>3, <3>6 DEF ToSet
    <3>8. \A k \in 1..Len(v) : v[k] # u /\ u \notin shares[v[k]].uncles
      BY <3>3, <3>6
    <3>9. v # << >>
      BY <3>6, <3>7
    <3>10. /\ \A k \in 1..Len(v) : shares'[v[k]] = shares[v[k]] /\ v[k] \in Ids
           /\ shares'[u] = shares[u]
      BY <2>2, <3>3, <3>6
    <3>11. IsPath(shares', v)
      <4>1. Len(v) \in Nat /\ \A k \in 1..(Len(v) - 1) : k \in 1..Len(v)
        BY <3>6
      <4> QED
        BY <3>5, <3>10, <4>1 DEF IsPath
    <3>12. SeenBelow(shares', id, u, v)
      BY <2>2, <3>5, <3>7, <3>8, <3>9, <3>10, <3>11 DEF SeenBelow
    <3> QED
      BY <2>3, <3>6, <3>12
  <2>6. ASSUME NEW i \in Ids', NEW u \in shares'[i].uncles
        PROVE  \E v \in Seq(Ids') : SeenBelow(shares', i, u, v)
    BY <2>2, <2>4, <2>5, <2>6
  <2> QED
    BY <2>6 DEF UnclesSeen
<1> QED
  BY <1>1, <1>2, HistoryGrows

(* Heights fall by one along a path through the history. *)
LEMMA ChainHeights ==
  ASSUME SharechainInv, NEW w \in Seq(Ids), IsPath(shares, w), NEW k \in 1..Len(w)
  PROVE  /\ w[k] \in Ids /\ w[1] \in Ids
         /\ shares[w[k]].height = shares[w[1]].height - k + 1
<1>1. /\ \A i \in Ids : shares[i].height \in Nat
      /\ \A i \in Ids : shares[i].prev \in Ids => shares[i].height = shares[shares[i].prev].height + 1
  BY InvFacts DEF SharechainInv, HistoryLinked, Genesis
<1>2. w[k] \in Ids /\ shares[w[k]].height = shares[w[1]].height - k + 1
  BY <1>1, PathHeights
<1>3. 1 \in 1..Len(w)
  OBVIOUS
<1>4. w[1] \in Ids
  BY <1>3
<1> QED
  BY <1>2, <1>4

(***************************************************************************)
(* An uncle named by the share at place a of a chain was seen beside that  *)
(* chain: every share of the chain below place a and above the uncle's     *)
(* parent was looked at.                                                   *)
(***************************************************************************)
LEMMA LookedAt ==
  ASSUME SharechainInv, UnclesSeen, NEW w \in Seq(Ids), IsPath(shares, w),
         NEW a \in 1..Len(w), NEW u \in shares[w[a]].uncles,
         NEW b \in 1..Len(w), a < b, shares[w[b]].height >= shares[u].height
  PROVE  w[b] # u /\ u \notin shares[w[b]].uncles
<1> DEFINE H(i) == shares[i].height
<1>1. /\ \A i \in Ids : H(i) \in Nat
      /\ \A i \in Ids : shares[i].prev \in Ids => H(i) = H(shares[i].prev) + 1
      /\ w[a] \in Ids /\ u \in Ids /\ w[b] \in Ids
  <2>1. /\ \A i \in Ids : H(i) \in Nat
        /\ \A i \in Ids : shares[i].prev \in Ids => H(i) = H(shares[i].prev) + 1
    BY InvFacts DEF SharechainInv, HistoryLinked, Genesis
  <2>2. w[a] \in Ids /\ w[b] \in Ids
    OBVIOUS
  <2>3. u \in Ids
    BY <2>2 DEF SharechainInv, TypeOK, HistoryLinked, Ids
  <2> QED
    BY <2>1, <2>2, <2>3
<1>2. PICK v \in Seq(Ids) : SeenBelow(shares, w[a], u, v)
  BY <1>1 DEF UnclesSeen
<1>3. PICK m \in 1..Len(v) : v[m] = shares[u].prev
  BY <1>2 DEF SeenBelow
<1>4. /\ Len(v) \in Nat /\ Len(w) \in Nat /\ m \in Nat /\ a \in Nat /\ b \in Nat
      /\ v # << >> /\ v[1] = shares[w[a]].prev /\ IsPath(shares, v) /\ 1 \in 1..Len(v)
      /\ a + 1 \in 1..Len(w)
  BY <1>2 DEF SeenBelow
<1>5. v[1] = w[a + 1]
  <2>1. a \in 1..(Len(w) - 1)
    BY <1>4
  <2> QED
    BY <1>4, <2>1 DEF IsPath
<1>6. H(v[m]) = H(v[1]) - m + 1 /\ v[m] \in Ids /\ v[1] \in Ids
  BY <1>4, ChainHeights
<1>7. H(w[b]) = H(w[1]) - b + 1 /\ H(w[a + 1]) = H(w[1]) - (a + 1) + 1
      /\ w[1] \in Ids
  <2>1. 1 \in 1..Len(w)
    BY <1>4
  <2>2. w[1] \in Ids
    BY <2>1
  <2>3. H(w[b]) = H(w[1]) - b + 1
    BY ChainHeights
  <2>4. H(w[a + 1]) = H(w[1]) - (a + 1) + 1
    BY <1>4, ChainHeights
  <2> QED
    BY <2>2, <2>3, <2>4
<1>8. H(u) = H(v[m]) + 1
  BY <1>1, <1>3, <1>6
<1>9. b - a =< m
  <2>1. \A hb, hu, h1, hm, hv \in Int :
           hb >= hu /\ hu = hm + 1 /\ hm = hv - m + 1 /\ hv = h1 - (a + 1) + 1
           /\ hb = h1 - b + 1 => b - a =< m
    <3>1. \A x, y, z \in Nat : \A hb, hu, h1, hm, hv \in Int :
             hb >= hu /\ hu = hm + 1 /\ hm = hv - z + 1 /\ hv = h1 - (x + 1) + 1
             /\ hb = h1 - y + 1 => y - x =< z
      OBVIOUS
    <3> QED
      BY <1>4, <3>1
  <2>2. /\ H(w[b]) \in Int /\ H(u) \in Int /\ H(w[1]) \in Int /\ H(v[m]) \in Int
        /\ H(v[1]) \in Int
    <3>1. \A i \in Ids : H(i) \in Int
      BY <1>1
    <3>2. w[b] \in Ids /\ u \in Ids /\ w[1] \in Ids /\ v[m] \in Ids /\ v[1] \in Ids
      BY <1>1, <1>6, <1>7
    <3> HIDE DEF H
    <3> QED
      BY <3>1, <3>2
  <2>3. H(w[b]) >= H(u)
    OBVIOUS
  <2>4. H(v[1]) = H(w[1]) - (a + 1) + 1
    BY <1>5, <1>7
  <2> HIDE DEF H
  <2> QED
    BY <1>6, <1>7, <1>8, <2>1, <2>2, <2>3, <2>4
<1>10. b - a \in 1..Len(v)
  BY <1>3, <1>4, <1>9
<1>11. v[b - a] = w[b]
  <2> DEFINE n == b - a - 1
  <2>1. /\ n \in Nat /\ 1 + n =< Len(v) /\ (a + 1) + n =< Len(w)
        /\ 1 + n = b - a /\ (a + 1) + n = b
    BY <1>4, <1>10
  <2> HIDE DEF n
  <2>2. v[1 + n] = w[(a + 1) + n]
    BY <1>4, <1>5, <2>1, PathsMeet
  <2> QED
    BY <2>1, <2>2
<1> QED
  BY <1>2, <1>10, <1>11 DEF SeenBelow

(***************************************************************************)
(* On no chain of the history is a share's work credited twice, in         *)
(* whatever order forks and uncles arrive and whatever has been pruned     *)
(* when they do: an uncle's parent must have been seen, so every share     *)
(* between it and the share that names the uncle was seen too.             *)
(***************************************************************************)
THEOREM CreditCorrect == Spec => []WorkCreditedOnce
<1>1. Init => SharechainInv /\ UnclesSeen
  <2>1. Init => UnclesSeen
    BY DEF Init, UnclesSeen, Ids
  <2> QED
    BY <2>1, InvInit
<1>2. SharechainInv /\ UnclesSeen /\ [Next]_vars => (SharechainInv /\ UnclesSeen)'
  BY InvNext, UnclesSeenNext
<1>3. SharechainInv /\ UnclesSeen => WorkCreditedOnce
  <2> SUFFICES ASSUME SharechainInv, UnclesSeen, NEW tip \in Ids,
                      NEW i \in ChainOf(tip), NEW j \in ChainOf(tip)
               PROVE  /\ shares[i].uncles \cap ChainOf(tip) = {}
                      /\ i # j => shares[i].uncles \cap shares[j].uncles = {}
    BY DEF WorkCreditedOnce
  <2> DEFINE w == WalkBack(shares, Ids, tip, MaxShares)
             H(x) == shares[x].height
  <2>1. w \in Seq(Ids) /\ IsPath(shares, w)
    BY BoundAssumption, WalkIsPath
  <2>2. ChainOf(tip) = {w[k] : k \in 1..Len(w)}
    BY <2>1 DEF ChainOf, ToSet
  <2> HIDE DEF w
  <2>3. /\ \A x \in Ids : H(x) \in Nat
        /\ \A x \in Ids : shares[x].prev \in Ids => H(x) = H(shares[x].prev) + 1
        /\ \A x \in Ids : \A u \in shares[x].uncles : u \in Ids /\ u # x
    <3>1. /\ \A x \in Ids : H(x) \in Nat
          /\ \A x \in Ids : shares[x].prev \in Ids => H(x) = H(shares[x].prev) + 1
      BY InvFacts DEF SharechainInv, HistoryLinked, Genesis
    <3>2. \A x \in Ids : \A u \in shares[x].uncles : u \in Ids /\ u # x
      BY DEF SharechainInv, TypeOK, HistoryLinked, Ids
    <3> QED
      BY <3>1, <3>2
  <2>4. ASSUME NEW k \in 1..Len(w)
        PROVE  w[k] \in Ids /\ H(w[k]) = H(w[1]) - k + 1 /\ H(w[1]) \in Nat /\ Len(w) \in Nat
    <3>1. 1 \in 1..Len(w) /\ Len(w) \in Nat
      BY <2>1
    <3>2. w[k] \in Ids /\ w[1] \in Ids /\ H(w[k]) = H(w[1]) - k + 1
      BY <2>1, ChainHeights
    <3> QED
      BY <2>3, <3>1, <3>2
  (* The uncle's parent was seen below the share: the uncle is no higher than it. *)
  <2>5. ASSUME NEW a \in 1..Len(w), NEW u \in shares[w[a]].uncles
        PROVE  H(u) =< H(w[a])
    <3>1. PICK v \in Seq(Ids) : SeenBelow(shares, w[a], u, v)
      BY <2>4 DEF UnclesSeen
    <3>2. PICK m \in 1..Len(v) : v[m] = shares[u].prev
      BY <3>1 DEF SeenBelow
    <3>3. v[1] = shares[w[a]].prev /\ IsPath(shares, v) /\ 1 \in 1..Len(v) /\ m \in Nat
      BY <3>1, <3>2 DEF SeenBelow
    <3>4. v[m] \in Ids /\ v[1] \in Ids /\ H(v[m]) = H(v[1]) - m + 1
      BY <3>3, ChainHeights
    <3>5. H(w[a]) = H(v[1]) + 1 /\ H(u) = H(v[m]) + 1
      BY <2>3, <2>4, <3>2, <3>3, <3>4
    <3>6. H(v[m]) \in Nat /\ H(v[1]) \in Nat
      BY <2>3, <3>4
    <3>7. \A x, y \in Int : x = y - m + 1 => x + 1 =< y + 1
      BY <3>3
    <3> HIDE DEF H
    <3> QED
      BY <3>4, <3>5, <3>6, <3>7
  <2>6. ASSUME NEW a \in 1..Len(w), NEW b \in 1..Len(w), w[b] \in shares[w[a]].uncles
        PROVE  FALSE
    <3>1. H(w[b]) =< H(w[a]) /\ w[b] # w[a]
      BY <2>3, <2>4, <2>5, <2>6
    <3>2. a =< b
      BY <2>4, <3>1
    <3>3. a < b
      BY <3>1, <3>2
    <3>4. H(w[b]) >= H(w[b])
      BY <2>3, <2>4
    <3> QED
      BY <2>1, <2>6, <3>3, <3>4, LookedAt
  <2>7. ASSUME NEW a \in 1..Len(w), NEW b \in 1..Len(w), a < b,
               NEW u \in shares[w[a]].uncles, u \in shares[w[b]].uncles
        PROVE  FALSE
    <3>1. H(w[b]) >= H(u)
      <4>1. H(u) =< H(w[b])
        BY <2>5, <2>7
      <4>2. H(u) \in Int /\ H(w[b]) \in Int
        BY <2>3, <2>4, <2>7
      <4> HIDE DEF H
      <4> QED
        BY <4>1, <4>2
    <3> QED
      BY <2>1, <2>7, <3>1, LookedAt
  <2>8. PICK a \in 1..Len(w), b \in 1..Len(w) : i = w[a] /\ j = w[b]
    BY <2>2
  <2>9. shares[i].uncles \cap ChainOf(tip) = {}
    BY <2>2, <2>6, <2>8
  <2>10. i # j => shares[i].uncles \cap shares[j].uncles = {}
    <3>1. i # j => a < b \/ b < a
      BY <2>8
    <3> QED
      BY <2>7, <2>8, <3>1
  <2> QED
    BY <2>9, <2>10
<1> QED
  BY <1>1, <1>2, <1>3, PTL DEF Spec

-----------------------------------------------------------------------------
(* The rules of the ledger are those of the sharechain *)

LEMMA SameWalk ==
  \A S, ids, start, limit : Ledger!WalkBack(S, ids, start, limit) = WalkBack(S, ids, start, limit)
BY DEF Ledger!WalkBack, WalkBack, Ledger!Last, Last

LEMMA SameWork ==
  \A S, ids : Ledger!WorkOf(S, ids) = WorkOf(S, ids)
BY DEF Ledger!WorkOf, WorkOf, Ledger!MapThenSumSet, MapThenSumSet, Ledger!MapThenFoldSet,
       MapThenFoldSet, Ledger!Difficulty, Difficulty

LEMMA SameAddedWork ==
  \A S, c : Ledger!AddedWork(S, c) = AddedWork(S, c)
BY SameWork DEF Ledger!AddedWork, AddedWork, Ledger!Difficulty, Difficulty

LEMMA SameTarget ==
  ASSUME NEW S, NEW ids, NEW prev, NEW timestamp
  PROVE  Ledger!ExpectedTarget(S, ids, prev, timestamp) = ExpectedTarget(S, ids, prev, timestamp)
<1> DEFINE w == WalkBack(S, ids, prev, RetargetWindow)
           work == WorkOf(S, ToSet(w))
           span == timestamp - S[Last(w)].timestamp
<1>1. Ledger!WalkBack(S, ids, prev, RetargetWindow) = w
  BY SameWalk
<1>2. Ledger!ReachesGenesis(S, w) = ReachesGenesis(S, w)
  BY DEF Ledger!ReachesGenesis, ReachesGenesis, Ledger!Genesis, Genesis, Ledger!Last, Last
<1>3. Ledger!WorkOf(S, Ledger!ToSet(w)) = work
  BY SameWork DEF Ledger!ToSet, ToSet
<1>4. Ledger!Last(w) = Last(w)
  BY DEF Ledger!Last, Last
<1>5. Ledger!RetargetTarget(S[prev].limit, work, span) = RetargetTarget(S[prev].limit, work, span)
  BY DEF Ledger!RetargetTarget, RetargetTarget, Ledger!Max, Max, Ledger!Min, Min
<1> HIDE DEF w, work
<1> QED
  BY <1>1, <1>2, <1>3, <1>4, <1>5
  DEF Ledger!ExpectedTarget, ExpectedTarget, Ledger!Genesis, Genesis, Ledger!NoTarget, NoTarget,
      w, work

LEMMA SameVerdict ==
  \A S, ids, c, now : Ledger!Valid(S, ids, c, now) <=> Valid(S, ids, c, now)
BY SameTarget, SameWalk
DEF Ledger!Valid, Valid, Ledger!ValidGenesis, ValidGenesis, Ledger!ValidChild, ValidChild,
    Ledger!ValidUncle, ValidUncle, Ledger!Recent, Recent, Ledger!Genesis, Genesis,
    Ledger!NoTarget, NoTarget, Ledger!ToSet, ToSet

-----------------------------------------------------------------------------
(* The total work of a share *)

(* A history in which every share builds on, and names, earlier ones *)
Linked(S) ==
    /\ S \in Seq(Share)
    /\ \A i \in 1..Len(S) : S[i].prev \in 0..(i - 1) /\ S[i].uncles \subseteq 1..(i - 1)

TotalStep(S, g, i) == IF i = 0 THEN 0 ELSE g[S[i].prev] + AddedWork(S, S[i])

(* Total work can be computed for the first n shares, for every n. *)
LEMMA TotalExists ==
  ASSUME NEW S, Linked(S), NEW n \in 0..Len(S)
  PROVE  \E g : g = [i \in 0..n |-> TotalStep(S, g, i)]
<1> DEFINE Has(m) == \E g : g = [i \in 0..m |-> TotalStep(S, g, i)]
           Bad == {m \in 0..Len(S) : ~Has(m)}
<1>1. SUFFICES ASSUME Bad # {} PROVE FALSE
  BY <1>1
<1>2. Bad \in SUBSET Nat
  BY DEF Linked
<1>3. PICK m \in Bad : \A k \in Bad : m =< k
  BY <1>1, <1>2, LeastNat
<1>4. m \in Nat /\ m \in 0..Len(S) /\ ~Has(m) /\ Len(S) \in Nat
  BY <1>3 DEF Linked
<1>5. CASE m = 0
  <2> DEFINE g == [i \in 0..0 |-> 0]
  <2>1. g = [i \in 0..0 |-> TotalStep(S, g, i)]
    BY DEF TotalStep
  <2> QED
    BY <1>4, <1>5, <2>1
<1>6. CASE m # 0
  <2>1. m - 1 \in 0..Len(S) /\ m - 1 \notin Bad
    <3>1. m - 1 \in 0..Len(S) /\ ~(m =< m - 1)
      BY <1>4, <1>6
    <3> QED
      BY <1>3, <3>1
  <2>2. PICK h : h = [i \in 0..(m - 1) |-> TotalStep(S, h, i)]
    BY <2>1
  <2> DEFINE g == [i \in 0..m |-> TotalStep(S, h, i)]
  <2>3. \A i \in 0..(m - 1) : i \in 0..m /\ g[i] = h[i]
    BY <1>4, <2>2
  <2>4. ASSUME NEW i \in 0..m
        PROVE  TotalStep(S, h, i) = TotalStep(S, g, i)
    <3>1. CASE i = 0
      BY <3>1 DEF TotalStep
    <3>2. CASE i # 0
      <4>1. S[i].prev \in 0..(m - 1)
        BY <1>4, <3>2 DEF Linked
      <4>2. g[S[i].prev] = h[S[i].prev]
        BY <2>3, <4>1
      <4> HIDE DEF g
      <4> QED
        BY <3>2, <4>2 DEF TotalStep
    <3> QED
      BY <3>1, <3>2
  <2>5. g = [i \in 0..m |-> TotalStep(S, g, i)]
    BY <2>4
  <2>6. Has(m)
    BY <2>5
  <2> QED
    BY <1>4, <2>6
<1> QED
  BY <1>5, <1>6

(* The total work of a share is its own, its uncles' and its parent's total. *)
LEMMA TotalUnfold ==
  ASSUME NEW S, Linked(S)
  PROVE  /\ Ledger!TotalWork(S)[0] = 0
         /\ \A i \in 1..Len(S) :
               Ledger!TotalWork(S)[i] = Ledger!TotalWork(S)[S[i].prev] + AddedWork(S, S[i])
<1> DEFINE w == CHOOSE g : g = [i \in 0..Len(S) |-> TotalStep(S, g, i)]
<1>1. Ledger!TotalWork(S) = w
  BY SameAddedWork DEF Ledger!TotalWork, TotalStep
<1>2. Len(S) \in 0..Len(S) /\ 0 \in 0..Len(S)
  BY DEF Linked
<1>3. w = [i \in 0..Len(S) |-> TotalStep(S, w, i)]
  BY <1>2, TotalExists
<1> HIDE DEF w
<1>4. \A i \in 0..Len(S) : w[i] = TotalStep(S, w, i)
  BY <1>3
<1> QED
  BY <1>1, <1>2, <1>4 DEF TotalStep

(* It is a number. *)
LEMMA TotalType ==
  ASSUME NEW S, Linked(S), NEW i \in 0..Len(S)
  PROVE  Ledger!TotalWork(S)[i] \in Nat
<1> DEFINE w == Ledger!TotalWork(S)
           Bad == {k \in 0..Len(S) : w[k] \notin Nat}
<1>1. SUFFICES ASSUME Bad # {} PROVE FALSE
  BY <1>1
<1>2. Bad \in SUBSET Nat
  OBVIOUS
<1>3. PICK m \in Bad : \A k \in Bad : m =< k
  BY <1>1, <1>2, LeastNat
<1>4. w[0] = 0 /\ \A k \in 1..Len(S) : w[k] = w[S[k].prev] + AddedWork(S, S[k])
  BY TotalUnfold
<1> HIDE DEF w
<1>5. m # 0
  BY <1>3, <1>4
<1>6. m \in 1..Len(S) /\ Len(S) \in Nat
  BY <1>3, <1>5 DEF Linked
<1>7. /\ S[m].prev \in 0..Len(S) /\ ~(m =< S[m].prev)
      /\ S[m] \in Share /\ S[m].uncles \subseteq DOMAIN S
  BY <1>6 DEF Linked
<1>8. AddedWork(S, S[m]) \in Nat
  BY <1>7, AddedWorkPositive DEF Linked
<1>9. w[S[m].prev] \in Nat
  BY <1>3, <1>7
<1>10. w[m] \in Nat
  BY <1>4, <1>6, <1>8, <1>9
<1> QED
  BY <1>3, <1>10

(* A share that is accepted later changes nobody's total. *)
LEMMA TotalStays ==
  ASSUME NEW S, NEW T, Linked(S), Linked(T), Len(S) =< Len(T),
         \A i \in 1..Len(S) : T[i] = S[i], NEW i \in 0..Len(S)
  PROVE  Ledger!TotalWork(T)[i] = Ledger!TotalWork(S)[i]
<1> DEFINE w == Ledger!TotalWork(S)
           x == Ledger!TotalWork(T)
           Bad == {k \in 0..Len(S) : w[k] # x[k]}
<1>1. SUFFICES ASSUME Bad # {} PROVE FALSE
  BY <1>1
<1>2. Bad \in SUBSET Nat
  OBVIOUS
<1>3. PICK m \in Bad : \A k \in Bad : m =< k
  BY <1>1, <1>2, LeastNat
<1>4. /\ w[0] = 0 /\ \A k \in 1..Len(S) : w[k] = w[S[k].prev] + AddedWork(S, S[k])
      /\ x[0] = 0 /\ \A k \in 1..Len(T) : x[k] = x[T[k].prev] + AddedWork(T, T[k])
  BY TotalUnfold
<1> HIDE DEF w, x
<1>5. m # 0
  BY <1>3, <1>4
<1>6. m \in 1..Len(S) /\ m \in 1..Len(T) /\ Len(S) \in Nat
  BY <1>3, <1>5 DEF Linked
<1>7. /\ S[m].prev \in 0..Len(S) /\ ~(m =< S[m].prev)
      /\ S[m].uncles \subseteq 1..Len(S) /\ T[m] = S[m]
  BY <1>6 DEF Linked
<1>8. AddedWork(T, T[m]) = AddedWork(S, S[m])
  BY <1>7, WorkOfSame DEF AddedWork
<1>9. w[S[m].prev] = x[S[m].prev]
  BY <1>3, <1>7
<1> QED
  BY <1>3, <1>4, <1>6, <1>7, <1>8, <1>9

-----------------------------------------------------------------------------
(* What the store knows of the ledger *)

Total(i) == Ledger!TotalWork(shares)[i]

(* The incremental sum of a stored share is its total work *)
SumsTracked == \A i \in stored : cumulative[i] = Total(i)

(***************************************************************************)
(* The best tip is the first share of the most total work among all that   *)
(* were ever accepted, those that were pruned included: a pruned share     *)
(* that is offered again never becomes the tip.                            *)
(***************************************************************************)
TipIsFirst ==
    bestTip # NoTip =>
        \A j \in Ids \ {bestTip} : Total(j) < Total(bestTip) + (IF bestTip < j THEN 1 ELSE 0)

LedgerInv == SharechainInv /\ UnclesSeen /\ SumsTracked /\ TipIsFirst

LEMMA HistoryIsLinked ==
  SharechainInv => Linked(shares)
<1> SUFFICES ASSUME SharechainInv PROVE Linked(shares)
  OBVIOUS
<1>1. ASSUME NEW i \in 1..Len(shares)
      PROVE  shares[i].prev \in 0..(i - 1) /\ shares[i].uncles \subseteq 1..(i - 1)
  BY <1>1 DEF SharechainInv, HistoryLinked, Ids
<1> QED
  BY <1>1 DEF Linked, SharechainInv, TypeOK

(* A share without a parent names no uncle. *)
LEMMA GenesisAlone ==
  UnclesSeen => \A i \in Ids : shares[i].prev = Genesis => shares[i].uncles = {}
<1> SUFFICES ASSUME UnclesSeen, NEW i \in Ids, shares[i].prev = Genesis,
                    NEW u \in shares[i].uncles
             PROVE  FALSE
  OBVIOUS
<1>1. PICK v \in Seq(Ids) : SeenBelow(shares, i, u, v)
  BY DEF UnclesSeen
<1>2. v # << >> /\ v[1] = Genesis
  BY <1>1 DEF SeenBelow
<1>3. v[1] \in Ids
  BY <1>2
<1> QED
  BY <1>2, <1>3 DEF Ids, Genesis

(* Insertion leaves the totals of the history as they are. *)
LEMMA TotalsStay ==
  ASSUME SharechainInv, SharechainInv', NEW id, NEW c, Insertable(id, c), Effect(id, c),
         NEW i \in Ids \cup {0}
  PROVE  Total(i)' = Total(i) /\ Total(i) \in Nat
<1>1. Linked(shares) /\ Linked(shares')
  <2>1. Linked(shares)
    BY HistoryIsLinked
  <2>2. Linked(shares)'
    BY HistoryIsLinked, PTL
  <2> QED
    BY <2>1, <2>2
<1>2. Ids = 1..Len(shares) /\ Ids' = 1..Len(shares') /\ Ids' = Ids \cup {id}
  BY DEF Ids, Effect
<1>3. Len(shares) \in Nat /\ Len(shares') \in Nat
  BY <1>1 DEF Linked
<1>4. Len(shares) =< Len(shares')
  <2>1. CASE Len(shares) = 0
    BY <1>3, <2>1
  <2>2. CASE Len(shares) # 0
    <3>1. Len(shares) \in 1..Len(shares')
      BY <1>2, <1>3, <2>2
    <3> QED
      BY <1>3, <3>1
  <2> QED
    BY <2>1, <2>2
<1>5. \A j \in 1..Len(shares) : shares'[j] = shares[j]
  BY <1>2 DEF Effect
<1>6. i \in 0..Len(shares)
  BY <1>2, <1>3
<1>7. Ledger!TotalWork(shares')[i] = Ledger!TotalWork(shares)[i]
  BY <1>1, <1>4, <1>5, <1>6, TotalStays
<1>8. Ledger!TotalWork(shares)[i] \in Nat
  BY <1>1, <1>6, TotalType
<1>9. Total(i)' = Ledger!TotalWork(shares')[i]
  BY DEF Total
<1> QED
  BY <1>7, <1>8, <1>9 DEF Total

(* What the code adds up for a share is its total work. *)
LEMMA SumIsTotal ==
  ASSUME LedgerInv, SharechainInv', UnclesSeen', NEW id, NEW c, Insertable(id, c), Effect(id, c)
  PROVE  Ledger!TotalWork(shares')[id] = CumulativeOf(c)
<1>1. /\ shares'[id] = c /\ id \in Ids' /\ Ids' = 1..Len(shares')
      /\ \A i \in Ids : shares'[i] = shares[i]
  BY DEF Effect, Ids
<1>2. Linked(shares)'
  BY HistoryIsLinked, PTL
<1>3. /\ Ledger!TotalWork(shares')[id] = Ledger!TotalWork(shares')[c.prev] + AddedWork(shares', c)
      /\ Ledger!TotalWork(shares')[0] = 0
  BY <1>1, <1>2, TotalUnfold
<1>4. AddedWork(shares', c) = AddedWork(shares, c)
  <2>1. \A u \in c.uncles : shares'[u] = shares[u]
    BY <1>1 DEF Insertable
  <2> QED
    BY <2>1, WorkOfSame DEF AddedWork
<1>5. CASE c.prev = Genesis
  <2>1. c.uncles = {}
    <3>1. (\A i \in Ids : shares[i].prev = Genesis => shares[i].uncles = {})'
      BY GenesisAlone, PTL
    <3> QED
      BY <1>1, <1>5, <3>1
  <2>2. AddedWork(shares, c) = Difficulty(c)
    <3>1. Difficulty(c) \in Nat
      BY DifficultyPositive DEF Insertable
    <3> QED
      BY <2>1, <3>1, WorkOfNone DEF AddedWork
  <2>3. Difficulty(c) \in Nat
    BY DifficultyPositive DEF Insertable
  <2> QED
    BY <1>3, <1>4, <1>5, <2>2, <2>3 DEF CumulativeOf, Genesis
<1>6. CASE c.prev # Genesis
  <2>1. c.prev \in stored /\ c.prev \in Ids
    BY <1>6, InvFacts DEF Insertable, LedgerInv
  <2>2. cumulative[c.prev] = Total(c.prev)
    BY <2>1 DEF LedgerInv, SumsTracked
  <2>3. Ledger!TotalWork(shares')[c.prev] = Total(c.prev)
    <3>1. Total(c.prev)' = Total(c.prev)
      BY <2>1, TotalsStay DEF LedgerInv
    <3> QED
      BY <1>1, <2>1, <3>1 DEF Total
  <2> QED
    BY <1>3, <1>4, <1>6, <2>2, <2>3 DEF CumulativeOf
<1> QED
  BY <1>5, <1>6

-----------------------------------------------------------------------------
(* Every step keeps it *)

(* Insertion keeps the sums right and the tip the first of the heaviest. *)
LEMMA InsertTracked ==
  ASSUME LedgerInv, SharechainInv', UnclesSeen', NEW id, NEW c, Insertable(id, c), Effect(id, c)
  PROVE  /\ SumsTracked' /\ TipIsFirst'
         /\ id \in Ids => bestTip' = bestTip
<1>1. /\ Ids' = Ids \cup {id} /\ CumulativeOf(c) \in Nat
      /\ bestTip' = IF BecomesBest(c) THEN id ELSE bestTip
      /\ stored' \subseteq stored \cup {id}
      /\ cumulative' = [i \in stored' |-> IF i = id THEN CumulativeOf(c) ELSE cumulative[i]]
  BY DEF Effect, Kept
<1>2. /\ stored \subseteq Ids /\ Ids \subseteq Nat \ {0} /\ id \in Nat \ {0} /\ id \notin stored
      /\ Ids = 1..Len(shares) /\ Len(shares) \in Nat
  BY InvFacts, InsertableFacts DEF LedgerInv, SharechainInv, TypeOK, Ids
<1>3. \A i \in Ids : Total(i)' = Total(i) /\ Total(i) \in Nat
  BY TotalsStay DEF LedgerInv
<1>4. Total(id)' = CumulativeOf(c)
  BY SumIsTotal DEF Total
<1>5. SumsTracked'
  <2>1. ASSUME NEW i \in stored' PROVE cumulative'[i] = Total(i)'
    <3>1. CASE i = id
      BY <1>1, <1>4, <2>1, <3>1
    <3>2. CASE i # id
      <4>1. i \in stored /\ cumulative'[i] = cumulative[i]
        BY <1>1, <2>1, <3>2
      <4> QED
        BY <1>2, <1>3, <4>1 DEF LedgerInv, SumsTracked
    <3> QED
      BY <3>1, <3>2
  <2> QED
    BY <2>1 DEF SumsTracked
<1>6. CASE bestTip = NoTip
  <2>1. Ids = {}
    BY <1>6 DEF LedgerInv, SharechainInv, TipStored, Ids
  <2>2. BecomesBest(c) /\ bestTip' = id
    BY <1>1, <1>6 DEF BecomesBest
  <2>3. TipIsFirst'
    <3>1. Ids' \ {bestTip'} = {}
      BY <1>1, <2>1, <2>2
    <3> QED
      BY <3>1 DEF TipIsFirst
  <2> QED
    BY <1>5, <2>1, <2>3
<1>7. CASE bestTip # NoTip
  <2>1. bestTip \in stored /\ bestTip \in Ids /\ cumulative[bestTip] = Total(bestTip)
    BY <1>2, <1>7 DEF LedgerInv, SharechainInv, TipStored, SumsTracked
  <2>2. \A j \in Ids \ {bestTip} : Total(j) < Total(bestTip) + (IF bestTip < j THEN 1 ELSE 0)
    BY <1>7 DEF LedgerInv, TipIsFirst
  <2>3. \A j \in Ids : Total(j) =< Total(bestTip)
    <3>1. \A x, y \in Nat : x < y + 1 \/ x < y + 0 => x =< y
      OBVIOUS
    <3>2. ASSUME NEW j \in Ids PROVE Total(j) =< Total(bestTip)
      <4>1. CASE j = bestTip
        BY <1>3, <4>1
      <4>2. CASE j # bestTip
        BY <1>3, <2>1, <2>2, <3>1, <4>2
      <4> QED
        BY <4>1, <4>2
    <3> QED
      BY <3>2
  <2>4. id \in Ids => CumulativeOf(c) = Total(id)
    BY <1>3, <1>4
  <2>5. CASE BecomesBest(c)
    <3>1. CumulativeOf(c) > Total(bestTip) /\ bestTip' = id
      BY <1>1, <1>7, <2>1, <2>5 DEF BecomesBest
    <3>2. id \notin Ids
      BY <1>1, <1>3, <2>1, <2>3, <2>4, <3>1
    <3>3. ASSUME NEW j \in Ids PROVE Total(j)' < CumulativeOf(c) /\ Total(j)' \in Nat
      BY <1>1, <1>3, <2>1, <2>3, <3>1
    <3>4. ASSUME NEW j \in Ids' \ {id}
          PROVE  Total(j)' < Total(id)' + (IF id < j THEN 1 ELSE 0)
      <4>1. Total(j)' < CumulativeOf(c) /\ Total(j)' \in Nat
        BY <1>1, <3>3, <3>4
      <4>2. \A x, y \in Nat : x < y => x < y + 1 /\ x < y + 0
        OBVIOUS
      <4> QED
        BY <1>1, <1>4, <4>1, <4>2
    <3>5. TipIsFirst'
      BY <3>1, <3>4 DEF TipIsFirst
    <3> QED
      BY <1>5, <3>2, <3>5
  <2>6. CASE ~BecomesBest(c)
    <3>1. bestTip' = bestTip /\ CumulativeOf(c) =< Total(bestTip)
      BY <1>1, <1>3, <2>1, <2>6 DEF BecomesBest
    <3>2. ASSUME NEW j \in Ids' \ {bestTip}
          PROVE  Total(j)' < Total(bestTip)' + (IF bestTip < j THEN 1 ELSE 0)
      <4>1. Total(bestTip)' = Total(bestTip) /\ Total(bestTip) \in Nat
        BY <1>3, <2>1, <3>1
      <4>2. CASE j \in Ids
        <5>1. j \in Ids \ {bestTip}
          BY <3>1, <3>2, <4>2
        <5>2. Total(j) < Total(bestTip) + (IF bestTip < j THEN 1 ELSE 0)
          BY <2>2, <5>1
        <5>3. Total(j)' = Total(j)
          BY <1>3, <4>2
        <5> QED
          BY <4>1, <5>2, <5>3
      <4>3. CASE j \notin Ids
        <5>1. j = id /\ bestTip < j
          BY <1>1, <1>2, <2>1, <3>2, <4>3
        <5>2. Total(id)' =< Total(bestTip) /\ Total(id)' \in Nat
          BY <1>1, <1>4, <3>1
        <5>3. \A x, y \in Nat : x =< y => x < y + 1
          OBVIOUS
        <5>4. Total(id)' < Total(bestTip)' + 1
          BY <4>1, <5>2, <5>3
        <5> QED
          BY <5>1, <5>4
      <4> QED
        BY <4>2, <4>3
    <3>3. TipIsFirst'
      BY <3>1, <3>2 DEF TipIsFirst
    <3> QED
      BY <1>5, <3>1, <3>3
  <2> QED
    BY <2>5, <2>6
<1> QED
  BY <1>6, <1>7

(* A step that changes nothing keeps the sums and the tip. *)
LEMMA StutterTracked ==
  LedgerInv /\ UNCHANGED vars => SumsTracked' /\ TipIsFirst'
BY DEF LedgerInv, SumsTracked, TipIsFirst, Total, vars, stored, Ids

(* The first of the heaviest is one share. *)
LEMMA TipIsFirstHeaviest ==
  SharechainInv /\ TipIsFirst => (bestTip # NoTip => bestTip = Ledger!FirstHeaviest(shares))
<1> SUFFICES ASSUME SharechainInv, TipIsFirst, bestTip # NoTip
             PROVE  bestTip = Ledger!FirstHeaviest(shares)
  OBVIOUS
<1> DEFINE First(i) == \A j \in Ids \ {i} : Total(j) < Total(i) + (IF i < j THEN 1 ELSE 0)
<1>1. DOMAIN shares = Ids /\ Ids \subseteq Nat
  BY DEF SharechainInv, TypeOK, Ids
<1>2. bestTip \in Ids /\ First(bestTip)
  BY InvFacts DEF SharechainInv, TipStored, TipIsFirst
<1>3. ASSUME NEW i \in Ids, First(i) PROVE i = bestTip
  <2>1. SUFFICES ASSUME i # bestTip PROVE FALSE
    OBVIOUS
  <2>2. Total(i) \in Nat /\ Total(bestTip) \in Nat
    <3>1. i \in 0..Len(shares) /\ bestTip \in 0..Len(shares)
      BY <1>2, <1>3 DEF SharechainInv, TypeOK, Ids
    <3> QED
      BY <3>1, HistoryIsLinked, TotalType DEF Total
  <2>3. /\ Total(bestTip) < Total(i) + (IF i < bestTip THEN 1 ELSE 0)
        /\ Total(i) < Total(bestTip) + (IF bestTip < i THEN 1 ELSE 0)
    BY <1>2, <1>3, <2>1
  <2>4. i < bestTip \/ bestTip < i
    BY <1>1, <1>2, <2>1
  <2>5. \A x, y \in Nat : ~(x < y + 1 /\ y < x + 0)
    OBVIOUS
  <2> HIDE DEF First
  <2> QED
    BY <1>1, <1>2, <2>2, <2>3, <2>4, <2>5
<1>4. Ledger!FirstHeaviest(shares) = CHOOSE i \in Ids : First(i)
  BY <1>1 DEF Ledger!FirstHeaviest, Total
<1> HIDE DEF First
<1> QED
  BY <1>2, <1>3, <1>4

(***************************************************************************)
(* What is accepted on a parent at most a window below the highest tip is  *)
(* valid in the whole history.                                             *)
(***************************************************************************)
LEMMA AcceptedIsValid ==
  ASSUME SharechainInv, MaxReorg =< Window, NEW c \in Candidates, NEW now \in Clocks,
         Valid(shares, stored, c, now)
  PROVE  Valid(shares, Ids, c, now)
<1>1. CASE c.prev = Genesis
  BY <1>1 DEF Valid
<1>2. CASE c.prev # Genesis
  <2>1. PICK d \in Drafts : c = MakeShare(d)
    BY DEF Candidates
  <2>2. c.prev \in Parents
    BY <2>1 DEF Drafts, MakeShare
  <2>3. c.prev \in Ids /\ shares[c.prev].height >= peak - MaxReorg
    BY <1>2, <2>2 DEF Parents
  <2>4. shares[c.prev].height \in Nat /\ peak \in Int /\ MaxReorg \in Nat /\ Window \in Nat
    BY <2>3, InvFacts, BoundAssumption, WindowAssumption
  <2>5. shares[c.prev].height >= peak - Window
    BY <2>3, <2>4
  <2> QED
    BY <1>2, <2>5, VerdictStands DEF VerdictUnaffectedByPruning
<1> QED
  BY <1>1, <1>2

(* Every step of the store is a step of the ledger, or leaves it as it is. *)
LEMMA StepIsLedgerStep ==
  ASSUME LedgerInv, (SharechainInv /\ UnclesSeen /\ SumsTracked /\ TipIsFirst)',
         MaxReorg =< Window, Next
  PROVE  Ledger!Next \/ UNCHANGED <<shares, bestTip>>
<1>1. CASE UNCHANGED vars
  BY <1>1 DEF vars
<1>2. ASSUME NEW id \in 1..(Len(shares) + 1), NEW c \in Share, Insertable(id, c), Insert(id, c)
      PROVE  Ledger!Next \/ UNCHANGED <<shares, bestTip>>
  <2>1. Effect(id, c)
    BY <1>2, InsertEffect DEF LedgerInv
  <2>2. Len(shares) \in Nat /\ Ids = 1..Len(shares) /\ Ids' = 1..Len(shares')
    BY DEF LedgerInv, SharechainInv, TypeOK, Ids
  <2>3. CASE id \in Ids
    <3>1. bestTip' = bestTip
      BY <1>2, <2>1, <2>3, InsertTracked
    <3>2. shares' = shares
      BY <1>2, <2>3 DEF Insert
    <3> QED
      BY <3>1, <3>2
  <2>4. CASE id \notin Ids
    <3>1. shares' # shares
      BY <2>1, <2>2, <2>4 DEF Effect, Ids
    <3>2. PICK f \in Candidates, now \in Clocks :
             Valid(shares, stored, f, now) /\ shares' = Append(shares, f)
      BY <3>1, HistoryGrows DEF LedgerInv
    <3>3. Valid(shares, Ids, f, now)
      BY <3>2, AcceptedIsValid DEF LedgerInv
    <3>4. Last(shares') = f /\ DOMAIN shares = Ids
      BY <3>2, <2>2 DEF Last, LedgerInv, SharechainInv, TypeOK
    <3>5. bestTip' = Ledger!FirstHeaviest(shares')
      <4>1. (bestTip # NoTip => bestTip = Ledger!FirstHeaviest(shares))'
        BY TipIsFirstHeaviest, PTL
      <4>2. bestTip' # NoTip
        BY <2>1, <2>2 DEF Effect, BecomesBest, Insertable, NoTip
      <4> QED
        BY <4>1, <4>2
    <3>6. Ledger!Accept(Last(shares'), now)
      BY <3>2, <3>3, <3>4, <3>5, SameVerdict DEF Ledger!Accept
    <3>7. Ledger!Last(shares') = Last(shares')
      BY DEF Ledger!Last, Last
    <3> QED
      BY <3>1, <3>6, <3>7 DEF Ledger!Next
  <2> QED
    BY <2>3, <2>4
<1> QED
  BY <1>1, <1>2, StepInserts DEF LedgerInv

(***************************************************************************)
(* The invariant: the sharechain's own, what was seen of each uncle, the   *)
(* sums, and the order of the tip.                                         *)
(***************************************************************************)
THEOREM LedgerInvariance == Spec => []LedgerInv
<1>1. Init => LedgerInv
  <2> SUFFICES ASSUME Init PROVE LedgerInv
    OBVIOUS
  <2>1. Ids = {} /\ stored = {} /\ bestTip = NoTip
    BY DEF Init, Ids, stored
  <2>2. UnclesSeen
    BY <2>1 DEF UnclesSeen
  <2> QED
    BY <2>1, <2>2, InvInit DEF LedgerInv, SumsTracked, TipIsFirst
<1>2. LedgerInv /\ [Next]_vars => LedgerInv'
  <2> SUFFICES ASSUME LedgerInv, [Next]_vars PROVE LedgerInv'
    OBVIOUS
  <2>1. SharechainInv'
    BY InvNext DEF LedgerInv
  <2>2. UnclesSeen'
    BY UnclesSeenNext DEF LedgerInv
  <2>3. SumsTracked' /\ TipIsFirst'
    <3>1. CASE UNCHANGED vars
      BY <3>1, StutterTracked
    <3>2. ASSUME NEW id \in 1..(Len(shares) + 1), NEW c \in Share, Insertable(id, c), Insert(id, c)
          PROVE  SumsTracked' /\ TipIsFirst'
      <4>1. Effect(id, c)
        BY <3>2, InsertEffect DEF LedgerInv
      <4> QED
        BY <2>1, <2>2, <3>2, <4>1, InsertTracked
    <3> QED
      BY <3>1, <3>2, StepInserts DEF LedgerInv
  <2> QED
    BY <2>1, <2>2, <2>3 DEF LedgerInv
<1> QED
  BY <1>1, <1>2, PTL DEF Spec

(***************************************************************************)
(* The pruning store with its incremental sums implements the ledger: it   *)
(* accepts the shares the whole history accepts, and its best tip is at    *)
(* every moment the first share of the most total work, as long as no      *)
(* share builds more than a window below the highest tip.                  *)
(***************************************************************************)
THEOREM LedgerImplemented ==
  ASSUME MaxReorg =< Window
  PROVE  Spec => ImplementsLedger
<1>1. Init => Ledger!Init
  BY DEF Init, Ledger!Init, NoTip
<1>2. LedgerInv /\ LedgerInv' /\ [Next]_vars => [Ledger!Next]_<<shares, bestTip>>
  <2> SUFFICES ASSUME LedgerInv, LedgerInv', [Next]_vars
               PROVE  Ledger!Next \/ UNCHANGED <<shares, bestTip>>
    OBVIOUS
  <2>1. CASE Next
    <3>1. (SharechainInv /\ UnclesSeen /\ SumsTracked /\ TipIsFirst)'
      BY DEF LedgerInv
    <3> QED
      BY <2>1, <3>1, StepIsLedgerStep
  <2>2. CASE UNCHANGED vars
    BY <2>2 DEF vars
  <2> QED
    BY <2>1, <2>2
<1> QED
  BY <1>1, <1>2, LedgerInvariance, PTL DEF Spec, ImplementsLedger, Ledger!Spec
=============================================================================
