---------------------------- MODULE MiningProofs ----------------------------
(***************************************************************************)
(* Miners and peers are of one mind, for any nodes, clocks, templates and  *)
(* number of shares: what a job commits to follows from the chain below it *)
(* alone, and every node that has that chain derives the same.             *)
(***************************************************************************)
EXTENDS Mining, ShareRulesProofs

-----------------------------------------------------------------------------
(* The invariant *)

(***************************************************************************)
(* Candidate c keeps the rules that read nothing but the chain below it,   *)
(* and commits to what every share mined so far would give it.             *)
(***************************************************************************)
Sane(c) ==
    /\ c.sound /\ c.uncles = {} /\ c.timestamp \in Int /\ c.parentHeight \in Int
    /\ c.prev \in Ids \cup {Genesis}
    /\ c.payouts = PplnsWeights(shares, Ids, c.prev)
    /\ IF c.prev = Genesis THEN ValidGenesis(c)
       ELSE /\ c.height = shares[c.prev].height + 1
            /\ c.timestamp >= shares[c.prev].timestamp
            /\ ExpectedTarget(shares, Ids, c.prev, c.timestamp) \in {NoTarget, c.limit}

(* Accepted shares build on earlier ones, and the parent chain only grows *)
SharesSane ==
    /\ shares \in Seq(ToSet(shares))
    /\ \A i \in Ids : /\ Sane(shares[i]) /\ shares[i].prev \in 0..(i - 1)
                      /\ shares[i].prev # Genesis =>
                            shares[i].parentHeight >= shares[shares[i].prev].parentHeight

(* Nodes have whole chains, and a miner works on one that its node has *)
NodesSane ==
    \A n \in Nodes :
        /\ stored[n] \subseteq Ids /\ Whole(shares, stored[n])
        /\ tip[n] \in stored[n] \cup {Genesis}
        /\ job[n] # NoJob => Sane(job[n]) /\ job[n].prev \in stored[n] \cup {Genesis}

Times ==
    /\ time \in Int /\ parent \in Int
    /\ \A n \in Nodes : template[n].height \in Int /\ template[n].curtime \in Int

MiningInv ==
    /\ SharesSane /\ NodesSane /\ Times
    /\ DOMAIN stored = Nodes /\ DOMAIN tip = Nodes /\ DOMAIN job = Nodes /\ DOMAIN template = Nodes

-----------------------------------------------------------------------------
(* One mind *)

LEMMA AllWhole ==
  ASSUME SharesSane
  PROVE  Len(shares) \in Nat /\ Whole(shares, Ids)
<1>1. Len(shares) \in Nat
  BY DEF SharesSane
<1> QED
  BY <1>1 DEF SharesSane, Sane, Whole, Ids, Genesis

(* A node works out for its own chains what the whole history gives them. *)
LEMMA OwnView ==
  ASSUME SharesSane, NodesSane, NEW n \in Nodes, NEW prev \in stored[n] \cup {Genesis}
  PROVE  /\ Payouts(n, prev) = PplnsWeights(shares, Ids, prev)
         /\ \A timestamp : ExpectedTarget(shares, stored[n], prev, timestamp)
                               = ExpectedTarget(shares, Ids, prev, timestamp)
<1>1. Whole(shares, Ids) /\ Whole(shares, stored[n])
  BY AllWhole DEF NodesSane
<1>2. PICK s : s = stored[n]
  OBVIOUS
<1>3. Ids \cap s = s /\ s \subseteq Ids
  BY <1>2 DEF NodesSane
<1>4. \A i \in s : shares[i] = shares[i] /\ shares[i].uncles \subseteq s
  BY <1>3 DEF SharesSane, Sane
<1>5. PplnsWeights(shares, s, prev) = PplnsWeights(shares, Ids, prev)
  BY <1>1, <1>2, <1>3, <1>4, PayoutsAgree
<1>6. ASSUME NEW timestamp
      PROVE  ExpectedTarget(shares, s, prev, timestamp) = ExpectedTarget(shares, Ids, prev, timestamp)
  BY <1>1, <1>2, <1>3, <1>4, TargetsAgree
<1> QED
  BY <1>2, <1>5, <1>6 DEF Payouts

(* What another node commits to is judged valid by every node that has its parent. *)
LEMMA SaneIsValid ==
  ASSUME SharesSane, NodesSane, Times, NEW n \in Nodes, NEW c, Sane(c),
         c.prev \in stored[n] \cup {Genesis}
  PROVE  /\ \/ Valid(shares, stored[n], c, Clock(n))
            \/ TooFarAhead(n, c)
            \/ ParentWentBack(n, c)
         /\ c.payouts = Payouts(n, c.prev)
<1>1. PICK prev, timestamp : prev = c.prev /\ timestamp = c.timestamp
  OBVIOUS
<1>2. /\ Payouts(n, prev) = PplnsWeights(shares, Ids, prev)
      /\ ExpectedTarget(shares, stored[n], prev, timestamp) = ExpectedTarget(shares, Ids, prev, timestamp)
  BY <1>1, OwnView
<1>3. ~TooFarAhead(n, c) => c.timestamp =< Clock(n) + MaxDrift
  <2>1. Clock(n) \in Int /\ MaxDrift \in Int /\ c.timestamp \in Int
    BY MiningAssumption, TargetAssumption DEF Times, Clock, Sane
  <2> QED
    BY <2>1 DEF TooFarAhead
<1>4. prev # Genesis /\ ~ParentWentBack(n, c) => c.parentHeight >= shares[prev].parentHeight
  <2>1. ASSUME prev # Genesis PROVE c.parentHeight \in Int /\ shares[prev].parentHeight \in Int
    BY <1>1, <2>1 DEF Sane, SharesSane
  <2> QED
    BY <1>1, <2>1 DEF ParentWentBack
<1>5. CASE prev = Genesis
  BY <1>1, <1>2, <1>3, <1>5 DEF Sane, Valid
<1>6. CASE prev # Genesis
  <2>1. ~ParentWentBack(n, c) => ValidChild(shares, stored[n], c)
    BY <1>1, <1>2, <1>4, <1>6 DEF Sane, ValidChild
  <2> QED
    BY <1>1, <1>2, <1>3, <1>6, <2>1 DEF Sane, Valid
<1> QED
  BY <1>5, <1>6

-----------------------------------------------------------------------------
(* The steps *)

(* A sane candidate stays sane while shares are added. *)
LEMMA SaneStays ==
  ASSUME SharesSane, NEW new, Sane(new), shares' = Append(shares, new)
  PROVE  /\ shares' \in Seq(ToSet(shares')) /\ Len(shares') = Len(shares) + 1
         /\ shares'[Len(shares) + 1] = new /\ \A i \in Ids : shares'[i] = shares[i]
         /\ Ids' = Ids \cup {Len(shares) + 1} /\ Len(shares) + 1 \notin Ids
         /\ \A c : Sane(c) => Sane(c)'
<1>1. Len(shares) \in Nat /\ Whole(shares, Ids)
  BY AllWhole
<1>2. PICK M : shares \in Seq(M)
  BY DEF SharesSane
<1>3. /\ Len(shares') = Len(shares) + 1 /\ shares' \in Seq(M \cup {new})
      /\ shares'[Len(shares) + 1] = new /\ \A i \in Ids : shares'[i] = shares[i]
  BY <1>2 DEF Ids
<1>4. Ids' = Ids \cup {Len(shares) + 1} /\ Len(shares) + 1 \notin Ids
  BY <1>1, <1>3 DEF Ids
<1>5. shares' \in Seq(ToSet(shares'))
  BY <1>3 DEF ToSet
<1>6. PICK S, T, one, other : S = shares /\ T = shares' /\ one = Ids /\ other = Ids'
  OBVIOUS
<1>7. one \cap other = one /\ (one \cap other) \cup {Genesis} = Ids \cup {Genesis}
  BY <1>4, <1>6
<1>8. Whole(T, other)
  <2>1. Len(shares) + 1 # Genesis
    BY <1>1 DEF Genesis
  <2> QED
    BY <1>1, <1>3, <1>4, <1>6, <2>1 DEF Whole, Sane
<1>9. \A i \in one \cap other : T[i] = S[i] /\ S[i].uncles \subseteq one \cap other
  BY <1>3, <1>6, <1>7 DEF SharesSane, Sane
<1>10. ASSUME NEW prev \in Ids \cup {Genesis}
       PROVE  PplnsWeights(T, other, prev) = PplnsWeights(S, one, prev)
  <2>1. Whole(S, one) /\ prev \in (one \cap other) \cup {Genesis}
    BY <1>1, <1>6, <1>7
  <2> QED
    BY <1>8, <1>9, <2>1, PayoutsAgree
<1>11. ASSUME NEW prev \in Ids \cup {Genesis}, NEW timestamp
       PROVE  ExpectedTarget(T, other, prev, timestamp) = ExpectedTarget(S, one, prev, timestamp)
  <2>1. \A i \in one \cap other : T[i] = S[i]
    BY <1>9
  <2>2. Whole(S, one) /\ prev \in (one \cap other) \cup {Genesis}
    BY <1>1, <1>6, <1>7
  <2> QED
    BY <1>8, <2>1, <2>2, TargetsAgree
<1>12. ASSUME NEW c, Sane(c) PROVE Sane(c)'
  <2>1. c.prev \in Ids \cup {Genesis} /\ c.prev \in Ids' \cup {Genesis}
    BY <1>4, <1>12 DEF Sane
  <2>2. c.payouts = PplnsWeights(shares', Ids', c.prev)
    BY <1>6, <1>10, <1>12, <2>1 DEF Sane
  <2>3. ExpectedTarget(shares', Ids', c.prev, c.timestamp) = ExpectedTarget(shares, Ids, c.prev, c.timestamp)
    BY <1>6, <1>11, <2>1
  <2>4. c.prev # Genesis => shares'[c.prev] = shares[c.prev]
    BY <1>3, <2>1
  <2> QED
    BY <1>12, <2>1, <2>2, <2>3, <2>4 DEF Sane
<1> QED
  BY <1>3, <1>4, <1>5, <1>12

LEMMA SaneSame ==
  ASSUME UNCHANGED shares
  PROVE  /\ \A c : Sane(c) => Sane(c)'
         /\ SharesSane => SharesSane'
BY DEF Sane, SharesSane, Ids

(* A stamp is a time, and no earlier than any of the times it is taken from. *)
LEMMA StampFacts ==
  ASSUME SharesSane, NodesSane, Times, NEW n \in Nodes
  PROVE  /\ Stamp(n) \in Int
         /\ tip[n] # Genesis => Stamp(n) >= shares[tip[n]].timestamp
<1> DEFINE a == Clock(n)
           b == template[n].curtime
           c == shares[tip[n]].timestamp + 1
<1>1. a \in Int /\ b \in Int
  BY MiningAssumption DEF Times, Clock
<1>2. tip[n] # Genesis => shares[tip[n]].timestamp \in Int
  BY DEF NodesSane, SharesSane, Sane
<1>3. CASE tip[n] = Genesis
  <2>1. Stamp(n) = Max({a, b})
    BY <1>3 DEF Stamp
  <2> HIDE DEF a, b
  <2> QED
    BY <1>1, <1>3, <2>1, MaxOfTwo
<1>4. CASE tip[n] # Genesis
  <2>1. Stamp(n) = Max({a, b, c})
    <3>1. {a, b} \cup {c} = {a, b, c}
      OBVIOUS
    <3> QED
      BY <1>4, <3>1 DEF Stamp
  <2>2. c \in Int /\ c >= shares[tip[n]].timestamp
    BY <1>2, <1>4
  <2> HIDE DEF a, b, c
  <2>3. \E x \in {a, b, c} : \A y \in {a, b, c} : x >= y
    <3>1. a >= b \/ b >= a
      BY <1>1
    <3>2. CASE a >= b
      BY <1>1, <2>2, <3>2, a >= c \/ c >= a
    <3>3. CASE b >= a
      BY <1>1, <2>2, <3>3, b >= c \/ c >= b
    <3> QED
      BY <3>1, <3>2, <3>3
  <2>4. Max({a, b, c}) \in {a, b, c} /\ Max({a, b, c}) >= c
    BY <2>3 DEF Max
  <2> QED
    BY <1>1, <1>2, <1>4, <2>1, <2>2, <2>4
<1> QED
  BY <1>3, <1>4

LEMMA BuildJobStep ==
  ASSUME MiningInv, NEW n \in Nodes, NEW factor \in Factors, BuildJob(n, factor)
  PROVE  MiningInv'
<1> DEFINE target == Max({1, Limit(n) \div factor})
           c == [height |-> IF tip[n] = Genesis THEN 0 ELSE shares[tip[n]].height + 1,
                 prev |-> tip[n], parentHeight |-> template[n].height, timestamp |-> Stamp(n),
                 target |-> target, limit |-> Limit(n), uncles |-> {}, miner |-> n,
                 sound |-> TRUE, payouts |-> Payouts(n, tip[n]), cert |-> CertVersion(n),
                 total |-> Total(tip[n]) + MaxTarget \div target]
<1>1. /\ job' = [job EXCEPT ![n] = c]
      /\ c.height = (IF tip[n] = Genesis THEN 0 ELSE shares[tip[n]].height + 1)
      /\ c.prev = tip[n] /\ c.parentHeight = template[n].height
      /\ c.timestamp = Stamp(n) /\ c.limit = Limit(n) /\ c.uncles = {}
      /\ c.sound = TRUE /\ c.payouts = Payouts(n, tip[n])
  BY DEF BuildJob
<1> HIDE DEF c
<1>2. UNCHANGED <<time, parent, template, shares, stored, tip>>
  BY DEF BuildJob
<1> USE DEF MiningInv
<1>3. tip[n] \in stored[n] \cup {Genesis} /\ tip[n] \in Ids \cup {Genesis}
  BY DEF NodesSane
<1>4. PICK prev, stamp : prev = tip[n] /\ stamp = Stamp(n)
  OBVIOUS
<1>5. /\ Payouts(n, prev) = PplnsWeights(shares, Ids, prev)
      /\ ExpectedTarget(shares, stored[n], prev, stamp) = ExpectedTarget(shares, Ids, prev, stamp)
  BY <1>3, <1>4, OwnView
<1>6. Sane(c)
  <2>1. c.timestamp \in Int /\ c.parentHeight \in Int
    BY <1>1, StampFacts DEF Times
  <2>2. CASE prev = Genesis
    <3>1. ExpectedTarget(shares, stored[n], prev, stamp) = BootstrapTarget
      BY <2>2 DEF ExpectedTarget
    <3>2. BootstrapTarget # NoTarget
      BY TargetAssumption DEF NoTarget
    <3>3. c.limit = BootstrapTarget
      BY <1>1, <1>4, <3>1, <3>2 DEF Limit
    <3> QED
      BY <1>1, <1>3, <1>4, <1>5, <2>1, <2>2, <3>3 DEF Sane, ValidGenesis
  <2>3. CASE prev # Genesis
    <3>1. ExpectedTarget(shares, Ids, prev, stamp) \in {NoTarget, c.limit}
      BY <1>1, <1>4, <1>5 DEF Limit
    <3>2. c.timestamp >= shares[prev].timestamp
      BY <1>1, <1>4, <2>3, StampFacts
    <3> QED
      BY <1>1, <1>3, <1>4, <1>5, <2>1, <2>3, <3>1, <3>2 DEF Sane
  <2> QED
    BY <2>2, <2>3
<1>7. \A k \in Nodes : job'[k] = IF k = n THEN c ELSE job[k]
  BY <1>1
<1>8. SharesSane' /\ \A d : Sane(d) => Sane(d)'
  BY <1>2, SaneSame
<1>9. NodesSane'
  <2>1. ASSUME NEW k \in Nodes
        PROVE  job'[k] # NoJob => Sane(job[k])' /\ job'[k].prev \in stored'[k] \cup {Genesis}
    <3>1. CASE k = n
      <4>1. PICK d : d = c
        OBVIOUS
      <4>2. Sane(d)' /\ job'[k] = c
        BY <1>6, <1>7, <1>8, <3>1, <4>1
      <4>3. Sane(job[k])'
        BY <4>1, <4>2 DEF Sane
      <4> QED
        BY <1>1, <1>2, <1>3, <3>1, <4>2, <4>3
    <3>2. CASE k # n
      <4>1. PICK d : d = job[k]
        OBVIOUS
      <4>2. d # NoJob => Sane(d)' /\ d.prev \in stored'[k] \cup {Genesis}
        BY <1>2, <1>8, <4>1 DEF NodesSane
      <4>3. job'[k] = d
        BY <1>7, <3>2, <4>1
      <4> QED
        BY <4>2, <4>3 DEF Sane
    <3> QED
      BY <3>1, <3>2
  <2> QED
    BY <1>2, <2>1 DEF NodesSane, Whole, Ids
<1> QED
  BY <1>1, <1>2, <1>8, <1>9 DEF Times

(* A node stores a share on top of its chains, a new one or one it was sent. *)
LEMMA AddedStep ==
  ASSUME MiningInv, SharesSane', Ids \subseteq Ids', \A j \in Ids : shares'[j] = shares[j],
         \A c : Sane(c) => Sane(c)', UNCHANGED job, NEW n \in Nodes, NEW i \in Ids',
         shares'[i].prev \in stored[n] \cup {Genesis}, NEW total, Added(n, i, total)
  PROVE  NodesSane' /\ DOMAIN stored' = Nodes /\ DOMAIN tip' = Nodes
<1> USE DEF MiningInv
<1>1. /\ DOMAIN stored' = Nodes /\ DOMAIN tip' = Nodes
      /\ \A k \in Nodes : stored'[k] = stored[k] \cup (IF k = n THEN {i} ELSE {})
      /\ \A k \in Nodes : tip'[k] = tip[k] \/ (k = n /\ tip'[k] = i)
  BY DEF Added
<1>2. ASSUME NEW k \in Nodes
      PROVE  /\ stored'[k] \subseteq Ids' /\ Whole(shares', stored'[k])
             /\ tip'[k] \in stored'[k] \cup {Genesis}
             /\ job'[k] # NoJob => Sane(job[k])' /\ job'[k].prev \in stored'[k] \cup {Genesis}
  <2>1. /\ stored[k] \subseteq Ids /\ Whole(shares, stored[k])
        /\ tip[k] \in stored[k] \cup {Genesis}
        /\ job[k] # NoJob => Sane(job[k]) /\ job[k].prev \in stored[k] \cup {Genesis}
    BY DEF NodesSane
  <2>2. stored'[k] \subseteq Ids' /\ tip'[k] \in stored'[k] \cup {Genesis}
    BY <1>1, <2>1
  <2>3. Whole(shares', stored'[k])
    <3>1. Genesis \notin Ids'
      <4>1. Len(shares') \in Nat
        BY DEF SharesSane
      <4> QED
        BY <4>1 DEF Ids, Genesis
    <3>2. ASSUME NEW j \in stored'[k] PROVE shares'[j].prev \in stored'[k] \cup {Genesis}
      <4>1. CASE j \in stored[k]
        BY <1>1, <2>1, <4>1 DEF Whole
      <4>2. CASE j \notin stored[k]
        BY <1>1, <3>2, <4>2
      <4> QED
        BY <4>1, <4>2
    <3> QED
      BY <2>2, <3>1, <3>2 DEF Whole
  <2>4. job'[k] # NoJob => Sane(job[k])' /\ job'[k].prev \in stored'[k] \cup {Genesis}
    <3>1. PICK d : d = job[k]
      OBVIOUS
    <3>2. d # NoJob => Sane(d)' /\ d.prev \in stored'[k] \cup {Genesis}
      BY <1>1, <2>1, <3>1
    <3>3. job'[k] = d
      BY <3>1
    <3> QED
      BY <3>2, <3>3 DEF Sane
  <2> QED
    BY <2>2, <2>3, <2>4
<1> QED
  BY <1>1, <1>2 DEF NodesSane

LEMMA SubmitStep ==
  ASSUME MiningInv, NEW n \in Nodes, Submit(n)
  PROVE  MiningInv'
<1> USE DEF MiningInv
<1>1. PICK c, i : c = job[n] /\ i = Len(shares) + 1
  OBVIOUS
<1>2. /\ c # NoJob /\ Valid(shares, stored[n], c, Clock(n))
      /\ shares' = Append(shares, c) /\ Added(n, i, c.total)
      /\ UNCHANGED <<time, parent, template, job>>
  BY <1>1 DEF Submit
<1>3. Sane(c) /\ c.prev \in stored[n] \cup {Genesis}
  BY <1>1, <1>2 DEF NodesSane
<1>4. /\ shares' \in Seq(ToSet(shares'))
      /\ shares'[i] = c /\ \A j \in Ids : shares'[j] = shares[j]
      /\ Ids' = Ids \cup {i} /\ i \notin Ids
      /\ \A d : Sane(d) => Sane(d)'
  BY <1>1, <1>2, <1>3, SaneStays
<1>5. c.prev # Genesis => c.parentHeight >= shares[c.prev].parentHeight
  BY <1>2 DEF Valid, ValidChild
<1>6. c.prev \in 0..(i - 1) /\ c.prev \in Ids \cup {Genesis}
  BY <1>1, <1>3, AllWhole DEF Sane, Ids, Genesis
<1>7. SharesSane'
  <2>1. ASSUME NEW j \in Ids'
        PROVE  /\ Sane(shares[j])' /\ shares'[j].prev \in 0..(j - 1)
               /\ shares'[j].prev # Genesis =>
                     shares'[j].parentHeight >= shares'[shares'[j].prev].parentHeight
    <3>1. PICK d : d = shares'[j]
      OBVIOUS
    <3>2. /\ Sane(d) /\ d.prev \in 0..(j - 1) /\ d.prev \in Ids \cup {Genesis}
          /\ d.prev # Genesis => d.parentHeight >= shares[d.prev].parentHeight
      <4>1. CASE j \in Ids
        <5>1. d = shares[j]
          BY <1>4, <3>1, <4>1
        <5> QED
          BY <4>1, <5>1 DEF SharesSane, Sane
      <4>2. CASE j = i
        BY <1>3, <1>4, <1>5, <1>6, <3>1, <4>2
      <4> QED
        BY <1>4, <4>1, <4>2
    <3>3. d.prev # Genesis => shares'[d.prev] = shares[d.prev]
      BY <1>4, <3>2
    <3>4. Sane(d)'
      BY <1>4, <3>2
    <3>5. Sane(shares[j])'
      BY <3>1, <3>4 DEF Sane
    <3> QED
      BY <3>1, <3>2, <3>3, <3>5
  <2> QED
    BY <1>4, <2>1 DEF SharesSane
<1>8. NodesSane' /\ DOMAIN stored' = Nodes /\ DOMAIN tip' = Nodes
  <2>1. Ids \subseteq Ids' /\ i \in Ids' /\ shares'[i].prev \in stored[n] \cup {Genesis}
    BY <1>3, <1>4
  <2>2. UNCHANGED job /\ Added(n, i, c.total)
    BY <1>2
  <2> HIDE DEF MiningInv
  <2> QED
    BY <1>4, <1>7, <2>1, <2>2, AddedStep
<1> QED
  BY <1>2, <1>7, <1>8 DEF Times

LEMMA ReceiveStep ==
  ASSUME MiningInv, NEW n \in Nodes, NEW i, Receive(n, i)
  PROVE  MiningInv'
<1>1. PICK total : total = shares[i].total
  OBVIOUS
<1>2. /\ i \in Ids /\ Valid(shares, stored[n], shares[i], Clock(n)) /\ Added(n, i, total)
      /\ UNCHANGED <<time, parent, template, shares, job>>
  BY <1>1 DEF Receive
<1>3. SharesSane' /\ \A d : Sane(d) => Sane(d)'
  BY <1>2, SaneSame DEF MiningInv
<1>4. i \in Ids' /\ Ids \subseteq Ids' /\ \A j \in Ids : shares'[j] = shares[j]
  BY <1>2 DEF Ids
<1>5. shares'[i].prev \in stored[n] \cup {Genesis}
  BY <1>2 DEF Valid, ValidChild
<1>6. NodesSane' /\ DOMAIN stored' = Nodes /\ DOMAIN tip' = Nodes
  <2>1. UNCHANGED job
    BY <1>2
  <2> QED
    BY <1>2, <1>3, <1>4, <1>5, <2>1, AddedStep
<1> QED
  BY <1>2, <1>3, <1>6 DEF MiningInv, Times

(* Time passes, the parent chain grows, or a node hears of it. *)
LEMMA SurroundingStep ==
  ASSUME MiningInv, UNCHANGED <<shares, stored, tip, job>>, Times', DOMAIN template' = Nodes
  PROVE  MiningInv'
<1>1. SharesSane' /\ \A d : Sane(d) => Sane(d)'
  BY SaneSame DEF MiningInv
<1>2. Ids' = Ids
  BY DEF Ids
<1>3. NodesSane'
  <2>1. ASSUME NEW k \in Nodes
        PROVE  job'[k] # NoJob => Sane(job[k])' /\ job'[k].prev \in stored'[k] \cup {Genesis}
    <3>1. PICK d : d = job[k]
      OBVIOUS
    <3>2. d # NoJob => Sane(d)' /\ d.prev \in stored'[k] \cup {Genesis}
      BY <1>1, <3>1 DEF MiningInv, NodesSane
    <3>3. job'[k] = d
      BY <3>1
    <3> QED
      BY <3>2, <3>3 DEF Sane
  <2> QED
    BY <1>2, <2>1 DEF MiningInv, NodesSane
<1> QED
  BY <1>1, <1>3 DEF MiningInv

LEMMA StepKeeps == MiningInv /\ [Next]_vars => MiningInv'
<1> SUFFICES ASSUME MiningInv, [Next]_vars PROVE MiningInv'
  OBVIOUS
<1>1. ASSUME Tick PROVE MiningInv'
  <2>1. Times' /\ DOMAIN template' = Nodes /\ UNCHANGED <<shares, stored, tip, job>>
    BY <1>1 DEF Tick, MiningInv, Times
  <2> QED
    BY <2>1, SurroundingStep
<1>2. ASSUME ParentAdvances PROVE MiningInv'
  <2>1. Times' /\ DOMAIN template' = Nodes /\ UNCHANGED <<shares, stored, tip, job>>
    BY <1>2 DEF ParentAdvances, MiningInv, Times
  <2> QED
    BY <2>1, SurroundingStep
<1>3. ASSUME NEW n \in Nodes, NEW height, NEW lead \in Leads, Poll(n, height, lead)
      PROVE  MiningInv'
  <2>1. height \in Int /\ time + lead \in Int
    BY <1>3, MiningAssumption DEF Poll, MiningInv, Times
  <2>2. PICK t : t = [height |-> height, curtime |-> time + lead]
    OBVIOUS
  <2>3. t.height \in Int /\ t.curtime \in Int
    BY <2>1, <2>2
  <2>4. template' = [template EXCEPT ![n] = t] /\ UNCHANGED <<time, parent, shares, stored, tip, job>>
    BY <1>3, <2>2 DEF Poll
  <2>5. Times' /\ DOMAIN template' = Nodes
    BY <2>3, <2>4 DEF MiningInv, Times
  <2> QED
    BY <2>4, <2>5, SurroundingStep
<1>4. CASE UNCHANGED vars
  <2>1. Times' /\ DOMAIN template' = Nodes /\ UNCHANGED <<shares, stored, tip, job>>
    BY <1>4 DEF vars, MiningInv, Times
  <2> QED
    BY <2>1, SurroundingStep
<1> QED
  BY <1>1, <1>2, <1>3, <1>4, BuildJobStep, SubmitStep, ReceiveStep DEF Next

LEMMA InitSane == Init => MiningInv
<1> SUFFICES ASSUME Init PROVE MiningInv
  OBVIOUS
<1>1. shares = << >> /\ Ids = {} /\ shares \in Seq(ToSet(shares))
  BY DEF Init, Ids
<1>2. SharesSane
  BY <1>1 DEF SharesSane
<1>3. NodesSane
  BY <1>1 DEF Init, NodesSane, Whole
<1>4. Times /\ DOMAIN template = Nodes /\ DOMAIN stored = Nodes /\ DOMAIN tip = Nodes /\ DOMAIN job = Nodes
  BY DEF Init, Times
<1> QED
  BY <1>2, <1>3, <1>4 DEF MiningInv

-----------------------------------------------------------------------------
(* The theorems *)

(***************************************************************************)
(* Every job and every accepted share commits to what the whole history    *)
(* below it gives (build_job_for, _run_submit_validation, verify_incoming).*)
(***************************************************************************)
THEOREM MiningInvariance == Spec => []MiningInv
<1>1. Init => MiningInv
  BY InitSane
<1>2. MiningInv /\ [Next]_vars => MiningInv'
  BY StepKeeps
<1> QED
  BY <1>1, <1>2, PTL DEF Spec

(***************************************************************************)
(* A node accepts the answer to every job it has handed out, whatever it   *)
(* has stored since, unless the stamp is ahead of its clock or it lags     *)
(* behind the parent chain of the finder of the tip (build_job_for,        *)
(* _validate).                                                             *)
(***************************************************************************)
THEOREM JobsCorrect == Spec => []JobsStayValid
<1>1. MiningInv => JobsStayValid
  <2> SUFFICES ASSUME MiningInv, NEW n \in Nodes, job[n] # NoJob
               PROVE  \/ Valid(shares, stored[n], job[n], Clock(n))
                      \/ TooFarAhead(n, job[n])
                      \/ ParentWentBack(n, job[n])
    BY DEF JobsStayValid
  <2>1. Sane(job[n]) /\ job[n].prev \in stored[n] \cup {Genesis}
    BY DEF MiningInv, NodesSane
  <2> QED
    BY <2>1, SaneIsValid DEF MiningInv
<1> QED
  BY <1>1, MiningInvariance, PTL

(***************************************************************************)
(* A share that its finder has accepted is accepted by every node that has *)
(* its parent, unless their clocks or certificate versions differ: limits  *)
(* and payouts that finder and judge work out for themselves are the same  *)
(* (expected_target, pplns_weights, verify_incoming).                      *)
(***************************************************************************)
THEOREM PeersCorrect == Spec => []PeersAgree
<1>1. MiningInv => PeersAgree
  <2> SUFFICES ASSUME MiningInv, NEW n \in Nodes, NEW i \in Ids \ stored[n],
                      shares[i].prev \in stored[n] \cup {Genesis}
               PROVE  \/ Valid(shares, stored[n], shares[i], Clock(n)) /\ VerifyIncoming(n, shares[i])
                      \/ TooFarAhead(n, shares[i])
                      \/ shares[i].cert # CertVersion(n)
    BY DEF PeersAgree
  <2>1. PICK c : c = shares[i]
    OBVIOUS
  <2>2. Sane(c) /\ c.prev \in stored[n] \cup {Genesis}
    BY <2>1 DEF MiningInv, SharesSane
  <2>3. ~ParentWentBack(n, c)
    <3>1. ASSUME c.prev # Genesis
          PROVE  ~(c.parentHeight < shares[c.prev].parentHeight)
      <4>1. c.parentHeight >= shares[c.prev].parentHeight /\ c.parentHeight \in Int
            /\ shares[c.prev].parentHeight \in Int
        BY <2>1, <2>2, <3>1 DEF MiningInv, SharesSane, Sane
      <4> QED
        BY <4>1
    <3> QED
      BY <3>1 DEF ParentWentBack
  <2>4. /\ Valid(shares, stored[n], c, Clock(n)) \/ TooFarAhead(n, c)
        /\ c.payouts = Payouts(n, c.prev)
    BY <2>2, <2>3, SaneIsValid DEF MiningInv
  <2> QED
    BY <2>1, <2>4 DEF VerifyIncoming
<1> QED
  BY <1>1, MiningInvariance, PTL
=============================================================================
