----------------------------- MODULE Sharechain -----------------------------
(***************************************************************************)
(* One node's sharechain: the store of accepted shares, the choice of the  *)
(* best tip, and pruning.  The only operation that changes it is add_share,*)
(* offered here every share a peer or a local miner could produce: new     *)
(* ones, ones it already stores, and ones it has accepted and pruned.      *)
(***************************************************************************)
EXTENDS ShareRules

CONSTANTS
    MaxShares,      \* bound: shares ever accepted
    MaxGenesis,     \* bound: shares without a parent ever accepted
    MaxReorg,       \* bound: an offered share's parent is at most this far below the highest tip
    Timestamps,     \* bound: stamps an offered share may carry
    ParentHeights,  \* bound: parent-chain heights a share may be mined for
    Limits,         \* bound: target limits an offered share may carry
    Factors,        \* bound: how many times harder than its limit a share is mined
    MaxUncles,      \* bound: uncles an offered share names
    Clocks          \* bound: readings of the node's wall clock

ASSUME BoundAssumption ==
    /\ MaxShares \in Nat /\ MaxGenesis \in Nat /\ MaxReorg \in Nat /\ MaxUncles \in Nat
    /\ Timestamps \subseteq Int /\ Clocks \subseteq Int
    /\ ParentHeights \subseteq Nat
    /\ Limits \subseteq 1..MaxTarget
    /\ Factors \subseteq Nat \ {0}

VARIABLES
    shares,      \* every share accepted so far, in order; share i has identifier i
    cumulative,  \* _entries: cumulative difficulty of each share that is stored
    bestTip,     \* _best_tip, NoTip before the first share
    peak         \* history: the largest height a best tip has had, -1 before the first

vars == <<shares, cumulative, bestTip, peak>>

NoTip == 0

Ids == 1..Len(shares)
stored == DOMAIN cumulative

Height(tip) == IF tip = NoTip THEN -1 ELSE shares[tip].height

-----------------------------------------------------------------------------
(* The operation *)

(* Faults: no room for a reorganisation, or none for the uncles *)
RetentionWindowOnly == Window
RetentionWithoutUncles == 2 * Window

(* How many heights below the best tip are kept *)
Retention == 2 * Window + UncleDepth

(* Fault: one height too many is pruned *)
KeptAboveCutoff(S, ids, height) ==
    LET cutoff == height - Retention
    IN  IF cutoff =< 0 THEN ids ELSE {i \in ids : S[i].height > cutoff}

(* The stored shares that survive pruning when the best tip is at `height' *)
Kept(S, ids, height) ==
    LET cutoff == height - Retention
    IN  IF cutoff =< 0 THEN ids ELSE {i \in ids : S[i].height >= cutoff}

(* Fault: the first share of a chain counts for nothing *)
CumulativeFromZero(c) ==
    IF c.prev = Genesis THEN 0 ELSE cumulative[c.prev] + AddedWork(shares, c)

(* The cumulative difficulty of share c on top of its parent *)
CumulativeOf(c) ==
    IF c.prev = Genesis THEN Difficulty(c) ELSE cumulative[c.prev] + AddedWork(shares, c)

(* Faults: the longest chain wins, or the last seen of the heaviest *)
BecomesBestByHeight(c) == c.height > Height(bestTip)
BecomesBestOnTie(c) == bestTip = NoTip \/ CumulativeOf(c) >= cumulative[bestTip]

(* A share becomes the best tip only with strictly more work behind it *)
BecomesBest(c) == bestTip = NoTip \/ CumulativeOf(c) > cumulative[bestTip]

(***************************************************************************)
(* The insertion that ends add_share, for a share that passed _validate:   *)
(* store it, and when it is the new best tip, prune below the horizon.     *)
(***************************************************************************)
Insert(id, c) ==
    LET entries == [i \in stored \cup {id} |-> IF i = id THEN CumulativeOf(c) ELSE cumulative[i]]
        all == IF id \in Ids THEN shares ELSE Append(shares, c)
    IN  /\ shares' = all
        /\ IF BecomesBest(c)
           THEN /\ bestTip' = id
                /\ cumulative' = [i \in Kept(all, DOMAIN entries, c.height) |-> entries[i]]
                /\ peak' = Max({peak, c.height})
           ELSE /\ cumulative' = entries
                /\ UNCHANGED <<bestTip, peak>>

(* A refusal ("duplicate", "orphan", a broken rule) changes nothing *)
AddShare(id, c, now) ==
    IF id \notin stored /\ Valid(shares, stored, c, now)
    THEN Insert(id, c)
    ELSE UNCHANGED vars

-----------------------------------------------------------------------------
(* What is offered *)

(***************************************************************************)
(* The shares a miner or a peer can make on a recent enough parent, which  *)
(* the node may have pruned: the height and the limit may be wrong, the    *)
(* target is the limit made harder by the miner's own factor, the rest of  *)
(* the record may break any rule.                                          *)
(***************************************************************************)
Parents ==
    {i \in Ids : shares[i].height >= peak - MaxReorg}
    \cup IF Cardinality({i \in Ids : shares[i].prev = Genesis}) < MaxGenesis
         THEN {Genesis} ELSE {}

Drafts ==
    [prev : Parents, skipped : {0, 1}, parentHeight : ParentHeights, timestamp : Timestamps,
     limit : Limits, factor : Factors, uncles : {us \in SUBSET Ids : Cardinality(us) =< MaxUncles},
     miner : Miners, sound : BOOLEAN]

MakeShare(d) ==
    [height |-> d.skipped + IF d.prev = Genesis THEN 0 ELSE shares[d.prev].height + 1,
     prev |-> d.prev, parentHeight |-> d.parentHeight, timestamp |-> d.timestamp,
     target |-> Max({1, d.limit \div d.factor}), limit |-> d.limit,
     uncles |-> d.uncles, miner |-> d.miner, sound |-> d.sound]

Candidates == {MakeShare(d) : d \in Drafts}

(* A share the node has never accepted *)
AddFreshShare(c, now) ==
    /\ Len(shares) < MaxShares
    /\ AddShare(Len(shares) + 1, c, now)

(* A share it accepted before: stored (a duplicate), or pruned since *)
AddKnownShare(id, now) == AddShare(id, shares[id], now)

Init ==
    /\ shares = << >>
    /\ cumulative = << >>
    /\ bestTip = NoTip
    /\ peak = -1

Next ==
    \E now \in Clocks :
        \/ \E c \in Candidates : AddFreshShare(c, now)
        \/ \E id \in Ids : AddKnownShare(id, now)

Spec == Init /\ [][Next]_vars

-----------------------------------------------------------------------------
(* Properties *)

(* Every variable has the type the code gives it *)
TypeOK ==
    /\ shares \in Seq(Share)
    /\ stored \subseteq Ids
    /\ cumulative \in [stored -> Nat \ {0}]
    /\ bestTip \in Ids \cup {NoTip}
    /\ peak \in Nat \cup {-1}

(***************************************************************************)
(* The best tip is always a stored share, and no stored share has more     *)
(* work behind it, whatever order forks arrive in and whatever is pruned.  *)
(***************************************************************************)
BestTipIsHeaviest ==
    stored # {} => /\ bestTip \in stored
                   /\ \A i \in stored : cumulative[i] =< cumulative[bestTip]

(***************************************************************************)
(* Pruning never reaches above the retention horizon of the highest tip    *)
(* the node has had, even when a reorganisation to a shorter but heavier   *)
(* branch lowers the tip and later shares raise it again.                  *)
(***************************************************************************)
HorizonKept == \A i \in Ids : shares[i].height >= peak - Retention => i \in stored

(***************************************************************************)
(* After any reorganisation of up to a full window the payout weights as   *)
(* of the new tip are those a node that prunes nothing would compute: the  *)
(* claim of the comment above `_retention'.                                *)
(***************************************************************************)
ReorgSeesFullWindow ==
    \A i \in Ids : shares[i].height >= peak - Window =>
        PplnsWeights(shares, stored, i) = PplnsWeights(shares, Ids, i)

(***************************************************************************)
(* A share that extends the chain anywhere in the last window gets the     *)
(* same verdict from this node as from one that prunes nothing: target,    *)
(* uncle and linkage rules never look below the horizon.                   *)
(***************************************************************************)
VerdictUnaffectedByPruning ==
    \A c \in Candidates, now \in Clocks :
        c.prev # Genesis /\ shares[c.prev].height >= peak - Window =>
            (Valid(shares, stored, c, now) <=> Valid(shares, Ids, c, now))

(* The shares on the chain that ends in `tip', in the unpruned history *)
ChainOf(tip) == ToSet(WalkBack(shares, Ids, tip, MaxShares))

(***************************************************************************)
(* On no chain is a share's work credited twice: two shares of one chain   *)
(* never name the same uncle, and never name a share of the chain itself.  *)
(***************************************************************************)
WorkCreditedOnce ==
    \A tip \in Ids :
        LET chain == ChainOf(tip)
        IN  \A i, j \in chain :
                /\ shares[i].uncles \cap chain = {}
                /\ i # j => shares[i].uncles \cap shares[j].uncles = {}
=============================================================================
