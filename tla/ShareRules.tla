----------------------------- MODULE ShareRules -----------------------------
(***************************************************************************)
(* The consensus rules of the sharechain, as pure operators: what makes a  *)
(* share acceptable, how much work a chain carries, which target the next  *)
(* share must respect, and how a window of shares is turned into payout    *)
(* weights.  Every node of the pool must compute identical values, so the  *)
(* modules that model one node (Sharechain) and many (Gossip) share them.  *)
(*                                                                         *)
(* A share is known by a number.  S is the sequence of every share whose   *)
(* identifier is in use, S[i] the content that the code hashes into the    *)
(* identifier of share i, and `stored' the set of identifiers that a node  *)
(* has in its `_entries'.  Shares the code compares only for identity      *)
(* (parent block, coinbase version, nbits, payout set) are not data here:  *)
(* two shares with the same record and different numbers differ in those.  *)
(***************************************************************************)
EXTENDS Integers, Sequences, FiniteSets, FiniteSetsExt, SequencesExt

CONSTANTS
    Window,               \* main-chain shares in the PPLNS window
    UncleDepth,           \* how many heights back an uncle may lie
    UnclePenaltyPercent,  \* what an uncle loses of its weight
    BootstrapTarget,      \* target limit of a genesis share
    ShareTime,            \* seconds per share the retarget aims at
    RetargetWindow,       \* shares the work rate is measured over
    RetargetClamp,        \* largest move of the target limit in one share
    MaxTarget,            \* the easiest target: difficulty 1
    MaxDrift,             \* how far ahead of the clock a share may be stamped
    Miners                \* payout addresses

ASSUME WindowAssumption == Window \in Nat \ {0} /\ UncleDepth \in Nat

ASSUME TargetAssumption ==
    /\ MaxTarget \in Nat \ {0}
    /\ BootstrapTarget \in 1..MaxTarget
    /\ RetargetWindow \in Nat \ {0}
    /\ RetargetClamp \in Nat \ {0}
    /\ ShareTime \in Nat
    /\ MaxDrift \in Nat
    /\ UnclePenaltyPercent \in 0..100

(***************************************************************************)
(* The work rate is measured over no more shares than are kept below a     *)
(* share at the bottom of the window.  config.py: 60 against 1000 + 3.     *)
(***************************************************************************)
ASSUME RetargetReachAssumption == RetargetWindow =< Window + UncleDepth + 1

Genesis == 0    \* GENESIS_PREV: the predecessor of a share that has no parent

(***************************************************************************)
(* What a share commits to.  `target' is the threshold it was mined at and *)
(* `limit' the easiest threshold consensus allows there; ShareBlock does   *)
(* not construct a share whose target is easier than its limit.  `sound'   *)
(* stands for the checks that read the share alone: the version, the       *)
(* coinbase value (the subsidy at parentHeight), no uncle named twice, and *)
(* the caller's word that the proof of work was verified.                  *)
(***************************************************************************)
Share == [height : Nat, prev : Nat, parentHeight : Nat, timestamp : Int,
          target : 1..MaxTarget, limit : 1..MaxTarget,
          uncles : SUBSET (Nat \ {0}), miner : Miners, sound : BOOLEAN]

Difficulty(c) == MaxTarget \div c.target

-----------------------------------------------------------------------------
(* Walking back from a share *)

(***************************************************************************)
(* The first `limit' shares found by following `prev' from `start', newest *)
(* first.  The walk ends early at a genesis share or at a share the node   *)
(* does not store.                                                         *)
(***************************************************************************)
WalkBack(S, stored, start, limit) ==
    LET walk[n \in 0..limit] ==
          IF n = 0 THEN << >>
          ELSE LET w    == walk[n - 1]
                   next == IF n = 1 THEN start ELSE S[Last(w)].prev
               IN  IF Len(w) = n - 1 /\ next \in stored THEN Append(w, next) ELSE w
    IN  walk[limit]

ReachesGenesis(S, w) == w # << >> /\ S[Last(w)].prev = Genesis

WorkOf(S, ids) == MapThenSumSet(LAMBDA i : Difficulty(S[i]), ids)

-----------------------------------------------------------------------------
(* The target limit of the next share *)

(***************************************************************************)
(* retarget_target: the limit that makes the measured work rate produce    *)
(* one share per ShareTime, moved at most RetargetClamp-fold.  All of it   *)
(* in integers, since every node must find the same value.                 *)
(***************************************************************************)
RetargetTarget(limit, work, span) ==
    LET nextDifficulty == Max({1, (work * ShareTime) \div Max({1, span})})
        lo == Max({1, limit \div RetargetClamp})
        hi == Min({MaxTarget, limit * RetargetClamp})
    IN  IF work =< 0 THEN limit ELSE Max({lo, Min({hi, MaxTarget \div nextDifficulty})})

NoTarget == 0   \* expected_target returns None: the history is too short

(***************************************************************************)
(* expected_target: the limit a share stamped `timestamp' must carry on    *)
(* top of `prev'.  None (NoTarget) when the look-back meets a share that   *)
(* is not stored before it has RetargetWindow shares or a genesis share.   *)
(***************************************************************************)
ExpectedTarget(S, stored, prev, timestamp) ==
    LET w == WalkBack(S, stored, prev, RetargetWindow)
    IN  CASE prev = Genesis -> BootstrapTarget
          [] prev # Genesis /\ Len(w) < RetargetWindow /\ ~ReachesGenesis(S, w) -> NoTarget
          [] OTHER -> RetargetTarget(S[prev].limit, WorkOf(S, ToSet(w)),
                                     timestamp - S[Last(w)].timestamp)

-----------------------------------------------------------------------------
(* Acceptance *)

(***************************************************************************)
(* _recent with the limit _validate passes: the last UncleDepth + 1 main-  *)
(* chain shares below the candidate.                                       *)
(***************************************************************************)
Recent(S, stored, prev) == ToSet(WalkBack(S, stored, prev, UncleDepth + 1))

(* Fault: an uncle that a recent ancestor has credited is credited again *)
ValidUncleTwice(S, stored, c, u) ==
    LET ancestors == Recent(S, stored, c.prev)
    IN  /\ u \in stored \ ancestors
        /\ S[u].height \in (c.height - UncleDepth)..(c.height - 1)
        /\ S[u].prev \in ancestors

(***************************************************************************)
(* The rules an uncle must meet: known, off the candidate's own chain, not *)
(* yet credited by a recent ancestor, at most UncleDepth heights back, and *)
(* a child of a recent ancestor.                                           *)
(***************************************************************************)
ValidUncle(S, stored, c, u) ==
    LET ancestors == Recent(S, stored, c.prev)
    IN  /\ u \in stored \ ancestors
        /\ \A a \in ancestors : u \notin S[a].uncles
        /\ S[u].height \in (c.height - UncleDepth)..(c.height - 1)
        /\ S[u].prev \in ancestors

ValidGenesis(c) ==
    /\ c.height = 0
    /\ c.uncles = {}
    /\ c.limit = BootstrapTarget

(***************************************************************************)
(* The rules for a share with a parent.  A limit that cannot be derived    *)
(* from the stored history is not checked.                                 *)
(***************************************************************************)
ValidChild(S, stored, c) ==
    /\ c.prev \in stored
    /\ c.height = S[c.prev].height + 1
    /\ c.timestamp >= S[c.prev].timestamp
    /\ c.parentHeight >= S[c.prev].parentHeight
    /\ ExpectedTarget(S, stored, c.prev, c.timestamp) \in {NoTarget, c.limit}
    /\ \A u \in c.uncles : ValidUncle(S, stored, c, u)

(* _validate, for a share that is not stored yet, at the node's time `now' *)
Valid(S, stored, c, now) ==
    /\ c.sound
    /\ c.timestamp =< now + MaxDrift
    /\ IF c.prev = Genesis THEN ValidGenesis(c) ELSE ValidChild(S, stored, c)

-----------------------------------------------------------------------------
(* Work and payout weights *)

(* The work a share adds to its parent's cumulative difficulty *)
AddedWork(S, c) == Difficulty(c) + WorkOf(S, c.uncles)

UncleWeight(difficulty) == (difficulty * (100 - UnclePenaltyPercent)) \div 100

UncleWork(S, ids) == MapThenSumSet(LAMBDA u : UncleWeight(Difficulty(S[u])), ids)

(***************************************************************************)
(* pplns_weights as of share `tip': each miner's work over the last Window *)
(* shares of that chain, with every uncle those shares name counted once,  *)
(* at a penalty.                                                           *)
(***************************************************************************)
UnclesOf(S, ids) == UNION {S[i].uncles : i \in ids}

WindowWeights(S, main, uncles) ==
    [m \in Miners |->
        WorkOf(S, {i \in main : S[i].miner = m})
        + UncleWork(S, {u \in uncles : S[u].miner = m})]

PplnsWeights(S, stored, tip) ==
    LET main == ToSet(WalkBack(S, stored, tip, Window))
    IN  WindowWeights(S, main, UnclesOf(S, main) \cap stored)
=============================================================================
