------------------------------- MODULE Pplns --------------------------------
(***************************************************************************)
(* compute_pplns_payouts: how a block reward is split over the weights of  *)
(* the window.  The loop that drops the miners below the minimum is one    *)
(* action per turn, so that the largest set in which everyone clears the   *)
(* minimum, the reference, can be compared with the one it ends with.      *)
(***************************************************************************)
EXTENDS Integers, FiniteSets, FiniteSetsExt

CONSTANTS
    Addresses,    \* payout addresses, numbers in their sorting order
    Rewards,      \* bound: coinbase values
    Minimums,     \* bound: minimum payouts
    Weights       \* bound: summed share weights

ASSUME PplnsAssumption ==
    /\ Addresses \subseteq Nat /\ IsFiniteSet(Addresses)
    /\ Rewards \cup Minimums \cup Weights \subseteq Nat

VARIABLES
    reward,       \* block_reward_grains
    minimum,      \* min_payout_grains
    weight,       \* the weight of each address
    survivors,    \* the addresses not dropped so far
    payouts,      \* grains per address paid, once the loop has ended
    phase         \* drop or paid

vars == <<reward, minimum, weight, survivors, payouts, phase>>

TotalOf(set) == MapThenSumSet(LAMBDA a : weight[a], set)
GrainsOf(a, set) == (reward * weight[a]) \div TotalOf(set)

(* a comes before b in the order of payment *)
Before(a, b) == weight[a] > weight[b] \/ (weight[a] = weight[b] /\ a < b)

Positive == {a \in Addresses : weight[a] > 0}

(* b stays longer than a: of equal weights the greater address does *)
Outlives(b, a) == weight[b] > weight[a] \/ (weight[b] = weight[a] /\ b > a)

(* The next survivor to be dropped *)
Worst(set) == CHOOSE a \in set : \A b \in set \ {a} : Outlives(b, a)

(* The first and the last in the order of payment *)
FirstOf(set) == CHOOSE a \in set : \A b \in set \ {a} : Before(a, b)
LastOf(set) == CHOOSE a \in set : \A b \in set \ {a} : Before(b, a)

(* The loop goes on while the smallest is below the minimum *)
MustDrop ==
    /\ reward > 0 /\ Cardinality(survivors) > 1
    /\ GrainsOf(Worst(survivors), survivors) < minimum

(* Fault: everyone below the minimum goes at once *)
DropAllBelow ==
    LET below == {a \in survivors : GrainsOf(a, survivors) < minimum}
    IN  /\ phase = "drop" /\ MustDrop
        /\ survivors' = IF below = survivors THEN {FirstOf(survivors)} ELSE survivors \ below
        /\ UNCHANGED <<reward, minimum, weight, payouts, phase>>

(* A turn of the loop *)
DropWorst ==
    /\ phase = "drop" /\ MustDrop
    /\ survivors' = survivors \ {Worst(survivors)}
    /\ UNCHANGED <<reward, minimum, weight, payouts, phase>>

(* Fault: the remainder of the division is burnt *)
SplitWithoutRemainder(set) == [a \in set |-> GrainsOf(a, set)]

(* Fault: every part but the last is rounded up *)
SplitRoundedUp(set) ==
    LET last == LastOf(set)
        others == MapThenSumSet(LAMBDA a : GrainsOf(a, set) + 1, set \ {last})
    IN  [a \in set |-> IF a = last THEN reward - others ELSE GrainsOf(a, set) + 1]

(* Everyone's part rounded down, and the remainder to the last *)
Split(set) ==
    LET last == LastOf(set)
        others == MapThenSumSet(LAMBDA a : GrainsOf(a, set), set \ {last})
    IN  [a \in set |-> IF a = last THEN reward - others ELSE GrainsOf(a, set)]

(* A reward too small for anyone goes to the largest weight *)
Paid(set) ==
    IF GrainsOf(FirstOf(set), set) < minimum
    THEN [a \in {FirstOf(set)} |-> reward]
    ELSE Split(set)

Pay ==
    /\ phase = "drop" /\ ~MustDrop
    /\ payouts' = IF survivors = {} \/ reward = 0 THEN [a \in {} |-> 0] ELSE Paid(survivors)
    /\ phase' = "paid"
    /\ UNCHANGED <<reward, minimum, weight, survivors>>

Init ==
    /\ reward \in Rewards /\ minimum \in Minimums
    /\ weight \in [Addresses -> Weights]
    /\ survivors = Positive
    /\ payouts = [a \in {} |-> 0]
    /\ phase = "drop"

Next == DropWorst \/ Pay

Spec == Init /\ [][Next]_vars

-----------------------------------------------------------------------------
(* Properties *)

(* The payouts add up to the reward, unless there is nobody to pay. *)
PaysExactly ==
    phase = "paid" /\ Positive # {}
    => MapThenSumSet(LAMBDA a : payouts[a], DOMAIN payouts) = reward

(***************************************************************************)
(* The reference: the heaviest n addresses, for the largest n for which    *)
(* each of them clears the minimum, or the heaviest alone.                 *)
(***************************************************************************)
Heaviest(n) == {a \in Positive : Cardinality({b \in Positive : Outlives(b, a)}) < n}
Clears(set) == \A a \in set : GrainsOf(a, set) >= minimum
LargestClearing ==
    LET sizes == {n \in 2..Cardinality(Positive) : Clears(Heaviest(n))}
    IN  IF sizes = {} THEN Heaviest(1) ELSE Heaviest(Max(sizes))

(* The loop ends with the reference set: nobody who could be paid is dropped. *)
NobodyDroppedInVain ==
    phase = "paid" /\ reward > 0 /\ Positive # {} => survivors = LargestClearing

(* Who is paid gets no less than the whole window's division would give. *)
PaidInProportion ==
    \A a \in DOMAIN payouts : payouts[a] >= GrainsOf(a, Positive)
=============================================================================
