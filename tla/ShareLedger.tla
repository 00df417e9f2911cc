----------------------------- MODULE ShareLedger ----------------------------
(***************************************************************************)
(* What a sharechain promises, with no store, no pruning and no            *)
(* incremental bookkeeping: a history of accepted shares, each of them     *)
(* valid in the whole history before it, and a tip that is at every moment *)
(* the earliest of the shares with the most total work.                    *)
(***************************************************************************)
EXTENDS ShareRules

CONSTANT Clocks   \* readings of the clock at which a share may be judged

VARIABLES
    shares,   \* the accepted shares, in order
    tip       \* the share new work builds on, 0 while there is none

(* The work behind each share: its own, its uncles' and its ancestors' *)
TotalWork(S) ==
    LET work[i \in 0..Len(S)] == IF i = 0 THEN 0 ELSE work[S[i].prev] + AddedWork(S, S[i])
    IN  work

FirstHeaviest(S) ==
    CHOOSE i \in DOMAIN S :
        \A j \in DOMAIN S \ {i} :
            TotalWork(S)[j] < TotalWork(S)[i] + (IF i < j THEN 1 ELSE 0)

Accept(c, now) ==
    /\ Valid(shares, DOMAIN shares, c, now)
    /\ shares' = Append(shares, c)
    /\ tip' = FirstHeaviest(shares')

Init == shares = << >> /\ tip = 0

Next == shares' # shares /\ \E now \in Clocks : Accept(Last(shares'), now)

Spec == Init /\ [][Next]_<<shares, tip>>
=============================================================================
