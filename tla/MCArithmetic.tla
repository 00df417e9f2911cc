---------------------------- MODULE MCArithmetic ----------------------------
(***************************************************************************)
(* The parts of the program that compute by themselves, each over its own  *)
(* inputs and while the others rest: a reward is split, a proof is graded, *)
(* a worker's difficulty is tuned, a connection's requests are counted.    *)
(***************************************************************************)
EXTENDS Pplns

CONSTANTS
    MaxBytes,  \* the bytes of the largest target
    Targets,   \* bound: share targets of jobs
    Offsets,   \* bound: how far a hash lies from its target
    TargetSeconds, FirstFactor, MaxFactor, Paces, MaxAhead, Lucks, MaxLucky,
    Kinds, Limit, WindowSize, HardStrikes, MaxMessages, MaxClock

ASSUME TuningAssumption ==
    /\ {TargetSeconds, FirstFactor, MaxFactor, MaxAhead} \subseteq Nat \ {0}
    /\ Paces \cup Lucks \subseteq Nat \ {0}

ASSUME GateAssumption ==
    /\ WindowSize \in Nat \ {0}
    /\ Limit \in [Kinds -> Nat \ {0}]
    /\ "free" \notin Kinds

VARIABLES
    part,      \* which of them runs
    target, hash, verdict,
    pace, started, ewma, factor, jobs, worked, lucky,
    clock, buckets, strikes, open, log

Grading == INSTANCE ShareGrade
Tuning == INSTANCE Vardiff
Gate == INSTANCE RateGate

ASSUME GradeAssumption ==
    /\ MaxBytes \in Nat \ {0}
    /\ \A t \in Targets : t \in Nat \ {0} /\ t \div Grading!Place[MaxBytes - 1] < 256
    /\ Offsets \subseteq Int

grading == <<target, hash, verdict>>
tuning == <<pace, started, ewma, factor, jobs, worked, lucky>>
gate == <<clock, buckets, strikes, open, log>>
all == <<vars, part, grading, tuning, gate>>

(* Targets around every power of two, where the length of the mantissa and *)
(* its sign bit change.                                                    *)
EdgeTargets ==
    {t \in UNION {{2^k - 1, 2^k, 2^k + 1, 2^k + 2^(k - 1) + 3, 2^k + (2^k - 1)} : k \in 1..29} : t > 0}

NearOffsets == -3..3 \cup {s * 2^k : s \in {-1, 1}, k \in 2..24}

OneHello == [kind \in Kinds |-> IF kind = "hello" THEN 1 ELSE 2]

NoSplit ==
    /\ reward = 0 /\ minimum = 0 /\ weight = [a \in Addresses |-> 0]
    /\ survivors = {} /\ payouts = [a \in {} |-> 0] /\ phase = "paid"
NoProof == target = 1 /\ hash = 0 /\ verdict = "share"
NoWorker == Tuning!Init /\ pace = TargetSeconds \div FirstFactor

AnyInit ==
    /\ part \in {"split", "grade", "tune", "gate"}
    /\ IF part = "split" THEN Init ELSE NoSplit
    /\ IF part = "grade" THEN Grading!Init ELSE NoProof
    /\ IF part = "tune" THEN Tuning!Init ELSE NoWorker
    /\ Gate!Init

AnyNext ==
    \/ part = "split" /\ Next /\ UNCHANGED <<part, grading, tuning, gate>>
    \/ part = "grade" /\ Grading!Next /\ UNCHANGED <<part, vars, tuning, gate>>
    \/ part = "tune" /\ Tuning!Next /\ UNCHANGED <<part, vars, grading, gate>>
    \/ part = "gate" /\ Gate!Next /\ UNCHANGED <<part, vars, grading, tuning>>

AnySpec ==
    /\ AnyInit /\ [][AnyNext]_all
    /\ WF_all(part = "tune" /\ Tuning!Deliver /\ UNCHANGED <<part, vars, grading, gate>>)
    /\ WF_all(part = "tune" /\ Tuning!Mint /\ UNCHANGED <<part, vars, grading, gate>>)

(* The compact target is never easier than the job's. *)
CreditIsEarned == Grading!CreditIsEarned

(* It is harder by the bits that the compact form has no room for only. *)
RefusalIsMarginal == Grading!RefusalIsMarginal

(* A worker of constant pace ends up with a factor that suits it. *)
FactorSettles == Tuning!FactorSettles

(* Each job that may be ahead doubles the wait once, and no more. *)
OvershootIsBounded == Tuning!OvershootIsBounded

(* Requests within the limits are answered. *)
IgnoredOnlyOverLimit == Gate!IgnoredOnlyOverLimit

(* Less than twice the limit is served within the length of a window. *)
ServedLessThanTwice == Gate!ServedLessThanTwice
=============================================================================
