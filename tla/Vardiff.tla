------------------------------ MODULE Vardiff -------------------------------
(***************************************************************************)
(* The difficulty of one worker's shares, which the pool tunes so that a   *)
(* share comes about once per TargetSeconds.  Each job has the factor that *)
(* is current when it is minted and counts for one share at most: the      *)
(* other proofs of a job are duplicates.  Jobs are counted in the order    *)
(* they were minted in, when their validation ends, and others may have    *)
(* been minted by then.  Times are whole units here, floating point        *)
(* numbers in the code.                                                    *)
(***************************************************************************)
EXTENDS Naturals, Sequences, FiniteSetsExt

CONSTANTS
    TargetSeconds,  \* STRATUM_VARDIFF_TARGET_SECONDS, in units
    FirstFactor,    \* STRATUM_TARGET_FACTOR
    MaxFactor,      \* STRATUM_VARDIFF_MAX_FACTOR
    Paces,          \* bound: units a worker may need for a share at factor 1
    MaxAhead,       \* jobs minted that the worker may still answer
    Lucks,          \* bound: how long a lucky or unlucky share takes
    MaxLucky        \* bound: shares that do not come at the worker's pace

VARIABLES
    pace,      \* the units that the worker needs for a share at factor 1
    started,   \* whether last_share_at is set
    ewma,      \* ewma_interval, NoInterval for None
    factor,    \* the current factor
    jobs,      \* the factors of the jobs that the worker may still answer
    worked,    \* the factors of those replaced since the last counted share
    lucky      \* history: shares that did not come at the worker's pace

vars == <<pace, started, ewma, factor, jobs, worked, lucky>>

NoInterval == 0

(* A moving average: the newest interval weighs three tenths *)
Average(interval) ==
    IF ewma = NoInterval THEN interval ELSE (7 * ewma + 3 * interval) \div 10

(* Fault: a share either too soon or too late *)
TunedWithoutBand(average) ==
    CASE average < TargetSeconds -> Min({MaxFactor, factor * 2})
      [] average > TargetSeconds -> Max({1, factor \div 2})
      [] OTHER -> factor

(* Doubled below half the target, halved above twice the target *)
Tuned(average) ==
    CASE 2 * average < TargetSeconds -> Min({MaxFactor, factor * 2})
      [] average > 2 * TargetSeconds -> Max({1, factor \div 2})
      [] OTHER -> factor

(* Fault: the average goes on after a change *)
RecordKeepingAverage(interval) ==
    /\ factor' = Tuned(Average(interval))
    /\ ewma' = Average(interval)

(* _record_vardiff_share from the second share on *)
Record(interval) ==
    /\ factor' = Tuned(Average(interval))
    /\ ewma' = IF factor' = factor THEN Average(interval) ELSE NoInterval

(* build_job_for takes the current factor, whatever the refresh is for *)
Mint ==
    /\ Len(jobs) < MaxAhead
    /\ jobs' = Append(jobs, factor)
    /\ UNCHANGED <<pace, started, ewma, factor, worked, lucky>>

(* A newer job reaches the worker before it has solved its oldest one *)
Replace ==
    /\ Len(jobs) > 1
    /\ jobs' = Tail(jobs) /\ worked' = worked \cup {Head(jobs)}
    /\ UNCHANGED <<pace, started, ewma, factor, lucky>>

(* The share of the worker's oldest job has passed validation *)
Share(interval) ==
    /\ jobs # <<>>
    /\ IF started THEN Record(interval) ELSE UNCHANGED <<factor, ewma>>
    /\ started' = TRUE
    /\ jobs' = Tail(jobs) /\ worked' = {}
    /\ UNCHANGED pace

(* At the worker's pace, for any of the jobs it has spent its time on *)
Deliver ==
    /\ jobs # <<>>
    /\ \E job \in worked \cup {Head(jobs)} : Share(pace * job)
    /\ UNCHANGED lucky

(* A share after an unusual time *)
DeliverByLuck(interval) ==
    /\ lucky < MaxLucky /\ lucky' = lucky + 1
    /\ Share(interval)

Init ==
    /\ pace \in Paces
    /\ started = FALSE /\ ewma = NoInterval
    /\ factor = FirstFactor /\ jobs = <<>> /\ worked = {}
    /\ lucky = 0

Next == Mint \/ Replace \/ Deliver \/ \E interval \in Lucks : DeliverByLuck(interval)

(***************************************************************************)
(* Jobs are minted again when the factor or the tip has changed, and now   *)
(* and then without; a worker that has a job delivers some day.            *)
(***************************************************************************)
Fairness == WF_vars(Mint) /\ WF_vars(Deliver)

-----------------------------------------------------------------------------
(* Properties *)

Interval == pace * factor

(* 2^n *)
Doubled[n \in Nat] == IF n = 0 THEN 1 ELSE 2 * Doubled[n - 1]

InBand ==
    /\ 2 * Interval < TargetSeconds => factor = MaxFactor
    /\ Interval > 2 * TargetSeconds => factor = 1

(***************************************************************************)
(* Whatever its luck has been, a worker that keeps its pace ends up with a *)
(* factor that gives between half and twice the shares aimed at, as near   *)
(* to that as the bounds allow, and the factor stays.                      *)
(***************************************************************************)
FactorSettles == <>[](InBand /\ \A k \in DOMAIN jobs : jobs[k] = factor)

(***************************************************************************)
(* A job minted before the factor changed is still counted after it and    *)
(* may drive the factor too far: without luck, each job that may be ahead  *)
(* doubles the time until the next share once, and no more.                *)
(***************************************************************************)
OvershootIsBounded ==
    lucky = 0 => Interval =< Max({pace * FirstFactor, TargetSeconds * Doubled[MaxAhead - 1]})
=============================================================================
