------------------------------- MODULE Mining -------------------------------
(***************************************************************************)
(* From a template of the parent chain to a share that the whole pool      *)
(* accepts: a node builds a job for its miner, the miner answers it at any *)
(* later time, and the peers judge the share with their own clock, their   *)
(* own template and their own copy of the sharechain.  The finder and the  *)
(* judges work out the target limit, the payouts and the certificate       *)
(* version each for themselves; nothing of that is sent along.  Chains     *)
(* here are shorter than the horizon, so nothing is pruned.                *)
(***************************************************************************)
EXTENDS ShareRules

CONSTANTS
    Skew,          \* how far each node's clock is ahead of the true time
    Leads,         \* how far a template's time may be ahead of the true time
    CertVersions,  \* the certificate version at each height of the parent chain
    Factors,       \* _worker_target_factor
    MaxShares,     \* bound: shares ever accepted
    MaxTime        \* bound: the true time

Nodes == Miners    \* every node has one miner of its own

ASSUME MiningAssumption ==
    /\ \A n \in Nodes : Skew[n] \in Int
    /\ Leads \subseteq Nat /\ Factors \subseteq Nat \ {0}
    /\ \A h \in DOMAIN CertVersions : h >= 1 /\ CertVersions[h] \in Nat
    /\ {MaxShares, MaxTime} \subseteq Nat

VARIABLES
    time,      \* the true time
    parent,    \* the height of the block the parent chain is mining
    template,  \* _template: height and time of each node's template
    shares,    \* every share accepted by its finder; share i has identifier i
    stored,    \* the sharechain of each node
    tip,       \* its best tip
    job        \* the latest job of each miner, NoJob before the first

vars == <<time, parent, template, shares, stored, tip, job>>

NoJob == [height |-> -1]

Ids == 1..Len(shares)
Clock(n) == time + Skew[n]
Total(i) == IF i = Genesis THEN 0 ELSE shares[i].total

(* required_cert_version of a template *)
CertVersion(n) == CertVersions[template[n].height]

(* Fault: the payouts as of the judge's own tip *)
PayoutsOfTip(n, prev) == PplnsWeights(shares, stored[n], tip[n])

(* The payouts that a share on top of `prev' commits to; different weights *)
(* are taken for different payouts                                         *)
Payouts(n, prev) == PplnsWeights(shares, stored[n], prev)

-----------------------------------------------------------------------------
(* The surroundings *)

Tick ==
    /\ time < MaxTime
    /\ time' = time + 1
    /\ UNCHANGED <<parent, template, shares, stored, tip, job>>

ParentAdvances ==
    /\ parent + 1 \in DOMAIN CertVersions
    /\ parent' = parent + 1
    /\ UNCHANGED <<time, template, shares, stored, tip, job>>

(* A node's pearld may lag behind the parent chain, never go back *)
Poll(n, height, lead) ==
    /\ height \in template[n].height..parent
    /\ template' = [template EXCEPT ![n] = [height |-> height, curtime |-> time + lead]]
    /\ UNCHANGED <<time, parent, shares, stored, tip, job>>

-----------------------------------------------------------------------------
(* Jobs *)

(* At least a second after the tip, whatever the clocks say *)
Stamp(n) ==
    Max({Clock(n), template[n].curtime}
        \cup IF tip[n] = Genesis THEN {} ELSE {shares[tip[n]].timestamp + 1})

(* Fault: the limit of a share that is mined right now *)
LimitAtClock(n) ==
    LET expected == ExpectedTarget(shares, stored[n], tip[n], Clock(n))
    IN  IF expected = NoTarget THEN shares[tip[n]].limit ELSE expected

(* The limit of the candidate, the tip's where history is too short *)
Limit(n) ==
    LET expected == ExpectedTarget(shares, stored[n], tip[n], Stamp(n))
    IN  IF expected = NoTarget THEN shares[tip[n]].limit ELSE expected

(* build_job_for *)
BuildJob(n, factor) ==
    LET target == Max({1, Limit(n) \div factor})
        candidate ==
            [height |-> IF tip[n] = Genesis THEN 0 ELSE shares[tip[n]].height + 1,
             prev |-> tip[n], parentHeight |-> template[n].height, timestamp |-> Stamp(n),
             target |-> target, limit |-> Limit(n), uncles |-> {}, miner |-> n,
             sound |-> TRUE, payouts |-> Payouts(n, tip[n]),
             cert |-> CertVersion(n),
             total |-> Total(tip[n]) + MaxTarget \div target]
    IN  /\ job' = [job EXCEPT ![n] = candidate]
        /\ UNCHANGED <<time, parent, template, shares, stored, tip>>

-----------------------------------------------------------------------------
(* Judging *)

(* add_share by node n: share i is stored and may become the best tip *)
Added(n, i, total) ==
    /\ stored' = [stored EXCEPT ![n] = @ \cup {i}]
    /\ tip' = [tip EXCEPT ![n] = IF total > Total(@) THEN i ELSE @]

(* The candidate is one that the node has not stored yet *)
IsNew(c) == c \notin ToSet(shares)

(* A miner answers its job, under the rules of its own node *)
Submit(n) ==
    LET c == job[n]
    IN  /\ c # NoJob /\ IsNew(c)
        /\ Len(shares) < MaxShares
        /\ Valid(shares, stored[n], c, Clock(n))
        /\ shares' = Append(shares, c)
        /\ Added(n, Len(shares) + 1, c.total)
        /\ UNCHANGED <<time, parent, template, job>>

(* verify_incoming: the commitments are worked out again, with the judge's *)
(* own sharechain and its current template                                 *)
VerifyIncoming(n, c) ==
    /\ c.payouts = Payouts(n, c.prev)
    /\ c.cert = CertVersion(n)

(* A share comes from a peer, by announcement or by window sync; one that  *)
(* was refused may come again                                              *)
Receive(n, i) ==
    /\ i \in Ids \ stored[n]
    /\ Valid(shares, stored[n], shares[i], Clock(n))
    /\ VerifyIncoming(n, shares[i])
    /\ Added(n, i, shares[i].total)
    /\ UNCHANGED <<time, parent, template, shares, job>>

-----------------------------------------------------------------------------
Init ==
    /\ time = 0 /\ parent = 1
    /\ template = [n \in Nodes |-> [height |-> 1, curtime |-> 0]]
    /\ shares = <<>>
    /\ stored = [n \in Nodes |-> {}]
    /\ tip = [n \in Nodes |-> Genesis]
    /\ job = [n \in Nodes |-> NoJob]

Next ==
    \/ Tick \/ ParentAdvances
    \/ \E n \in Nodes :
         \/ \E height \in DOMAIN CertVersions, lead \in Leads : Poll(n, height, lead)
         \/ \E factor \in Factors : BuildJob(n, factor)
         \/ Submit(n)
         \/ \E i \in 1..MaxShares : Receive(n, i)

Spec == Init /\ [][Next]_vars

-----------------------------------------------------------------------------
(* Properties *)

TooFarAhead(n, c) == c.timestamp > Clock(n) + MaxDrift

ParentWentBack(n, c) == c.prev # Genesis /\ c.parentHeight < shares[c.prev].parentHeight

(***************************************************************************)
(* A miner does not work in vain: whatever its node has stored since, it   *)
(* accepts the answer to a job that it has handed out.  The exceptions are *)
(* known when the job is built: a stamp that runs ahead of the clock, for  *)
(* as long as it does, and a parent chain on which the node lags behind    *)
(* the finder of the tip.                                                  *)
(***************************************************************************)
JobsStayValid ==
    \A n \in Nodes :
        job[n] # NoJob /\ IsNew(job[n])
        => \/ Valid(shares, stored[n], job[n], Clock(n))
           \/ TooFarAhead(n, job[n])
           \/ ParentWentBack(n, job[n])

(***************************************************************************)
(* The pool is of one mind: a share that its finder has accepted is        *)
(* accepted by every node that has its parent, unless their clocks or      *)
(* certificate versions differ.  Without the second exception this fails:  *)
(* the share of a finder that has not seen the activation is refused for   *)
(* good by the nodes that have.                                            *)
(***************************************************************************)
PeersAgree ==
    \A n \in Nodes : \A i \in Ids \ stored[n] :
        shares[i].prev \in stored[n] \cup {Genesis}
        => \/ Valid(shares, stored[n], shares[i], Clock(n)) /\ VerifyIncoming(n, shares[i])
           \/ TooFarAhead(n, shares[i])
           \/ shares[i].cert # CertVersion(n)
=============================================================================
