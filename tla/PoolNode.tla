------------------------------ MODULE PoolNode ------------------------------
(***************************************************************************)
(* What a pool node does with a submitted proof: the fast answer to the    *)
(* miner, the validation and the follow-up that run behind it, and the     *)
(* race to prove and submit a block, which shares one lock between the     *)
(* node's own miners and the shares of its peers.  An action is what runs  *)
(* on the event loop between two awaits, or one call in a worker thread.   *)
(***************************************************************************)
EXTENDS Naturals, Sequences, FiniteSets

CONSTANTS
    MaxTemplates,   \* bound: parent tips
    MaxShares,      \* bound: candidate shares
    MaxTasks,       \* bound: submissions and peers' shares
    MaxCrashes      \* bound: crashes of the process

ASSUME PoolAssumption ==
    MaxTemplates \in Nat \ {0} /\ {MaxShares, MaxTasks, MaxCrashes} \subseteq Nat

VARIABLES
    up,         \* whether the process runs
    template,   \* _template: the parent tip the node works on
    shares,     \* the parent tip of each candidate share
    jobs,       \* the shares the miners hold a job for
    stored,     \* the shares in the sharechain
    pending,    \* _pending_shares
    tasks,      \* what became of each submission and each peer's share
    line,       \* _assemble_lock: its holder, then those waiting in order
    assembled,  \* _assembled_parents
    paused,     \* whether the co-located load is paused
    resumeLost, \* history: whether the last hook was a resume command without effect
    submitted,  \* history: how often submitblock has returned for each parent tip since the start
    crashes     \* how many crashes there have been

hooks == <<paused, resumeLost>>
race == <<line, assembled, hooks, submitted>>
vars == <<up, template, shares, jobs, stored, pending, tasks, race, crashes>>

(* How good a proof is: no share, a share, or a share that is also a block *)
Qualities == {"bad", "share", "block"}

(* validate, followup: background tasks; Racing: inside                     *)
(* _assemble_and_submit; Ended: how a task can end                         *)
Racing == {"waiting", "pause", "prove", "resume", "giveup", "submit", "mark", "broadcast"}
Running == {"validate", "followup"} \cup Racing
Ended == {"duplicate", "refused", "done", "skipped", "failed", "lost"}

Tips == 1..MaxTemplates
Parent(t) == shares[tasks[t].share]
At(t, place) == up /\ tasks[t].at = place
Goes(t, place) == tasks' = [tasks EXCEPT ![t].at = place]
HoldsLock(t) == line # <<>> /\ Head(line) = t

(* Fault: whoever waits is forgotten *)
ReleaseAll == line' = <<>>

Release == line' = Tail(line)

Task(origin, i, quality, place) ==
    [origin |-> origin, share |-> i, quality |-> quality, at |-> place]

-----------------------------------------------------------------------------
(* The parent chain and the miners *)

(* set_template on a new parent tip: a fresh block race *)
SetTemplate ==
    /\ up /\ template < MaxTemplates
    /\ template' = template + 1
    /\ assembled' = {}
    /\ UNCHANGED <<up, shares, jobs, stored, pending, tasks, line, hooks, submitted, crashes>>

(* build_job_for: a new candidate share; older jobs can still be answered *)
BuildJob ==
    /\ up /\ Len(shares) < MaxShares
    /\ shares' = Append(shares, template)
    /\ jobs' = jobs \cup {Len(shares) + 1}
    /\ UNCHANGED <<up, template, stored, pending, tasks, race, crashes>>

(* handle_submit: a share that is known or under validation needs no work *)
HandleSubmit(i, quality) ==
    LET known == i \in stored \cup pending
    IN  /\ up /\ i \in jobs /\ Len(tasks) < MaxTasks
        /\ tasks' = Append(tasks, Task("miner", i, quality, IF known THEN "duplicate" ELSE "validate"))
        /\ pending' = IF known THEN pending ELSE pending \cup {i}
        /\ UNCHANGED <<up, template, shares, jobs, stored, race, crashes>>

(* Fault: a refused share stays pending *)
ValidateKeepsPending(t) ==
    LET i == tasks[t].share
    IN  /\ At(t, "validate")
        /\ \/ Goes(t, "refused") /\ UNCHANGED <<stored, pending>>
           \/ /\ tasks[t].quality # "bad" /\ Goes(t, "followup")
              /\ stored' = stored \cup {i} /\ pending' = pending \ {i}
        /\ UNCHANGED <<up, template, shares, jobs, race, crashes>>

(* _run_submit_validation: verify, store, and stop pending either way; the  *)
(* sharechain may have moved on and refuse a share that meets its target    *)
Validate(t) ==
    LET i == tasks[t].share
    IN  /\ At(t, "validate")
        /\ \/ Goes(t, "refused") /\ UNCHANGED stored
           \/ /\ tasks[t].quality # "bad"
              /\ Goes(t, "followup") /\ stored' = stored \cup {i}
        /\ pending' = pending \ {i}
        /\ UNCHANGED <<up, template, shares, jobs, race, crashes>>

(* _run_submit_followup: a block enters the race *)
FollowUp(t) ==
    /\ At(t, "followup")
    /\ IF tasks[t].quality = "block"
       THEN Goes(t, "waiting") /\ line' = Append(line, t)
       ELSE Goes(t, "done") /\ UNCHANGED line
    /\ UNCHANGED <<up, template, shares, jobs, stored, pending, assembled, hooks, submitted, crashes>>

(* try_collaborative_submit: a peer's live share for our own parent tip *)
TryCollaborativeSubmit(quality) ==
    LET t == Len(tasks) + 1
        i == Len(shares) + 1
        races == quality = "block"
    IN  /\ up /\ t =< MaxTasks /\ i =< MaxShares
        /\ shares' = Append(shares, template)
        /\ stored' = stored \cup {i}
        /\ tasks' = Append(tasks, Task("peer", i, quality, IF races THEN "waiting" ELSE "done"))
        /\ line' = IF races THEN Append(line, t) ELSE line
        /\ UNCHANGED <<up, template, jobs, pending, assembled, hooks, submitted, crashes>>

-----------------------------------------------------------------------------
(* _assemble_and_submit *)

(* Fault: who does not find the lock free leaves *)
AcquireOrLeave(t) ==
    /\ At(t, "waiting")
    /\ IF HoldsLock(t) /\ Parent(t) \notin assembled
       THEN Goes(t, "pause") /\ UNCHANGED line
       ELSE Goes(t, "skipped") /\ line' = SelectSeq(line, LAMBDA u : u # t)
    /\ UNCHANGED <<up, template, shares, jobs, stored, pending, assembled, hooks, submitted, crashes>>

(* The lock is ours: leave at once if this tip's block has been submitted *)
Acquire(t) ==
    /\ At(t, "waiting") /\ HoldsLock(t)
    /\ IF Parent(t) \in assembled
       THEN Goes(t, "skipped") /\ Release
       ELSE Goes(t, "pause") /\ UNCHANGED line
    /\ UNCHANGED <<up, template, shares, jobs, stored, pending, assembled, hooks, submitted, crashes>>

(* A hook always returns; whether it did its work is another matter *)
HookSets(value) ==
    /\ paused' \in {paused, value}
    /\ resumeLost' = (~value /\ paused')

PreAssemble(t) ==
    /\ At(t, "pause")
    /\ Goes(t, "prove")
    /\ HookSets(TRUE)
    /\ UNCHANGED <<up, template, shares, jobs, stored, pending, line, assembled, submitted, crashes>>

(* Fault: no finally, an exception of the prover skips the resume command *)
ProveWithoutFinally(t) ==
    /\ At(t, "prove")
    /\ \/ Goes(t, "resume") /\ UNCHANGED line
       \/ Goes(t, "failed") /\ Release
    /\ UNCHANGED <<up, template, shares, jobs, stored, pending, assembled, hooks, submitted, crashes>>

(* The prover runs in a worker thread *)
AssembleBlock(t) ==
    /\ At(t, "prove")
    /\ \/ Goes(t, "resume")
       \/ Goes(t, "giveup")
    /\ UNCHANGED <<up, template, shares, jobs, stored, pending, race, crashes>>

(* The finally block: resume, and go on unless the prover has raised *)
PostAssemble(t) ==
    /\ \/ At(t, "resume") /\ Goes(t, "submit") /\ UNCHANGED line
       \/ At(t, "giveup") /\ Goes(t, "failed") /\ Release
    /\ HookSets(FALSE)
    /\ UNCHANGED <<up, template, shares, jobs, stored, pending, assembled, submitted, crashes>>

(* submitblock returns, with null or with a reason to reject, or it raises *)
SubmitBlock(t) ==
    /\ At(t, "submit")
    /\ \/ /\ Goes(t, "mark")
          /\ submitted' = [submitted EXCEPT ![Parent(t)] = @ + 1]
          /\ UNCHANGED line
       \/ Goes(t, "failed") /\ Release /\ UNCHANGED submitted
    /\ UNCHANGED <<up, template, shares, jobs, stored, pending, assembled, hooks, crashes>>

(* Fault: the lock is passed on without a mark *)
MarkNothing(t) ==
    /\ At(t, "mark") /\ Goes(t, "broadcast")
    /\ UNCHANGED <<up, template, shares, jobs, stored, pending, race, crashes>>

(* What submitblock returned is not looked at *)
MarkAssembled(t) ==
    /\ At(t, "mark") /\ Goes(t, "broadcast")
    /\ assembled' = assembled \cup {Parent(t)}
    /\ UNCHANGED <<up, template, shares, jobs, stored, pending, line, hooks, submitted, crashes>>

BroadcastBlock(t) ==
    /\ At(t, "broadcast") /\ Goes(t, "done") /\ Release
    /\ UNCHANGED <<up, template, shares, jobs, stored, pending, assembled, hooks, submitted, crashes>>

-----------------------------------------------------------------------------
(* The process *)

(* Nothing of the node survives, but a paused load stays paused *)
Crash ==
    /\ up /\ crashes < MaxCrashes
    /\ up' = FALSE /\ crashes' = crashes + 1
    /\ jobs' = {} /\ stored' = {} /\ pending' = {} /\ line' = <<>> /\ assembled' = {}
    /\ tasks' = [t \in DOMAIN tasks |->
                    IF tasks[t].at \in Running THEN [tasks[t] EXCEPT !.at = "lost"] ELSE tasks[t]]
    /\ submitted' = [p \in Tips |-> 0]
    /\ UNCHANGED <<template, shares, hooks>>

(* _serve runs the resume command once, before it listens *)
Start ==
    /\ ~up /\ up' = TRUE
    /\ HookSets(FALSE)
    /\ UNCHANGED <<template, shares, jobs, stored, pending, tasks, line, assembled, submitted, crashes>>

Init ==
    /\ up = TRUE /\ template = 1 /\ shares = <<>> /\ jobs = {} /\ stored = {} /\ pending = {}
    /\ tasks = <<>> /\ line = <<>> /\ assembled = {} /\ paused = FALSE /\ resumeLost = FALSE
    /\ submitted = [p \in Tips |-> 0] /\ crashes = 0

(* The next thing task t does *)
Step(t) ==
    \/ Validate(t) \/ FollowUp(t)
    \/ Acquire(t) \/ PreAssemble(t) \/ AssembleBlock(t) \/ PostAssemble(t)
    \/ SubmitBlock(t) \/ MarkAssembled(t) \/ BroadcastBlock(t)

Next ==
    \/ SetTemplate \/ BuildJob
    \/ \E i \in jobs, quality \in Qualities : HandleSubmit(i, quality)
    \/ \E quality \in Qualities \ {"bad"} : TryCollaborativeSubmit(quality)
    \/ \E t \in DOMAIN tasks : Step(t)
    \/ Crash \/ Start

(* Worker threads end, RPC calls time out, and the event loop goes on *)
Fairness == \A t \in 1..MaxTasks : WF_vars(t \in DOMAIN tasks /\ Step(t))

Spec == Init /\ [][Next]_vars
FairSpec == Spec /\ Fairness

-----------------------------------------------------------------------------
(* Properties *)

(***************************************************************************)
(* Every variable keeps its shape, and the tasks in line for the lock are  *)
(* exactly those inside _assemble_and_submit, each once.                   *)
(***************************************************************************)
TypeOK ==
    /\ {up, paused, resumeLost} \subseteq BOOLEAN
    /\ template \in Tips
    /\ shares \in Seq(Tips)
    /\ jobs \cup stored \cup pending \subseteq DOMAIN shares
    /\ tasks \in Seq([origin : {"miner", "peer"}, share : DOMAIN shares, quality : Qualities,
                      at : Running \cup Ended])
    /\ line \in Seq(DOMAIN tasks)
    /\ \A t \in DOMAIN tasks : (tasks[t].at \in Racing) <=> (\E k \in DOMAIN line : line[k] = t)
    /\ \A j, k \in DOMAIN line : line[j] = line[k] => j = k
    /\ assembled \subseteq Tips
    /\ submitted \in [Tips -> Nat]
    /\ crashes \in Nat

(***************************************************************************)
(* A share is pending exactly while one task validates it: a refused proof *)
(* does not bar the next proof for the same job.                           *)
(***************************************************************************)
PendingIsValidated ==
    /\ pending = {tasks[t].share : t \in {u \in DOMAIN tasks : tasks[u].at = "validate"}}
    /\ \A t, u \in DOMAIN tasks :
           tasks[t].at = "validate" /\ tasks[u].at = "validate" /\ tasks[t].share = tasks[u].share
           => t = u

(***************************************************************************)
(* While the process runs, the co-located load is paused only for a prover *)
(* that holds the lock, or because a resume command had no effect: a prove *)
(* that fails and a crash in the middle of one are both cleaned up after.  *)
(***************************************************************************)
PausedOnlyToProve ==
    up /\ paused => \/ resumeLost
                    \/ line # <<>> /\ tasks[Head(line)].at \in {"prove", "resume", "giveup"}

(***************************************************************************)
(* However many shares clear the block target, the block of the parent tip *)
(* the node works on is submitted at most once while the process runs.     *)
(***************************************************************************)
SubmittedOnce == submitted[template] =< 1

(* A proof put aside as a duplicate is not the only one that makes its block. *)
DuplicatesAreHarmless ==
    \A t \in DOMAIN tasks :
        tasks[t].at = "duplicate" /\ tasks[t].quality = "block"
        => \E u \in DOMAIN tasks : /\ tasks[u].at # "duplicate"
                                   /\ tasks[u].quality = "block" /\ Parent(u) = Parent(t)

(***************************************************************************)
(* A share found to be a block is followed by a submission for its parent  *)
(* tip, its own or that of a share ahead of it in line, unless its own     *)
(* prove or RPC fails or the process crashes: it never waits in vain, and  *)
(* it never leaves the race because of a share ahead of it that failed.    *)
(***************************************************************************)
FoundBlockIsSubmitted ==
    \A t \in 1..MaxTasks :
        (t \in DOMAIN tasks /\ tasks[t].at = "waiting")
        ~> (t \in DOMAIN tasks /\ \/ submitted[Parent(t)] > 0
                                  \/ tasks[t].at \in {"failed", "lost"})
=============================================================================
