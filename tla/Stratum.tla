------------------------------ MODULE Stratum -------------------------------
(***************************************************************************)
(* How miners get their jobs: each change of the work (a new best share or *)
(* parent tip) asks for a refresh, one background task runs the refreshes, *)
(* and each refresh mints a job of its own for every connection, in a      *)
(* registry of bounded size that submissions are looked up in.             *)
(***************************************************************************)
EXTENDS Naturals, Sequences, FiniteSets, SequencesExt

CONSTANTS
    Miners,      \* the miners' connections
    History,     \* JobRegistry.max_size
    SeqRange,    \* job sequence numbers wrap at this value
    MaxWork,     \* bound: changes of the work
    MaxAsked     \* bound: no handshake begins once so many have had a job in a round

ASSUME StratumAssumption ==
    History \in Nat \ {0} /\ SeqRange \in Nat \ {0} /\ MaxWork \in Nat /\ MaxAsked \in Nat

VARIABLES
    work,      \* the best share and the parent tip a job is built on, as a version
    synced,    \* history: the work has changed by a window sync since the last refresh
    asked,     \* history: jobs minted for handshakes since the last round began
    conn,      \* what the server keeps of each connection, and the job the miner has
    registry,  \* the jobs a submission may name, oldest first
    seq,       \* the registry's sequence number
    refresh,   \* _refresh_task: idle, scheduled or running
    again,     \* _refresh_again
    todo       \* the connections the running refresh has still to mint a job for

jobs == <<registry, seq>>
task == <<refresh, again, todo>>
vars == <<work, synced, asked, conn, jobs, task>>

NoJob == [miner |-> "none"]
Job(c, w, s) == [miner |-> c, work |-> w, seq |-> s]

(* address: the worker_address, if there is one; replying: a handshake has *)
(* still to push its job; queue: jobs waiting for the send lock, and who   *)
(* sends each                                                              *)
Closed ==
    [state |-> "closed", address |-> FALSE, replying |-> FALSE, queue |-> <<>>, given |-> NoJob]

Ready == {c \in Miners : conn[c].state = "ready"}
Sending(c, who) == \E k \in DOMAIN conn[c].queue : conn[c].queue[k].by = who

-----------------------------------------------------------------------------
(* The registry *)

Key(job) == <<job.work, job.seq>>

(* Fault: the newest job makes room for itself *)
EvictNewest(kept) == SubSeq(kept, 1, History)

(* The oldest jobs make room *)
Evict(kept) == SubSeq(kept, Len(kept) - History + 1, Len(kept))

(* A key that comes back keeps its place *)
Registered(job) ==
    LET same(old) == Key(old) = Key(job)
        kept == IF \E k \in DOMAIN registry : same(registry[k])
                THEN [k \in DOMAIN registry |-> IF same(registry[k]) THEN job ELSE registry[k]]
                ELSE Append(registry, job)
    IN  IF Len(kept) > History THEN Evict(kept) ELSE kept

(* _mint_job_for, and the job joins those waiting for the send lock, if    *)
(* there is still a connection to send it on.  Without a worker address    *)
(* there is no job.                                                        *)
MintFor(c, who) ==
    LET job == Job(c, work, (seq + 1) % SeqRange)
        sent == conn[c].address /\ conn[c].state # "closed"
        waits == IF sent THEN <<[job |-> job, by |-> who]>> ELSE <<>>
    IN  /\ conn' = [conn EXCEPT ![c].queue = @ \o waits, ![c].replying = @ /\ who # "reader"]
        /\ IF conn[c].address
           THEN seq' = job.seq /\ registry' = Registered(job)
           ELSE UNCHANGED jobs

-----------------------------------------------------------------------------
(* Refreshes *)

(* Fault: a request that finds the task at work is dropped *)
RequestDropped ==
    /\ refresh' = IF refresh = "idle" THEN "scheduled" ELSE refresh
    /\ UNCHANGED <<again, todo>>

(* _request_stratum_refresh: start the task, or tell it to go round again *)
Request ==
    /\ IF refresh = "idle"
       THEN refresh' = "scheduled" /\ UNCHANGED again
       ELSE again' = TRUE /\ UNCHANGED refresh
    /\ UNCHANGED todo

(* A new parent tip, a share of our own or a peer's live share *)
NewWork ==
    /\ work < MaxWork /\ work' = work + 1
    /\ Request
    /\ UNCHANGED <<synced, asked, conn, jobs>>

(* A share out of a window sync: nobody is told *)
SyncedWork ==
    /\ work < MaxWork /\ work' = work + 1
    /\ synced' = TRUE
    /\ UNCHANGED <<asked, conn, jobs, task>>

(* Fault: the poll loop cares for new parent tips only *)
PollForTipsOnly == UNCHANGED vars

(* The poll loop asks for a refresh when the last one is long ago *)
Poll ==
    /\ Request
    /\ UNCHANGED <<work, synced, asked, conn, jobs>>

(* A round answers every request made before it *)
Round ==
    /\ refresh' = "running" /\ again' = FALSE /\ todo' = Ready
    /\ synced' = FALSE /\ asked' = 0

StartRefresh ==
    /\ refresh = "scheduled"
    /\ Round
    /\ UNCHANGED <<work, conn, jobs>>

(* One of the gathered pushes *)
Push(c) ==
    /\ c \in todo
    /\ todo' = todo \ {c}
    /\ MintFor(c, "refresh")
    /\ UNCHANGED <<work, synced, asked, refresh, again>>

RoundOver == refresh = "running" /\ todo = {} /\ \A c \in Miners : ~Sending(c, "refresh")

(* Once every push has ended: another round, or the task is over *)
EndRound ==
    /\ RoundOver
    /\ IF again THEN Round
       ELSE refresh' = "idle" /\ UNCHANGED <<again, todo, synced, asked>>
    /\ UNCHANGED <<work, conn, jobs>>

-----------------------------------------------------------------------------
(* Connections *)

(* A connection that is gone stays in the round that has counted it, and   *)
(* its miner is back only afterwards                                       *)
Connect(c) ==
    /\ conn[c].state = "closed" /\ c \notin todo /\ ~conn[c].replying
    /\ conn' = [conn EXCEPT ![c] = [Closed EXCEPT !.state = "open"]]
    /\ UNCHANGED <<work, synced, asked, jobs, task>>

(* The reader answers one request after the other, pushes included *)
ReaderFree(c) == conn[c].state # "closed" /\ ~conn[c].replying /\ ~Sending(c, "reader")

(* A bound of the model *)
MayAsk == asked < MaxAsked

(* A miner subscribes and authorizes as often as it likes.  A subscriber is *)
(* ready, with the address it has or with none; an authorize sets one, or  *)
(* clears it when the login is no address.  Both end with a push.          *)
Subscribe(c) ==
    /\ ReaderFree(c) /\ MayAsk
    /\ conn' = [conn EXCEPT ![c].state = "ready", ![c].replying = TRUE]
    /\ UNCHANGED <<work, synced, asked, jobs, task>>

Authorize(c) ==
    /\ ReaderFree(c) /\ MayAsk
    /\ \E valid \in BOOLEAN :
          conn' = [conn EXCEPT ![c].state = "ready", ![c].address = valid, ![c].replying = TRUE]
    /\ UNCHANGED <<work, synced, asked, jobs, task>>

(* The push that ends the handler *)
PushJob(c) ==
    /\ conn[c].replying
    /\ MintFor(c, "reader")
    /\ asked' = IF conn[c].address THEN asked + 1 ELSE asked
    /\ UNCHANGED <<work, synced, task>>

(* Fault: the send lock is not given in order *)
SendNewest(c) ==
    /\ conn[c].queue # <<>>
    /\ conn' = [conn EXCEPT ![c].given = Last(conn[c].queue).job, ![c].queue = Front(@)]
    /\ UNCHANGED <<work, synced, asked, jobs, task>>

(* The holder of the send lock gets its job through *)
Send(c) ==
    /\ conn[c].queue # <<>>
    /\ conn' = [conn EXCEPT ![c].given = Head(conn[c].queue).job, ![c].queue = Tail(@)]
    /\ UNCHANGED <<work, synced, asked, jobs, task>>

(* The miner goes, or a send to it times out; a handler whose reply is     *)
(* already written mints its job all the same                              *)
Close(c) ==
    /\ conn[c].state # "closed"
    /\ \E late \in {FALSE, conn[c].replying} :
          conn' = [conn EXCEPT ![c] =
                       [Closed EXCEPT !.address = conn[c].address, !.replying = late]]
    /\ UNCHANGED <<work, synced, asked, jobs, task>>

-----------------------------------------------------------------------------
Init ==
    /\ work = 0 /\ synced = FALSE /\ asked = 0
    /\ conn = [c \in Miners |-> Closed]
    /\ registry = <<>> /\ seq = 0
    /\ refresh = "idle" /\ again = FALSE /\ todo = {}

Next ==
    \/ NewWork \/ SyncedWork \/ Poll
    \/ StartRefresh \/ EndRound
    \/ \E c \in Miners : \/ Push(c) \/ Connect(c) \/ Subscribe(c) \/ Authorize(c)
                         \/ PushJob(c) \/ Send(c) \/ Close(c)

(***************************************************************************)
(* The event loop runs what is ready, the poll loop comes round, and a     *)
(* send ends or its connection is closed by the time limit.                *)
(***************************************************************************)
Fairness ==
    /\ WF_vars(Poll) /\ WF_vars(StartRefresh \/ EndRound)
    /\ \A c \in Miners : WF_vars(Push(c)) /\ WF_vars(PushJob(c)) /\ WF_vars(Send(c))

Spec == Init /\ [][Next]_vars
FairSpec == Spec /\ Fairness

-----------------------------------------------------------------------------
(* Properties *)

(* The last job minted for a connection *)
Newest(c) == IF conn[c].queue = <<>> THEN conn[c].given ELSE Last(conn[c].queue).job

(* A miner with an address whose handshakes have all been answered *)
Served(c) == conn[c].state = "ready" /\ conn[c].address /\ ~conn[c].replying

(***************************************************************************)
(* No request is lost: while no refresh is due, every miner with an        *)
(* address has, or is being sent, a job on the work of the last change     *)
(* that asked for a refresh.                                               *)
(***************************************************************************)
NoRefreshLost ==
    refresh = "idle" /\ ~synced => \A c \in Miners : Served(c) => Newest(c).work = work

(***************************************************************************)
(* What the registry's size is good for: as long as one round for every    *)
(* connection and the jobs that handshakes have asked for since it began   *)
(* fit in, the last job of a miner that the round has served is found      *)
(* there, whoever else connects, authorizes again or goes in the meantime. *)
(***************************************************************************)
KnownWhileThereIsRoom ==
    Cardinality(Miners) + asked =< History =>
        \A c \in Miners : Served(c) /\ c \notin todo => Newest(c) \in ToSet(registry)

(***************************************************************************)
(* "Stale == key-absent": a job that the registry does not know is stale.  *)
(* When nothing is being minted or sent, an answer to a job on the current *)
(* work would be found there.                                              *)
(***************************************************************************)
AbsentIsStale ==
    (refresh = "idle" /\ \A c \in Miners : conn[c].queue = <<>> /\ ~conn[c].replying) =>
        \A c \in Miners : conn[c].given # NoJob /\ conn[c].given.work = work
                          => conn[c].given \in ToSet(registry)

(***************************************************************************)
(* A miner is never sent a job on older work than the one it has, whether  *)
(* a handshake or a refresh sends it.  Jobs on the same work are not told  *)
(* apart.                                                                  *)
(***************************************************************************)
JobsComeInOrder ==
    [][\A c \in Miners :
         conn[c].given # NoJob /\ conn'[c].given # NoJob
         => conn[c].given.work =< conn'[c].given.work]_vars

(***************************************************************************)
(* A job on old work is replaced, however the work changed, or its miner   *)
(* is gone or has no address any more: no miner is left with one for good. *)
(***************************************************************************)
StaleJobIsReplaced ==
    \A c \in Miners :
        []<>(conn[c].given = NoJob \/ conn[c].given.work = work \/ ~conn[c].address)
=============================================================================
