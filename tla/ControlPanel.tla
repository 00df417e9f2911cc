---------------------------- MODULE ControlPanel ----------------------------
(***************************************************************************)
(* The control panel: one window that starts the parent node pearld, waits *)
(* for it to sync and then starts the pool node.  Helper threads put       *)
(* events in a queue; the window's thread polls it, handles what it finds  *)
(* and then looks whether its pearld has died.  Between two polls the user *)
(* clicks.                                                                 *)
(***************************************************************************)
EXTENDS Naturals, Sequences

CONSTANT MaxClicks  \* bound: clicks on Start

ASSUME PanelAssumption == MaxClicks \in Nat

VARIABLES
    open,       \* whether the window is open
    polling,    \* whether the window's thread is inside poll: no, yes, or ended for good
    manage,     \* the box "Run pearld for me"
    startBtn,   \* whether Start is enabled
    demoBtn,    \* whether Run demo is enabled
    child,      \* state["proc"]: none, the node or the demo
    childRuns,  \* whether the child's process runs
    tracked,    \* state["pearld_proc"], 0 for None
    ready,      \* state["pearld_ready"]
    pending,    \* state["pending_node_start"]
    ours,       \* every pearld process the panel has started
    other,      \* a pearld at the same address that it has not started
    watchers,   \* the sync watchers: the last one owns state["watch_stop"]
    probes,     \* probes that have not answered
    queue,      \* events
    clicks      \* how often Start has been clicked

buttons == <<startBtn, demoBtn>>
pool == <<child, childRuns>>
nodes == <<ours, other>>
vars == <<open, polling, manage, buttons, pool, tracked, ready, pending, nodes, watchers, probes,
          queue, clicks>>

Idle == open /\ polling # "yes"

(* getblocktemplate answers: only a synced node serves work *)
Serving == other = "serving" \/ \E i \in DOMAIN ours : ours[i] = "serving"

TrackedIsDead == tracked # 0 /\ ours[tracked] = "dead"

(* Setting watch_stop reaches the newest watcher only *)
RetireWatcher ==
    IF watchers = <<>> THEN watchers ELSE [watchers EXCEPT ![Len(watchers)].stopped = TRUE]

StartWatcher == watchers' = Append(RetireWatcher, [stopped |-> FALSE, at |-> "look"])

(* Spawn the child, unless there is one or the system refuses; button is   *)
(* how Start stood before                                                  *)
Spawn(label, button) ==
    \/ /\ child = "none"
       /\ child' = label /\ childRuns' = TRUE
       /\ startBtn' = FALSE /\ demoBtn' = FALSE
    \/ startBtn' = button /\ UNCHANGED <<demoBtn, pool>>

-----------------------------------------------------------------------------
(* The user *)

ToggleManage ==
    /\ Idle /\ manage' = ~manage
    /\ UNCHANGED <<open, polling, buttons, pool, tracked, ready, pending, nodes, watchers, probes,
                   queue, clicks>>

(* start_node: wait for our pearld, probe for another one, or start now *)
StartNode ==
    /\ Idle /\ startBtn /\ clicks < MaxClicks
    /\ clicks' = clicks + 1
    /\ IF manage /\ ~ready
       THEN /\ pending' = TRUE
            /\ probes' = IF tracked # 0 /\ ~TrackedIsDead THEN probes ELSE probes + 1
            /\ startBtn' = FALSE
            /\ UNCHANGED <<demoBtn, pool>>
       ELSE Spawn("node", startBtn) /\ UNCHANGED <<pending, probes>>
    /\ UNCHANGED <<open, polling, manage, tracked, ready, nodes, watchers, queue>>

RunDemo ==
    /\ Idle /\ demoBtn
    /\ Spawn("demo", startBtn)
    /\ UNCHANGED <<open, polling, manage, tracked, ready, pending, nodes, watchers, probes, queue,
                   clicks>>

(* on_close: stop the child and the tracked pearld, and leave *)
Close ==
    /\ Idle /\ open' = FALSE
    /\ childRuns' = FALSE
    /\ ours' = IF tracked = 0 THEN ours ELSE [ours EXCEPT ![tracked] = "dead"]
    /\ watchers' = RetireWatcher
    /\ UNCHANGED <<polling, manage, buttons, child, tracked, ready, pending, other, probes, queue,
                   clicks>>

-----------------------------------------------------------------------------
(* Processes and helper threads *)

(* The child ends, by itself or because of Stop, and its reader says so *)
ChildEnds ==
    /\ open /\ childRuns
    /\ childRuns' = FALSE
    /\ queue' = Append(queue, "exit")
    /\ UNCHANGED <<open, polling, manage, buttons, child, tracked, ready, pending, nodes, watchers,
                   probes, clicks>>

PearldGoes(i, from, to) ==
    /\ open /\ ours[i] \in from
    /\ ours' = [ours EXCEPT ![i] = to]
    /\ UNCHANGED <<open, polling, manage, buttons, pool, tracked, ready, pending, other, watchers,
                   probes, queue, clicks>>

PearldSyncs(i) == PearldGoes(i, {"syncing"}, "serving")
PearldDies(i) == PearldGoes(i, {"syncing", "serving"}, "dead")

OtherChanges ==
    /\ open
    /\ \/ other = "syncing" /\ other' = "serving"
       \/ other # "none" /\ other' = "none"
    /\ UNCHANGED <<open, polling, manage, buttons, pool, tracked, ready, pending, ours, watchers,
                   probes, queue, clicks>>

(* test_rpc in a thread: the answer is whether a template is served *)
ProbeAnswers ==
    /\ open /\ probes > 0
    /\ probes' = probes - 1
    /\ queue' = Append(queue, IF Serving THEN "served" ELSE "unserved")
    /\ UNCHANGED <<open, polling, manage, buttons, pool, tracked, ready, pending, nodes, watchers,
                   clicks>>

WatcherMoves(w, from, to) ==
    /\ open /\ watchers[w].at = from
    /\ watchers' = [watchers EXCEPT ![w].at = to]
    /\ UNCHANGED <<open, polling, manage, buttons, pool, tracked, ready, pending, nodes, probes,
                   queue, clicks>>

(* watch_pearld_sync, one round: the flag is looked at before the calls, *)
WatcherLooks(w) == WatcherMoves(w, "look", IF watchers[w].stopped THEN "done" ELSE "ask")

(* the node answers, refuses or does not answer in time, *)
WatcherAsks(w) == WatcherMoves(w, "ask", IF Serving THEN "won" ELSE "look")

(* and an answer is posted without another look *)
WatcherPosts(w) ==
    /\ open /\ watchers[w].at = "won"
    /\ watchers' = [watchers EXCEPT ![w].at = "done"]
    /\ queue' = Append(queue, "ready")
    /\ UNCHANGED <<open, polling, manage, buttons, pool, tracked, ready, pending, nodes, probes,
                   clicks>>

-----------------------------------------------------------------------------
(* poll *)

BeginPoll ==
    /\ open /\ polling = "no" /\ polling' = "yes"
    /\ UNCHANGED <<open, manage, buttons, pool, tracked, ready, pending, nodes, watchers, probes,
                   queue, clicks>>

(* The next event of this poll is of the kind e *)
Takes(e) == open /\ polling = "yes" /\ queue # <<>> /\ Head(queue) = e /\ queue' = Tail(queue)

ChildExited ==
    /\ Takes("exit")
    /\ child' = "none" /\ startBtn' = TRUE /\ demoBtn' = TRUE
    /\ UNCHANGED <<open, polling, manage, childRuns, tracked, ready, pending, nodes, watchers,
                   probes, clicks>>

ProbeSuperseded ==
    /\ Takes("served") \/ Takes("unserved")
    /\ ~pending
    /\ UNCHANGED <<open, polling, manage, buttons, pool, tracked, ready, pending, nodes, watchers,
                   probes, clicks>>

(* Use the pearld that is there *)
Adopt ==
    /\ Takes("served") /\ pending
    /\ StartWatcher
    /\ UNCHANGED <<open, polling, manage, buttons, pool, tracked, ready, pending, nodes, probes,
                   clicks>>

(* Fault: the watcher is forgotten *)
StartPearldUnwatched ==
    /\ Takes("unserved") /\ pending
    /\ ours' = Append(ours, "syncing") /\ tracked' = Len(ours) + 1
    /\ ready' = FALSE
    /\ UNCHANGED <<open, polling, manage, buttons, pool, pending, other, watchers, probes, clicks>>

(***************************************************************************)
(* start_pearld: it runs; it is missing, too old or cannot be started; or  *)
(* its files or its log cannot be written, which raises, and an exception  *)
(* that leaves poll ends it: nothing schedules it again.                   *)
(***************************************************************************)
StartPearld ==
    /\ Takes("unserved") /\ pending
    /\ \/ /\ ours' = Append(ours, "syncing") /\ tracked' = Len(ours) + 1
          /\ ready' = FALSE
          /\ StartWatcher
          /\ UNCHANGED <<polling, manage, startBtn, pending>>
       \/ /\ manage' \in {manage, FALSE}
          /\ pending' = FALSE /\ startBtn' = TRUE
          /\ UNCHANGED <<polling, ours, tracked, ready, watchers>>
       \/ /\ polling' = "ended"
          /\ UNCHANGED <<manage, startBtn, pending, ours, tracked, ready, watchers>>
    /\ UNCHANGED <<open, demoBtn, pool, other, probes, clicks>>

PearldReady ==
    /\ Takes("ready")
    /\ ready' = TRUE /\ pending' = FALSE
    /\ IF pending THEN Spawn("node", TRUE) ELSE UNCHANGED <<buttons, pool>>
    /\ UNCHANGED <<open, polling, manage, tracked, nodes, watchers, probes, clicks>>

(* Fault: Start stays disabled when the pearld it waits for has died *)
EndPollKeepsButton ==
    /\ open /\ polling = "yes" /\ queue = <<>>
    /\ polling' = "no"
    /\ IF TrackedIsDead
       THEN /\ tracked' = 0 /\ ready' = FALSE /\ pending' = FALSE
            /\ watchers' = RetireWatcher
       ELSE UNCHANGED <<tracked, ready, pending, watchers>>
    /\ UNCHANGED <<open, manage, buttons, pool, nodes, probes, queue, clicks>>

(* The queue is empty: look whether the tracked pearld has died *)
EndPoll ==
    /\ open /\ polling = "yes" /\ queue = <<>>
    /\ polling' = "no"
    /\ IF TrackedIsDead
       THEN /\ tracked' = 0 /\ ready' = FALSE /\ pending' = FALSE
            /\ watchers' = RetireWatcher
            /\ startBtn' = (startBtn \/ pending)
       ELSE UNCHANGED <<tracked, ready, pending, watchers, startBtn>>
    /\ UNCHANGED <<open, manage, demoBtn, pool, nodes, probes, queue, clicks>>

Poll ==
    \/ BeginPoll
    \/ ChildExited \/ ProbeSuperseded \/ Adopt \/ StartPearld \/ PearldReady
    \/ EndPoll

Init ==
    /\ open = TRUE /\ polling = "no" /\ manage \in BOOLEAN
    /\ startBtn = TRUE /\ demoBtn = TRUE
    /\ child = "none" /\ childRuns = FALSE
    /\ tracked = 0 /\ ready = FALSE /\ pending = FALSE
    /\ ours = <<>> /\ other \in {"none", "syncing", "serving"}
    /\ watchers = <<>> /\ probes = 0 /\ queue = <<>> /\ clicks = 0

Next ==
    \/ ToggleManage \/ StartNode \/ RunDemo \/ Close
    \/ ChildEnds \/ OtherChanges \/ ProbeAnswers
    \/ \E i \in DOMAIN ours : PearldSyncs(i) \/ PearldDies(i)
    \/ \E w \in DOMAIN watchers : WatcherLooks(w) \/ WatcherAsks(w) \/ WatcherPosts(w)
    \/ Poll

(***************************************************************************)
(* While poll is scheduled it runs every 120 ms; threads run, calls time   *)
(* out, and a pearld that does not die has synced some day.                *)
(***************************************************************************)
Fairness ==
    /\ WF_vars(Poll) /\ WF_vars(ProbeAnswers)
    /\ \A i \in 1..MaxClicks :
           /\ WF_vars(i \in DOMAIN ours /\ PearldSyncs(i))
           /\ WF_vars(/\ i \in DOMAIN watchers
                      /\ WatcherLooks(i) \/ WatcherAsks(i) \/ WatcherPosts(i))

Spec == Init /\ [][Next]_vars
FairSpec == Spec /\ Fairness

-----------------------------------------------------------------------------
(* Properties *)

Queued(e) == \E k \in DOMAIN queue : queue[k] = e

(* The newest watcher has still to post its answer *)
Watching == watchers # <<>> /\ ~watchers[Len(watchers)].stopped /\ watchers[Len(watchers)].at # "done"

(* There is a pearld that serves or that may serve some day *)
MayServe == other # "none" \/ \E i \in DOMAIN ours : ours[i] # "dead"

(* Something on its way to poll ends the wait for a pearld, or starts one *)
AnswerDue ==
    \/ probes > 0
    \/ TrackedIsDead
    \/ Watching /\ MayServe
    \/ \E e \in {"served", "unserved", "ready"} : Queued(e)

(* The start waits for a pearld that was there, and that has gone *)
AdoptedIsGone == Watching /\ tracked = 0 /\ ~MayServe

(***************************************************************************)
(* While poll runs, Start is disabled only if something is on its way that *)
(* may enable it again: an answer that the pending start waits for, the    *)
(* end of the tracked pearld, or the exit of the child.  No order of       *)
(* clicks, answers, exits and deaths leaves the window without a way on;   *)
(* the one exception is a pearld that was adopted and has gone since, of   *)
(* which the panel has no process to look at.                              *)
(***************************************************************************)
StartIsNeverStuck ==
    open /\ polling # "ended" /\ ~startBtn =>
        \/ pending /\ (AnswerDue \/ AdoptedIsGone)
        \/ child # "none" /\ (childRuns \/ Queued("exit"))

(***************************************************************************)
(* A start that waits for a pearld of the panel's own ends, unless poll    *)
(* has ended before: the pearld is ready, it is seen to have died, or the  *)
(* window is closed.                                                       *)
(***************************************************************************)
OwnPearldDoesNotStrand ==
    (pending /\ tracked # 0) ~> (~pending \/ ~open \/ polling = "ended")
=============================================================================
