------------------------- MODULE ControlPanelProofs -------------------------
(***************************************************************************)
(* Proofs about the control panel.  The property of the run does not hold  *)
(* by itself from step to step: that a start which does not probe has an   *)
(* answer coming rests on what the panel knows of a tracked pearld, whose  *)
(* watcher is the newest one, and has not posted unless its answer is      *)
(* still in the queue.  Of a poll that has ended nothing is claimed.       *)
(***************************************************************************)
EXTENDS ControlPanel, TLAPS

Events == {"exit", "served", "unserved", "ready"}
Pearld == {"syncing", "serving", "dead"}
Watcher == [stopped : BOOLEAN, at : {"look", "ask", "won", "done"}]

(* The types *)
PanelType ==
    /\ startBtn \in BOOLEAN /\ pending \in BOOLEAN /\ ready \in BOOLEAN /\ childRuns \in BOOLEAN
    /\ child \in {"none", "node", "demo"}
    /\ probes \in Nat /\ tracked \in Nat
    /\ ours \in Seq(Pearld) /\ tracked =< Len(ours)
    /\ queue \in Seq(Events) /\ watchers \in Seq(Watcher)

(* A child runs, or its exit is waiting to be handled *)
ChildAccounted == child # "none" => childRuns \/ Queued("exit")

(* A pending start has an answer coming, or a watcher *)
PendingAnswered ==
    pending => \/ probes > 0
               \/ Watching
               \/ \E e \in {"served", "unserved", "ready"} : Queued(e)

(* A tracked pearld that is not ready has its watcher, or its answer *)
TrackedWatched == tracked # 0 /\ ~ready => Watching \/ Queued("ready")

(* Start is disabled for a reason *)
DisabledForCause == ~startBtn => pending \/ child # "none"

PanelInv ==
    open /\ polling # "ended" => ChildAccounted /\ PendingAnswered /\ TrackedWatched /\ DisabledForCause

-----------------------------------------------------------------------------
(* What an event added and an event taken leave of the queue *)

(* An event that is added is there, and so is what was there before. *)
LEMMA AppendQueues ==
    ASSUME NEW S, NEW q \in Seq(S), NEW x \in S
    PROVE  /\ Append(q, x) \in Seq(S)
           /\ \E k \in DOMAIN Append(q, x) : Append(q, x)[k] = x
           /\ \A e : (\E k \in DOMAIN q : q[k] = e)
                     => \E k \in DOMAIN Append(q, x) : Append(q, x)[k] = e
<1>1. /\ Append(q, x) \in Seq(S) /\ Len(q) \in Nat
      /\ Len(Append(q, x)) = Len(q) + 1
      /\ DOMAIN q = 1..Len(q) /\ DOMAIN Append(q, x) = 1..(Len(q) + 1)
      /\ \A k \in 1..Len(q) : Append(q, x)[k] = q[k]
      /\ Append(q, x)[Len(q) + 1] = x
    OBVIOUS
<1>2. /\ 1..Len(q) \subseteq 1..(Len(q) + 1)
      /\ Len(q) + 1 \in 1..(Len(q) + 1)
    BY <1>1
<1> QED BY <1>1, <1>2, Zenon

(* An event that is not the one taken is still there. *)
LEMMA TailKeeps ==
    ASSUME NEW S, NEW q \in Seq(S), q # <<>>
    PROVE  /\ Tail(q) \in Seq(S)
           /\ \A e : e # Head(q) /\ (\E k \in DOMAIN q : q[k] = e)
                     => \E k \in DOMAIN Tail(q) : Tail(q)[k] = e
<1>1. Tail(q) \in Seq(S) OBVIOUS
<1>2. ASSUME NEW e, NEW k \in DOMAIN q, q[k] = e, e # Head(q)
      PROVE  \E j \in DOMAIN Tail(q) : Tail(q)[j] = e
  <2>1. /\ Len(q) \in Nat \ {0} /\ DOMAIN q = 1..Len(q) /\ Head(q) = q[1]
        /\ Len(Tail(q)) = Len(q) - 1 /\ DOMAIN Tail(q) = 1..(Len(q) - 1)
        /\ \A j \in 1..(Len(q) - 1) : Tail(q)[j] = q[j + 1]
      OBVIOUS
  <2>2. k # 1 BY <1>2, <2>1
  <2>3. k - 1 \in 1..(Len(q) - 1) /\ (k - 1) + 1 = k BY <2>1, <2>2
  <2>4. Tail(q)[k - 1] = e BY <1>2, <2>1, <2>3
  <2> QED BY <2>1, <2>3, <2>4
<1> QED BY <1>1, <1>2

(* The newest watcher is retired, and the number of them stays. *)
LEMMA Retired ==
    ASSUME PanelType
    PROVE  /\ RetireWatcher \in Seq(Watcher)
           /\ Len(RetireWatcher) = Len(watchers)
<1>1. CASE watchers = <<>> BY <1>1 DEF RetireWatcher, PanelType
<1>2. CASE watchers # <<>>
  <2>1. Len(watchers) \in DOMAIN watchers BY <1>2 DEF PanelType
  <2>2. watchers[Len(watchers)] \in Watcher BY <2>1 DEF PanelType
  <2>5. [watchers[Len(watchers)] EXCEPT !.stopped = TRUE] \in Watcher BY <2>2 DEF Watcher
  <2> DEFINE new == [watchers[Len(watchers)] EXCEPT !.stopped = TRUE]
  <2>3. [watchers EXCEPT ![Len(watchers)] = new] \in Seq(Watcher)
      BY <2>1, <2>5 DEF PanelType
  <2>4. RetireWatcher = [watchers EXCEPT ![Len(watchers)] = new]
      BY <1>2 DEF RetireWatcher
  <2> QED BY <2>1, <2>3, <2>4 DEF PanelType
<1> QED BY <1>1, <1>2

(* A watcher that starts is the newest one, and it watches. *)
LEMMA Starts ==
    ASSUME PanelType, StartWatcher
    PROVE  watchers' \in Seq(Watcher) /\ Watching'
<1> DEFINE new == [stopped |-> FALSE, at |-> "look"]
<1>1. RetireWatcher \in Seq(Watcher) /\ new \in Watcher BY Retired DEF Watcher
<1>2. watchers' = Append(RetireWatcher, new) BY DEF StartWatcher
<1> HIDE DEF new
<1>3. /\ watchers' \in Seq(Watcher) /\ watchers' # <<>>
      /\ watchers'[Len(watchers')] = new
    BY <1>1, <1>2
<1> QED BY <1>3 DEF new, Watching

(* The lists of events and of watchers keep their types in every step. *)
LEMMA PanelTypeNext == PanelType /\ [Next]_vars => PanelType'
<1> SUFFICES ASSUME PanelType, [Next]_vars PROVE PanelType' OBVIOUS
<1>1. ASSUME NEW e, Takes(e), queue # <<>> PROVE queue' \in Seq(Events)
    BY <1>1, TailKeeps DEF Takes, PanelType
<1>2. ASSUME NEW e \in Events, queue' = Append(queue, e) PROVE queue' \in Seq(Events)
    BY <1>2 DEF PanelType
<1>3. ASSUME NEW l \in {"node", "demo"}, NEW b \in BOOLEAN, Spawn(l, b)
      PROVE  startBtn' \in BOOLEAN /\ childRuns' \in BOOLEAN /\ child' \in {"none", "node", "demo"}
    BY <1>3 DEF Spawn, pool, PanelType
<1>4. CASE StartNode
  <2>1. queue' = queue /\ watchers' = watchers /\ ready' = ready /\ tracked' = tracked
        /\ clicks' = clicks + 1 /\ ours' = ours
      BY <1>4 DEF StartNode, nodes
  <2>2. probes' \in Nat /\ pending' \in BOOLEAN
    <3>1. CASE manage /\ ~ready
      <4>1. probes' \in {probes, probes + 1} /\ pending' = TRUE BY <1>4, <3>1 DEF StartNode
      <4> QED BY <4>1 DEF PanelType
    <3>2. CASE ~(manage /\ ~ready)
      <4>1. probes' = probes /\ pending' = pending BY <1>4, <3>2 DEF StartNode
      <4> QED BY <4>1 DEF PanelType
    <3> QED BY <3>1, <3>2
  <2>3. startBtn' \in BOOLEAN /\ childRuns' \in BOOLEAN /\ child' \in {"none", "node", "demo"}
    <3>1. CASE manage /\ ~ready BY <1>4, <3>1 DEF StartNode, PanelType, pool, nodes
    <3>2. CASE ~(manage /\ ~ready)
        BY <1>4, <3>2, <1>3 DEF StartNode, PanelType
    <3> QED BY <3>1, <3>2
  <2> QED BY <2>1, <2>2, <2>3 DEF PanelType
<1>5. CASE RunDemo
  <2>1. startBtn' \in BOOLEAN /\ childRuns' \in BOOLEAN /\ child' \in {"none", "node", "demo"}
      BY <1>5, <1>3 DEF RunDemo, PanelType
  <2> QED BY <1>5, <2>1 DEF RunDemo, PanelType, nodes
<1>6. CASE Close
  <2>1. watchers' \in Seq(Watcher) BY <1>6, Retired DEF Close
  <2>2. ours' \in Seq(Pearld) /\ Len(ours') = Len(ours)
      BY <1>6 DEF Close, PanelType, TrackedIsDead, Pearld
  <2> QED BY <1>6, <2>1, <2>2 DEF Close, PanelType, buttons, nodes
<1>7. CASE ToggleManage BY <1>7 DEF ToggleManage, PanelType, buttons, pool, nodes
<1>8. CASE ChildEnds
  <2>1. queue' \in Seq(Events) BY <1>8, <1>2 DEF ChildEnds, Events
  <2> QED BY <1>8, <2>1 DEF ChildEnds, PanelType, buttons, nodes
<1>9. CASE OtherChanges BY <1>9 DEF OtherChanges, PanelType, buttons, pool, nodes
<1>10. CASE ProbeAnswers
  <2>1. queue' \in Seq(Events)
      BY <1>10, <1>2 DEF ProbeAnswers, Events
  <2>2. probes' \in Nat BY <1>10 DEF ProbeAnswers, PanelType
  <2> QED BY <1>10, <2>1, <2>2 DEF ProbeAnswers, PanelType, buttons, pool, nodes
<1>11. ASSUME NEW i \in DOMAIN ours, PearldSyncs(i) \/ PearldDies(i) PROVE PanelType'
  <2>1. ours' \in Seq(Pearld) /\ Len(ours') = Len(ours)
      BY <1>11 DEF PearldSyncs, PearldDies, PearldGoes, PanelType, Pearld
  <2> QED BY <1>11, <2>1 DEF PearldSyncs, PearldDies, PearldGoes, PanelType, buttons, pool
<1>12. ASSUME NEW w \in DOMAIN watchers, WatcherLooks(w) \/ WatcherAsks(w) \/ WatcherPosts(w) PROVE PanelType'
  <2>1. watchers' \in Seq(Watcher)
    <3>1. PICK at \in {"look", "ask", "won", "done"} :
              watchers' = [watchers EXCEPT ![w].at = at]
        BY <1>12 DEF WatcherLooks, WatcherAsks, WatcherMoves, WatcherPosts
    <3>4. watchers[w] \in Watcher BY <1>12 DEF PanelType
    <3>2. [watchers[w] EXCEPT !.at = at] \in Watcher BY <3>4 DEF Watcher
    <3> DEFINE new == [watchers[w] EXCEPT !.at = at]
    <3>3. [watchers EXCEPT ![w] = new] \in Seq(Watcher) BY <3>2 DEF PanelType
    <3> QED BY <3>1, <3>3
  <2>2. queue' \in Seq(Events) BY <1>12, <1>2 DEF WatcherLooks, WatcherAsks, WatcherMoves, WatcherPosts, Events, PanelType
  <2> QED BY <1>12, <2>1, <2>2 
      DEF WatcherLooks, WatcherAsks, WatcherMoves, WatcherPosts, PanelType, buttons, pool, nodes
<1>13. CASE BeginPoll BY <1>13 DEF BeginPoll, PanelType, buttons, pool, nodes
<1>14. CASE ChildExited
  <2>1. queue' \in Seq(Events) BY <1>14, <1>1 DEF ChildExited, Takes
  <2> QED BY <1>14, <2>1 DEF ChildExited, PanelType, nodes
<1>15. CASE ProbeSuperseded
  <2>1. queue' \in Seq(Events) BY <1>15, <1>1 DEF ProbeSuperseded, Takes
  <2> QED BY <1>15, <2>1 DEF ProbeSuperseded, PanelType, buttons, pool, nodes
<1>16. CASE Adopt
  <2>1. queue' \in Seq(Events) BY <1>16, <1>1 DEF Adopt, Takes
  <2>2. watchers' \in Seq(Watcher) BY <1>16, Starts DEF Adopt
  <2> QED BY <1>16, <2>1, <2>2 DEF Adopt, PanelType, buttons, pool, nodes
<1>17. CASE StartPearld
  <2>1. queue' \in Seq(Events) BY <1>17, <1>1 DEF StartPearld, Takes
  <2>2. watchers' \in Seq(Watcher) BY <1>17, Starts DEF StartPearld, PanelType
  <2>3. CASE /\ ours' = Append(ours, "syncing") /\ tracked' = Len(ours) + 1 /\ ready' = FALSE
             /\ UNCHANGED <<startBtn, pending>>
    <3>1. ours' \in Seq(Pearld) /\ Len(ours') = Len(ours) + 1 BY <2>3 DEF PanelType, Pearld
    <3>2. tracked' \in Nat /\ tracked' =< Len(ours') BY <2>3, <3>1 DEF PanelType
    <3>3. UNCHANGED <<child, childRuns, probes>> BY <1>17 DEF StartPearld, pool
    <3> QED BY <2>1, <2>2, <2>3, <3>1, <3>2, <3>3 DEF PanelType
  <2>4. CASE /\ UNCHANGED <<ours, tracked, ready>>
             /\ pending' \in {pending, FALSE} /\ startBtn' \in {startBtn, TRUE}
    <3>1. startBtn' \in BOOLEAN /\ pending' \in BOOLEAN BY <2>4 DEF PanelType
    <3> QED BY <1>17, <2>1, <2>2, <2>4, <3>1 DEF StartPearld, PanelType, pool
  <2> QED BY <1>17, <2>3, <2>4 DEF StartPearld
<1>18. CASE PearldReady
  <2>1. queue' \in Seq(Events) BY <1>18, <1>1 DEF PearldReady, Takes
  <2>2. startBtn' \in BOOLEAN /\ childRuns' \in BOOLEAN /\ child' \in {"none", "node", "demo"}
      BY <1>18, <1>3 DEF PearldReady, PanelType, buttons, pool, nodes
  <2> QED BY <1>18, <2>1, <2>2 DEF PearldReady, PanelType, nodes
<1>19. CASE EndPoll
  <2>1. watchers' \in Seq(Watcher) BY <1>19, Retired DEF EndPoll, PanelType
  <2>2. /\ startBtn' \in BOOLEAN /\ pending' \in BOOLEAN /\ ready' \in BOOLEAN
        /\ tracked' \in Nat /\ tracked' =< Len(ours)
    <3>1. CASE TrackedIsDead
      <4>1. /\ tracked' = 0 /\ ready' = FALSE /\ pending' = FALSE
            /\ startBtn' = (startBtn \/ pending)
          BY <1>19, <3>1 DEF EndPoll
      <4>2. startBtn' \in BOOLEAN BY <4>1
      <4>3. 0 =< Len(ours) BY DEF PanelType
      <4> QED BY <4>1, <4>2, <4>3
    <3>2. CASE ~TrackedIsDead BY <1>19, <3>2 DEF EndPoll, PanelType
    <3> QED BY <3>1, <3>2
  <2>3. UNCHANGED <<child, childRuns, probes, queue, ours>>
      BY <1>19 DEF EndPoll, pool, nodes
  <2> QED BY <2>1, <2>2, <2>3 DEF PanelType
<1>20. CASE UNCHANGED vars BY <1>20 DEF vars, PanelType, buttons, pool, nodes
<1> QED
    BY <1>4, <1>5, <1>6, <1>7, <1>8, <1>9, <1>10, <1>11, <1>12, <1>13, <1>14, <1>15, <1>16,
       <1>17, <1>18, <1>19, <1>20
    DEF Next, Poll

-----------------------------------------------------------------------------
(* What is due *)

(* The panel opens with nothing pending. *)
LEMMA PanelInit == Init => PanelType /\ PanelInv
<1> SUFFICES ASSUME Init PROVE PanelType /\ PanelInv OBVIOUS
<1>1. PanelType
  <2>1. <<>> \in Seq(Events) /\ <<>> \in Seq(Watcher) /\ <<>> \in Seq(Pearld) OBVIOUS
  <2>2. tracked =< Len(ours)
    <3>1. tracked = 0 /\ Len(ours) = 0 BY DEF Init
    <3> QED BY <3>1
  <2>3. tracked \in Nat /\ probes \in Nat BY DEF Init
  <2> QED BY <2>1, <2>2, <2>3, Zenon DEF Init, PanelType
<1>2. PanelInv
    BY DEF Init, PanelInv, ChildAccounted, PendingAnswered, TrackedWatched, DisabledForCause
<1> QED BY <1>1, <1>2

(* What is in the queue stays there while nothing takes it out. *)
LEMMA QueueGrows ==
    ASSUME PanelType, NEW e \in Events, queue' = Append(queue, e)
    PROVE  Queued(e)' /\ \A f : Queued(f) => Queued(f)'
<1>1. queue \in Seq(Events) BY DEF PanelType
<1>2. /\ \E k \in DOMAIN Append(queue, e) : Append(queue, e)[k] = e
      /\ \A f : (\E k \in DOMAIN queue : queue[k] = f)
               => \E k \in DOMAIN Append(queue, e) : Append(queue, e)[k] = f
    BY <1>1, AppendQueues
<1> QED BY <1>2 DEF Queued

(* Only the event that is taken leaves the queue. *)
LEMMA QueueShrinks ==
    ASSUME PanelType, NEW e, Takes(e)
    PROVE  \A f : f # e /\ Queued(f) => Queued(f)'
<1>1. queue \in Seq(Events) /\ queue # <<>> /\ Head(queue) = e /\ queue' = Tail(queue)
    BY DEF PanelType, Takes
<1>2. \A f : f # Head(queue) /\ (\E k \in DOMAIN queue : queue[k] = f)
              => \E k \in DOMAIN Tail(queue) : Tail(queue)[k] = f
    BY <1>1, TailKeeps
<1> QED BY <1>1, <1>2 DEF Queued

(* Every step keeps it. *)
LEMMA PanelInvNext == PanelType /\ PanelInv /\ [Next]_vars => PanelInv'
<1> SUFFICES ASSUME PanelType, PanelInv, [Next]_vars, open', polling' # "ended" PROVE PanelInv'
    BY DEF PanelInv
<1> USE DEF ChildAccounted, PendingAnswered, TrackedWatched, DisabledForCause
<1>0. open /\ polling # "ended"
    BY DEF Next, vars, Poll, ToggleManage, StartNode, RunDemo, Close, ChildEnds, OtherChanges,
           ProbeAnswers, PearldSyncs, PearldDies, PearldGoes, WatcherLooks, WatcherAsks, WatcherMoves,
           WatcherPosts,
           BeginPoll, ChildExited, ProbeSuperseded, Adopt, StartPearld, PearldReady, EndPoll, Takes,
           Idle
<1>1. ChildAccounted /\ PendingAnswered /\ TrackedWatched /\ DisabledForCause
    BY <1>0 DEF PanelInv
<1>2. ASSUME UNCHANGED <<queue, watchers>> PROVE \A f : (Queued(f)' <=> Queued(f)) /\ (Watching' <=> Watching)
    BY <1>2 DEF Queued, Watching
<1>3. ASSUME NEW l \in {"node", "demo"}, NEW b, Spawn(l, b), UNCHANGED queue
      PROVE  ChildAccounted'
    BY <1>1, <1>3 DEF Spawn, pool, Queued
<1>4. CASE UNCHANGED <<startBtn, child, childRuns, tracked, ready, pending, watchers, probes, queue>>
    BY <1>1, <1>2, <1>4 DEF PanelInv
<1>5. CASE StartNode
  <2>1. CASE manage /\ ~ready
    <3>1. /\ pending' = TRUE /\ UNCHANGED <<queue, watchers, child, childRuns, tracked, ready>>
          /\ probes' = IF tracked # 0 /\ ~TrackedIsDead THEN probes ELSE probes + 1
        BY <1>5, <2>1 DEF StartNode, pool
    <3>2. PendingAnswered'
      <4>1. CASE tracked # 0
          BY <1>1, <1>2, <2>1, <3>1, <4>1
      <4>2. CASE tracked = 0
        <5>1. probes' > 0 BY <3>1, <4>2 DEF PanelType
        <5> QED BY <5>1
      <4> QED BY <4>1, <4>2
    <3> QED BY <1>1, <1>2, <3>1, <3>2 DEF PanelInv
  <2>2. CASE ~(manage /\ ~ready)
    <3>1. /\ Spawn("node", startBtn) /\ startBtn
          /\ UNCHANGED <<pending, probes, tracked, ready, watchers, queue>>
        BY <1>5, <2>2 DEF StartNode
    <3>2. ~startBtn' => child' # "none" BY <3>1 DEF Spawn
    <3> QED BY <1>1, <1>2, <1>3, <3>1, <3>2 DEF PanelInv
  <2> QED BY <2>1, <2>2
<1>6. CASE RunDemo
  <2>1. Spawn("demo", startBtn) /\ UNCHANGED <<tracked, ready, pending, watchers, probes, queue>>
      BY <1>6 DEF RunDemo
  <2>2. ~startBtn' => pending' \/ child' # "none" BY <1>1, <2>1 DEF Spawn, pool
  <2> QED BY <1>1, <1>2, <1>3, <2>1, <2>2 DEF PanelInv
<1>7. CASE ChildEnds
  <2>1. /\ queue' = Append(queue, "exit")
        /\ UNCHANGED <<startBtn, child, tracked, ready, pending, watchers, probes>>
      BY <1>7 DEF ChildEnds, buttons
  <2>2. Queued("exit")' /\ \A f : Queued(f) => Queued(f)' BY <2>1, QueueGrows DEF Events
  <2>3. Watching' <=> Watching BY <2>1 DEF Watching
  <2> QED BY <1>1, <2>1, <2>2, <2>3 DEF PanelInv
<1>8. CASE ProbeAnswers
  <2>1. PICK e \in {"served", "unserved"} : queue' = Append(queue, e)
      BY <1>8 DEF ProbeAnswers
  <2>2. Queued(e)' /\ \A f : Queued(f) => Queued(f)' BY <2>1, QueueGrows DEF Events
  <2>3. UNCHANGED <<startBtn, child, childRuns, tracked, ready, pending, watchers>>
      BY <1>8 DEF ProbeAnswers, buttons, pool
  <2>4. Watching' <=> Watching BY <2>3 DEF Watching
  <2> QED BY <1>1, <2>2, <2>3, <2>4 DEF PanelInv
<1>9. ASSUME NEW w \in DOMAIN watchers, WatcherLooks(w) \/ WatcherAsks(w) PROVE PanelInv'
  <2>1. UNCHANGED <<startBtn, child, childRuns, tracked, ready, pending, probes, queue>>
      BY <1>9 DEF WatcherLooks, WatcherAsks, WatcherMoves, buttons, pool
  <2>2. Watching => Watching'
    <3>1. CASE WatcherAsks(w)
        BY <3>1 DEF Watching, WatcherAsks, WatcherMoves, PanelType
    <3>2. CASE WatcherLooks(w) /\ watchers[w].stopped
        BY <3>2 DEF Watching, WatcherLooks, WatcherMoves, PanelType
    <3>3. CASE WatcherLooks(w) /\ ~watchers[w].stopped
        BY <3>3 DEF Watching, WatcherLooks, WatcherMoves, PanelType
    <3> QED BY <1>9, <3>1, <3>2, <3>3
  <2>3. \A f : Queued(f)' <=> Queued(f) BY <2>1 DEF Queued
  <2> QED BY <1>1, <2>1, <2>2, <2>3 DEF PanelInv
<1>10. ASSUME NEW w \in DOMAIN watchers, WatcherPosts(w) PROVE PanelInv'
  <2>1. /\ queue' = Append(queue, "ready")
        /\ UNCHANGED <<startBtn, child, childRuns, tracked, ready, pending, probes>>
      BY <1>10 DEF WatcherPosts, buttons, pool
  <2>2. Queued("ready")' /\ \A f : Queued(f) => Queued(f)' BY <2>1, QueueGrows DEF Events
  <2> QED BY <1>1, <2>1, <2>2 DEF PanelInv
<1>11. CASE ChildExited
  <2>1. /\ Takes("exit") /\ child' = "none" /\ startBtn' = TRUE
        /\ UNCHANGED <<tracked, ready, pending, watchers, probes>>
      BY <1>11 DEF ChildExited
  <2>2. \A f : f # "exit" /\ Queued(f) => Queued(f)' BY <2>1, QueueShrinks
  <2>3. Watching' <=> Watching BY <2>1 DEF Watching
  <2> QED BY <1>1, <2>1, <2>2, <2>3 DEF PanelInv
<1>12. CASE ProbeSuperseded
  <2>1. PICK e \in {"served", "unserved"} : Takes(e) BY <1>12 DEF ProbeSuperseded
  <2>2. ~pending /\ UNCHANGED <<startBtn, child, childRuns, tracked, ready, pending, watchers>>
      BY <1>12 DEF ProbeSuperseded, buttons, pool
  <2>3. \A f : f # e /\ Queued(f) => Queued(f)' BY <2>1, QueueShrinks
  <2>4. Watching' <=> Watching BY <2>2 DEF Watching
  <2> QED BY <1>1, <2>1, <2>2, <2>3, <2>4 DEF PanelInv
<1>13. CASE Adopt
  <2>1. /\ Takes("served") /\ StartWatcher
        /\ UNCHANGED <<startBtn, child, childRuns, tracked, ready, pending>>
      BY <1>13 DEF Adopt, buttons, pool
  <2>2. Watching' BY <2>1, Starts
  <2>3. \A f : f # "served" /\ Queued(f) => Queued(f)' BY <2>1, QueueShrinks
  <2> QED BY <1>1, <2>1, <2>2, <2>3 DEF PanelInv
<1>14. CASE StartPearld
  <2>1. Takes("unserved") /\ UNCHANGED <<child, childRuns, probes>>
      BY <1>14 DEF StartPearld, pool
  <2>2. \A f : f # "unserved" /\ Queued(f) => Queued(f)' BY <2>1, QueueShrinks
  <2>5. polling' # "ended" OBVIOUS
  <2>3. CASE StartWatcher /\ UNCHANGED <<startBtn, pending>>
    <3>1. Watching' BY <2>3, Starts
    <3> QED BY <1>1, <2>1, <2>2, <2>3, <3>1 DEF PanelInv
  <2>4. CASE pending' = FALSE /\ startBtn' = TRUE /\ UNCHANGED <<tracked, ready, watchers>>
    <3>1. Watching' <=> Watching BY <2>4 DEF Watching
    <3> QED BY <1>1, <2>1, <2>2, <2>4, <3>1 DEF PanelInv
  <2> QED BY <1>14, <2>3, <2>4, <2>5 DEF StartPearld
<1>15. CASE PearldReady
  <2>1. /\ Takes("ready") /\ ready' = TRUE /\ pending' = FALSE
        /\ IF pending THEN Spawn("node", TRUE) ELSE UNCHANGED <<buttons, pool>>
      BY <1>15 DEF PearldReady
  <2>2. \A f : f # "ready" /\ Queued(f) => Queued(f)' BY <2>1, QueueShrinks
  <2>3. ChildAccounted' BY <1>1, <2>1, <2>2 DEF Spawn, pool
  <2>4. ~startBtn' => child' # "none" BY <1>1, <2>1 DEF Spawn, pool, buttons
  <2> QED BY <2>1, <2>3, <2>4 DEF PanelInv
<1>16. CASE EndPoll
  <2>1. UNCHANGED <<child, childRuns, probes, queue>> BY <1>16 DEF EndPoll, pool
  <2>2. \A f : Queued(f)' <=> Queued(f) BY <2>1 DEF Queued
  <2>3. CASE TrackedIsDead
    <3>1. tracked' = 0 /\ pending' = FALSE /\ startBtn' = (startBtn \/ pending)
        BY <1>16, <2>3 DEF EndPoll
    <3> QED BY <1>1, <2>1, <2>2, <3>1 DEF PanelInv
  <2>4. CASE ~TrackedIsDead
    <3>1. UNCHANGED <<tracked, ready, pending, watchers, startBtn>> BY <1>16, <2>4 DEF EndPoll
    <3> QED BY <1>4, <2>1, <3>1
  <2> QED BY <2>3, <2>4
<1>17. CASE ToggleManage BY <1>4, <1>17 DEF ToggleManage, buttons, pool
<1>18. CASE OtherChanges BY <1>4, <1>18 DEF OtherChanges, buttons, pool
<1>19. CASE BeginPoll BY <1>4, <1>19 DEF BeginPoll, buttons, pool
<1>20. ASSUME NEW i \in DOMAIN ours, PearldSyncs(i) \/ PearldDies(i) PROVE PanelInv'
    BY <1>4, <1>20 DEF PearldSyncs, PearldDies, PearldGoes, buttons, pool
<1>21. CASE UNCHANGED vars BY <1>4, <1>21 DEF vars, buttons, pool
<1>22. ~Close BY DEF Close
<1> QED
    BY <1>5, <1>6, <1>7, <1>8, <1>9, <1>10, <1>11, <1>12, <1>13, <1>14, <1>15, <1>16, <1>17,
       <1>18, <1>19, <1>20, <1>21, <1>22
    DEF Next, Poll

(* A watcher of the panel's own pearld has one that may serve, or its end  *)
(* is seen by poll.                                                        *)
LEMMA WatchedMayServe ==
    ASSUME PanelType, Watching PROVE MayServe \/ TrackedIsDead \/ AdoptedIsGone
<1>1. CASE tracked = 0 BY <1>1 DEF AdoptedIsGone
<1>2. CASE tracked # 0
  <2>1. tracked \in DOMAIN ours BY <1>2 DEF PanelType
  <2> QED BY <1>2, <2>1 DEF TrackedIsDead, MayServe
<1> QED BY <1>1, <1>2

(***************************************************************************)
(* The inductive invariant of the panel: while poll runs, a child, a       *)
(* pending start and a tracked pearld that is not ready each have an event *)
(* on its way to poll, or a watcher that may post one.                     *)
(***************************************************************************)
THEOREM PanelInvariance == Spec => [](PanelType /\ PanelInv)
<1>1. Init => PanelType /\ PanelInv BY PanelInit
<1>2. PanelType /\ PanelInv /\ [Next]_vars => (PanelType /\ PanelInv)'
    BY PanelTypeNext, PanelInvNext
<1> QED BY <1>1, <1>2, PTL DEF Spec

(***************************************************************************)
(* Whatever the user clicks and whatever lives, dies and answers in        *)
(* whatever order, a disabled Start has something on its way to enable it  *)
(* while poll runs, for any number of clicks; an adopted pearld that has   *)
(* gone is the one exception.                                              *)
(***************************************************************************)
THEOREM StartCorrect == Spec => []StartIsNeverStuck
<1>1. PanelType /\ PanelInv => StartIsNeverStuck
    BY WatchedMayServe
    DEF PanelInv, ChildAccounted, PendingAnswered, DisabledForCause, AnswerDue, StartIsNeverStuck
<1> QED BY <1>1, PanelInvariance, PTL
=============================================================================
