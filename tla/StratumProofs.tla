--------------------------- MODULE StratumProofs ----------------------------
(***************************************************************************)
(* Proofs about the miners' jobs, for any number of connections, changes   *)
(* of the work, handshakes and ends of connections: no request for a       *)
(* refresh is lost, no miner is sent a job on older work than the one it   *)
(* has, and while the registry has room it knows every miner's last job.   *)
(***************************************************************************)
EXTENDS Stratum, SequenceTheorems, FiniteSetTheorems, TLAPS

-----------------------------------------------------------------------------
(* Types *)

Jobs == [miner : Miners, work : Nat, seq : Nat]

Waiting == [job : Jobs, by : {"reader", "refresh"}]

Connection ==
    [state : {"closed", "open", "ready"}, address : BOOLEAN, replying : BOOLEAN,
     queue : Seq(Waiting), given : Jobs \cup {NoJob}]

StratumType ==
    /\ work \in Nat /\ seq \in Nat /\ synced \in BOOLEAN
    /\ refresh \in {"idle", "scheduled", "running"} /\ again \in BOOLEAN
    /\ todo \subseteq Miners
    /\ conn \in [Miners -> Connection]

-----------------------------------------------------------------------------
(* What the proofs rest on *)

(* An idle task has been asked for nothing, and only a running one pushes. *)
TaskAtRest == /\ refresh = "idle" => ~again
              /\ refresh # "running" => todo = {}

(* A miner without a job on the present work has one coming: a push of this round, the next  *)
(* round, or, for work that came without a request, the next request *)
Due(c) == c \in todo \/ synced \/ again \/ refresh = "scheduled"

Remembered(c) == Served(c) => Newest(c) \in Jobs /\ (Newest(c).work = work \/ Due(c))

NobodyForgotten == \A c \in Miners : Remembered(c)

(* The works of the jobs l are in the order in which the work changed *)
Ordered(l) == \A j, k \in DOMAIN l : j =< k => l[j].job.work =< l[k].job.work

(* A miner's jobs, the one it has before those it is being sent *)
InOrder(c) ==
    /\ Ordered(conn[c].queue)
    /\ \A k \in DOMAIN conn[c].queue : conn[c].queue[k].job.work =< work
    /\ conn[c].given # NoJob =>
           /\ conn[c].given.work =< work
           /\ \A k \in DOMAIN conn[c].queue : conn[c].given.work =< conn[c].queue[k].job.work

JobsOrdered == \A c \in Miners : InOrder(c)

StratumInv == StratumType /\ TaskAtRest /\ NobodyForgotten /\ JobsOrdered

-----------------------------------------------------------------------------
(* The server's steps on one connection *)

(* A job that joins those waiting is the last of them. *)
LEMMA JoinsLast ==
    ASSUME NEW q \in Seq(Waiting), NEW x \in Waiting
    PROVE  LET new == q \o <<x>>
           IN  /\ new \in Seq(Waiting) /\ new # <<>> /\ Last(new) = x
               /\ DOMAIN new = 1..(Len(q) + 1) /\ DOMAIN q = 1..Len(q) /\ Len(q) \in Nat
               /\ \A k \in DOMAIN q : new[k] = q[k]
               /\ new[Len(q) + 1] = x
BY DEF Last

(* A push changes one connection only: a job on the present work is waiting on it. *)
LEMMA Minted ==
    ASSUME StratumType, NEW c \in Miners, NEW who \in {"reader", "refresh"}, MintFor(c, who)
    PROVE  /\ seq' \in Nat /\ conn' \in [Miners -> Connection]
           /\ \A d \in Miners \ {c} : conn'[d] = conn[d]
           /\ conn'[c].state = conn[c].state /\ conn'[c].given = conn[c].given
           /\ conn'[c].address = conn[c].address
           /\ conn'[c].replying = (conn[c].replying /\ who # "reader")
           /\ \/ /\ conn'[c].queue = conn[c].queue
                 /\ ~(conn[c].address /\ conn[c].state # "closed")
              \/ \E x \in Waiting : /\ x.job = Job(c, work, (seq + 1) % SeqRange)
                                    /\ x.job.work = work
                                    /\ conn'[c].queue = conn[c].queue \o <<x>>
<1> DEFINE job == Job(c, work, (seq + 1) % SeqRange)
           x == [job |-> job, by |-> who]
           sent == conn[c].address /\ conn[c].state # "closed"
           waits == IF sent THEN <<x>> ELSE <<>>
           stays == conn[c].replying /\ who # "reader"
           new == [[conn[c] EXCEPT !.queue = @ \o waits] EXCEPT !.replying = stays]
<1>1. conn[c] \in Connection BY DEF StratumType
<1>2. (seq + 1) % SeqRange \in Nat BY StratumAssumption DEF StratumType
<1>3. x \in Waiting /\ x.job = job /\ x.job.work = work
  <2>1. job \in Jobs /\ job.work = work BY <1>2 DEF Job, Jobs, StratumType
  <2> QED BY <2>1 DEF Waiting
<1>4. seq' \in Nat BY <1>2 DEF MintFor, Job, jobs, StratumType
<1>5. conn' = [conn EXCEPT ![c].queue = @ \o waits, ![c].replying = stays]
    BY DEF MintFor
<1>6. conn[c].queue \in Seq(Waiting) BY <1>1 DEF Connection
<1>7. conn[c].queue \o waits \in Seq(Waiting) BY <1>3, <1>6
<1>8. stays \in BOOLEAN OBVIOUS
<1>9. conn[c].queue \o <<>> = conn[c].queue BY <1>6
<1>10. waits = IF sent THEN <<x>> ELSE <<>> OBVIOUS
<1> HIDE DEF waits, stays, x, sent
<1>11. /\ new \in Connection
       /\ new.state = conn[c].state /\ new.given = conn[c].given
       /\ new.address = conn[c].address /\ new.replying = stays
       /\ new.queue = conn[c].queue \o waits
    BY <1>1, <1>7, <1>8 DEF Connection
<1>12. conn' = [conn EXCEPT ![c] = new] BY <1>5 DEF StratumType
<1>13. /\ conn' \in [Miners -> Connection] /\ conn'[c] = new
       /\ \A d \in Miners \ {c} : conn'[d] = conn[d]
    BY <1>11, <1>12 DEF StratumType
<1> QED BY <1>3, <1>4, <1>9, <1>10, <1>11, <1>13 DEF sent, stays

(* A handshake changes one connection only, and leaves it waiting for its answer. *)
LEMMA Shaken ==
    ASSUME StratumType, NEW c \in Miners, Subscribe(c) \/ Authorize(c)
    PROVE  /\ conn'[c].replying /\ conn'[c].state = "ready"
           /\ conn'[c].queue = conn[c].queue /\ conn'[c].given = conn[c].given
           /\ \A d \in Miners \ {c} : conn'[d] = conn[d]
<1>1. conn \in [Miners -> Connection] /\ conn[c] \in Connection BY DEF StratumType
<1>2. CASE Subscribe(c) BY <1>1, <1>2 DEF Subscribe, Connection
<1>3. CASE Authorize(c)
  <2>1. PICK valid \in BOOLEAN :
           conn' = [conn EXCEPT ![c].state = "ready", ![c].address = valid, ![c].replying = TRUE]
      BY <1>3 DEF Authorize
  <2> QED BY <1>1, <2>1 DEF Connection
<1> QED BY <1>2, <1>3

(* A connection of which the other fields change keeps its type. *)
LEMMA Updated ==
    ASSUME StratumType, NEW c \in Miners, NEW new \in Connection, conn' = [conn EXCEPT ![c] = new]
    PROVE  /\ conn' \in [Miners -> Connection] /\ conn'[c] = new
           /\ \A d \in Miners \ {c} : conn'[d] = conn[d]
BY DEF StratumType

-----------------------------------------------------------------------------
(* One connection from step to step *)

(* What a connection that nothing happens to keeps, when the work does not go back. *)
LEMMA Untouched ==
    ASSUME StratumType, StratumType', NEW c \in Miners, conn'[c] = conn[c], work =< work'
    PROVE  /\ InOrder(c) => InOrder(c)'
           /\ Served(c)' = Served(c) /\ Newest(c)' = Newest(c)
<1>1. Served(c)' = Served(c) /\ Newest(c)' = Newest(c) BY DEF Served, Newest
<1>2. ASSUME InOrder(c) PROVE InOrder(c)'
  <2>1. conn[c] \in Connection /\ work \in Nat /\ work' \in Nat BY DEF StratumType
  <2>2. ASSUME NEW k \in DOMAIN conn[c].queue PROVE conn[c].queue[k].job.work \in Nat
    <3>1. conn[c].queue \in Seq(Waiting) BY <2>1 DEF Connection
    <3>2. conn[c].queue[k] \in Waiting BY <2>2, <3>1
    <3> QED BY <3>2 DEF Waiting, Jobs
  <2>3. conn[c].given # NoJob => conn[c].given.work \in Nat BY <2>1 DEF Connection, Jobs
  <2>4. ASSUME NEW k \in DOMAIN conn[c].queue PROVE conn[c].queue[k].job.work =< work'
      BY <1>2, <2>1, <2>2, <2>4 DEF InOrder
  <2>5. conn[c].given # NoJob => conn[c].given.work =< work' BY <1>2, <2>1, <2>3 DEF InOrder
  <2>6. Ordered(conn[c].queue)' BY <1>2 DEF InOrder, Ordered
  <2> QED BY <1>2, <2>4, <2>5, <2>6 DEF InOrder
<1> QED BY <1>1, <1>2

(* A job on the present work that joins the last of them keeps the order. *)
LEMMA Joined ==
    ASSUME StratumType, StratumType', NEW c \in Miners, NEW x \in Waiting,
           x.job.work = work, work' = work, InOrder(c),
           conn'[c].queue = conn[c].queue \o <<x>>, conn'[c].given = conn[c].given
    PROVE  InOrder(c)' /\ Newest(c)' \in Jobs /\ Newest(c)'.work = work
<1> DEFINE q == conn[c].queue
           new == q \o <<x>>
<1>1. q \in Seq(Waiting) BY DEF StratumType, Connection
<1>2. /\ new \in Seq(Waiting) /\ new # <<>> /\ Last(new) = x
      /\ DOMAIN new = 1..(Len(q) + 1) /\ DOMAIN q = 1..Len(q) /\ Len(q) \in Nat
      /\ \A k \in DOMAIN q : new[k] = q[k]
      /\ new[Len(q) + 1] = x
    BY <1>1, JoinsLast
<1>3. Newest(c)' = x.job BY <1>2 DEF Newest
<1>4. x.job \in Jobs BY DEF Waiting
<1>5. ASSUME NEW k \in DOMAIN new
      PROVE  new[k].job.work \in Nat /\ new[k].job.work =< work
  <2>0. work \in Nat BY DEF StratumType
  <2>1. CASE k = Len(q) + 1 BY <1>2, <2>0, <2>1
  <2>2. CASE k # Len(q) + 1
    <3>1. k \in DOMAIN q BY <1>2, <1>5, <2>2
    <3>2. new[k] \in Waiting BY <1>1, <1>2, <3>1
    <3>3. new[k].job.work \in Nat BY <3>2 DEF Waiting, Jobs
    <3> QED BY <1>2, <3>1, <3>3 DEF InOrder
  <2> QED BY <2>1, <2>2
<1>6. ASSUME NEW j \in DOMAIN new, NEW k \in DOMAIN new, j =< k
      PROVE  new[j].job.work =< new[k].job.work
  <2>1. CASE k = Len(q) + 1 BY <1>2, <1>5, <2>1
  <2>2. CASE k # Len(q) + 1
    <3>1. j \in DOMAIN q /\ k \in DOMAIN q BY <1>2, <1>6, <2>2
    <3> QED BY <1>2, <1>6, <3>1 DEF InOrder, Ordered
  <2> QED BY <2>1, <2>2
<1>7. ASSUME conn[c].given # NoJob, NEW k \in DOMAIN new
      PROVE  conn[c].given.work =< new[k].job.work
  <2>1. conn[c].given.work =< work BY <1>7 DEF InOrder
  <2>2. CASE k = Len(q) + 1 BY <1>2, <2>1, <2>2
  <2>3. CASE k # Len(q) + 1
    <3>1. k \in DOMAIN q BY <1>2, <1>7, <2>3
    <3> QED BY <1>2, <1>7, <3>1 DEF InOrder
  <2> QED BY <2>2, <2>3
<1>8. Ordered(new) BY <1>6 DEF Ordered
<1>9. conn'[c].queue = new OBVIOUS
<1>10. conn[c].given # NoJob => conn[c].given.work =< work BY DEF InOrder
<1> HIDE DEF new, q
<1>11. Ordered(conn[c].queue)' BY <1>8, <1>9 DEF Ordered
<1>12. InOrder(c)' BY <1>5, <1>7, <1>9, <1>10, <1>11 DEF InOrder
<1> QED BY <1>3, <1>4, <1>12

(* A job that is sent is not older than the one before, and the newest stays the newest. *)
LEMMA Sent ==
    ASSUME StratumType, StratumType', NEW c \in Miners, conn[c].queue # <<>>, work' = work,
           conn'[c].given = Head(conn[c].queue).job, conn'[c].queue = Tail(conn[c].queue),
           InOrder(c)
    PROVE  /\ InOrder(c)' /\ Newest(c)' = Newest(c)
           /\ conn[c].given # NoJob => conn[c].given.work =< conn'[c].given.work
<1> DEFINE q == conn[c].queue
           rest == Tail(q)
<1>1. q \in Seq(Waiting) /\ q # <<>> BY DEF StratumType, Connection
<1>2. /\ Len(q) \in Nat \ {0} /\ DOMAIN q = 1..Len(q) /\ DOMAIN rest = 1..(Len(q) - 1)
      /\ \A k \in DOMAIN rest : rest[k] = q[k + 1] /\ k + 1 \in DOMAIN q
      /\ Head(q) = q[1] /\ 1 \in DOMAIN q /\ rest \in Seq(Waiting)
      /\ Len(rest) = Len(q) - 1
    BY <1>1
<1>3. /\ \A k \in DOMAIN q : q[k].job.work =< work
      /\ \A j, k \in DOMAIN q : j =< k => q[j].job.work =< q[k].job.work
    BY DEF InOrder, Ordered
<1>4. \A j, k \in DOMAIN rest : j =< k => rest[j].job.work =< rest[k].job.work
  <2> SUFFICES ASSUME NEW j \in DOMAIN rest, NEW k \in DOMAIN rest, j =< k
               PROVE  rest[j].job.work =< rest[k].job.work
      OBVIOUS
  <2>1. j + 1 =< k + 1 BY <1>2
  <2> QED BY <1>2, <1>3, <2>1
<1>5. /\ \A k \in DOMAIN rest : rest[k].job.work =< work
      /\ \A k \in DOMAIN rest : Head(q).job.work =< rest[k].job.work
      /\ Head(q).job.work =< work
  <2>1. \A k \in DOMAIN rest : rest[k].job.work =< work BY <1>2, <1>3
  <2>2. ASSUME NEW k \in DOMAIN rest PROVE q[1].job.work =< q[k + 1].job.work
    <3>1. 1 =< k + 1 BY <1>2
    <3> QED BY <1>2, <1>3, <3>1
  <2> QED BY <1>2, <1>3, <2>1, <2>2
<1>6. Newest(c)' = Newest(c)
  <2>1. CASE rest = <<>>
    <3>1. Len(<<>>) = 0 OBVIOUS
    <3>2. Len(q) = 1
      <4>1. Len(rest) = 0 BY <2>1, <3>1, Zenon
      <4> QED BY <1>2, <4>1
    <3>3. Last(q) = Head(q) BY <1>2, <3>2 DEF Last
    <3> QED BY <1>1, <2>1, <3>3 DEF Newest
  <2>2. CASE rest # <<>>
    <3>1. Len(q) - 1 \in DOMAIN rest BY <1>2, <2>2
    <3>2. Last(rest) = Last(q) BY <1>2, <3>1 DEF Last
    <3> QED BY <1>1, <2>2, <3>2 DEF Newest
  <2> QED BY <2>1, <2>2
<1>7. conn[c].given # NoJob => conn[c].given.work =< Head(q).job.work
    BY <1>2 DEF InOrder
<1> HIDE DEF q
<1>8. InOrder(c)' BY <1>4, <1>5 DEF InOrder, Ordered, q
<1> QED BY <1>6, <1>7, <1>8 DEF q

-----------------------------------------------------------------------------
(* Types and rest *)

(* The server starts with every connection closed. *)
LEMMA StratumInit == Init => StratumInv
<1> SUFFICES ASSUME Init PROVE StratumInv OBVIOUS
<1>1. StratumType
  <2>1. Closed \in Connection
    <3>1. <<>> \in Seq(Waiting) OBVIOUS
    <3> QED BY <3>1 DEF Closed, Connection
  <2> QED BY <2>1 DEF Init, StratumType
<1>2. TaskAtRest BY DEF Init, TaskAtRest
<1>3. \A c \in Miners : conn[c] = Closed BY DEF Init
<1>4. \A c \in Miners : Remembered(c) BY <1>3 DEF Closed, Remembered, Served
<1>5. \A c \in Miners : InOrder(c)
  <2> SUFFICES ASSUME NEW c \in Miners PROVE InOrder(c) OBVIOUS
  <2>1. conn[c].queue = <<>> /\ conn[c].given = NoJob BY <1>3 DEF Closed
  <2> QED BY <2>1 DEF InOrder, Ordered
<1> QED BY <1>1, <1>2, <1>4, <1>5 DEF StratumInv, NobodyForgotten, JobsOrdered

(* The variables keep their types. *)
LEMMA StratumTypeNext == StratumType /\ [Next]_vars => StratumType'
<1> SUFFICES ASSUME StratumType, [Next]_vars PROVE StratumType' OBVIOUS
<1>1. ASSUME Request PROVE refresh' \in {"idle", "scheduled", "running"} /\ again' \in BOOLEAN /\ todo' = todo
    BY <1>1 DEF Request, StratumType
<1>2. ASSUME Round PROVE refresh' = "running" /\ again' = FALSE /\ todo' \subseteq Miners /\ synced' = FALSE
    BY <1>2 DEF Round, Ready
<1>3. CASE NewWork BY <1>1, <1>3 DEF NewWork, StratumType, jobs
<1>4. CASE SyncedWork BY <1>4 DEF SyncedWork, StratumType, jobs, task
<1>5. CASE Poll BY <1>1, <1>5 DEF Poll, StratumType, jobs
<1>6. CASE StartRefresh BY <1>2, <1>6 DEF StartRefresh, StratumType, jobs
<1>7. CASE EndRound BY <1>2, <1>7 DEF EndRound, StratumType, jobs
<1>8. ASSUME NEW c \in Miners, NEW a \in BOOLEAN,
             \/ conn' = [conn EXCEPT ![c].state = "ready", ![c].replying = TRUE]
             \/ conn' = [conn EXCEPT ![c].state = "ready", ![c].address = a, ![c].replying = TRUE]
      PROVE  conn' \in [Miners -> Connection]
  <2> DEFINE old == [conn[c] EXCEPT !.state = "ready", !.replying = TRUE]
             new == [conn[c] EXCEPT !.state = "ready", !.address = a, !.replying = TRUE]
  <2>1. conn[c] \in Connection BY DEF StratumType
  <2>2. old \in Connection /\ new \in Connection BY <2>1 DEF Connection
  <2>3. conn' = [conn EXCEPT ![c] = old] \/ conn' = [conn EXCEPT ![c] = new]
      BY <1>8 DEF StratumType
  <2> QED BY <2>2, <2>3, Updated
<1>9. ASSUME NEW c \in Miners, NEW new \in [state : {"closed", "open"}, address : BOOLEAN,
                                            replying : BOOLEAN, queue : {<<>>}, given : {NoJob}],
             conn' = [conn EXCEPT ![c] = new]
      PROVE  conn' \in [Miners -> Connection]
  <2>1. <<>> \in Seq(Waiting) OBVIOUS
  <2>2. new \in Connection BY <2>1 DEF Connection
  <2> QED BY <1>9, <2>2, Updated
<1>10. ASSUME NEW c \in Miners, Push(c) PROVE StratumType'
  <2>1. MintFor(c, "refresh") /\ todo' \subseteq Miners /\ UNCHANGED <<work, synced, refresh, again>>
      BY <1>10 DEF Push, StratumType
  <2>2. seq' \in Nat /\ conn' \in [Miners -> Connection] BY <2>1, Minted
  <2> QED BY <2>1, <2>2 DEF StratumType
<1>11. ASSUME NEW c \in Miners, PushJob(c) PROVE StratumType'
  <2>1. MintFor(c, "reader") /\ UNCHANGED <<work, synced, refresh, again, todo>>
      BY <1>11 DEF PushJob, task
  <2>2. seq' \in Nat /\ conn' \in [Miners -> Connection] BY <2>1, Minted
  <2> QED BY <2>1, <2>2 DEF StratumType
<1>12. ASSUME NEW c \in Miners, Connect(c) \/ Subscribe(c) \/ Authorize(c) PROVE StratumType'
  <2>1. CASE Connect(c)
    <3>1. conn' \in [Miners -> Connection] BY <1>9, <2>1 DEF Connect, Closed
    <3> QED BY <2>1, <3>1 DEF Connect, jobs, task, StratumType
  <2>2. CASE Subscribe(c)
    <3>1. conn' \in [Miners -> Connection] BY <1>8, <2>2 DEF Subscribe
    <3> QED BY <2>2, <3>1 DEF Subscribe, jobs, task, StratumType
  <2>3. CASE Authorize(c)
    <3>1. conn' \in [Miners -> Connection] BY <1>8, <2>3 DEF Authorize
    <3> QED BY <2>3, <3>1 DEF Authorize, jobs, task, StratumType
  <2> QED BY <1>12, <2>1, <2>2, <2>3
<1>13. ASSUME NEW c \in Miners, Send(c) PROVE StratumType'
  <2> DEFINE q == conn[c].queue
             new == [conn[c] EXCEPT !.given = Head(q).job, !.queue = Tail(q)]
  <2>1. conn[c] \in Connection /\ q # <<>> BY <1>13 DEF StratumType, Send
  <2>2. q \in Seq(Waiting) BY <2>1 DEF Connection
  <2>3. Tail(q) \in Seq(Waiting) /\ Head(q) \in Waiting BY <2>1, <2>2
  <2>4. Head(q).job \in Jobs BY <2>3 DEF Waiting
  <2>5. new \in Connection BY <2>1, <2>3, <2>4 DEF Connection
  <2>6. conn' = [conn EXCEPT ![c] = new] BY <1>13 DEF Send, StratumType
  <2>7. conn' \in [Miners -> Connection] BY <2>5, <2>6, Updated
  <2> QED BY <1>13, <2>7 DEF Send, jobs, task, StratumType
<1>14. ASSUME NEW c \in Miners, Close(c) PROVE StratumType'
  <2>1. conn[c] \in Connection BY DEF StratumType
  <2>2. PICK late \in {FALSE, conn[c].replying} :
           conn' = [conn EXCEPT ![c] =
                        [Closed EXCEPT !.address = conn[c].address, !.replying = late]]
      BY <1>14 DEF Close
  <2>3. late \in BOOLEAN /\ conn[c].address \in BOOLEAN BY <2>1 DEF Connection
  <2>4. conn' \in [Miners -> Connection] BY <1>9, <2>2, <2>3 DEF Closed
  <2> QED BY <1>14, <2>4 DEF Close, jobs, task, StratumType
<1>15. CASE UNCHANGED vars BY <1>15 DEF vars, jobs, task, StratumType
<1> QED
    BY <1>3, <1>4, <1>5, <1>6, <1>7, <1>10, <1>11, <1>12, <1>13, <1>14, <1>15 DEF Next

(* A task that is idle has been asked for nothing; one that does not run pushes nothing. *)
LEMMA TaskAtRestNext == StratumType /\ TaskAtRest /\ [Next]_vars => TaskAtRest'
<1> SUFFICES ASSUME StratumType, TaskAtRest, [Next]_vars PROVE TaskAtRest' OBVIOUS
<1>1. ASSUME Request PROVE TaskAtRest' BY <1>1 DEF Request, TaskAtRest, StratumType
<1>2. ASSUME Round PROVE TaskAtRest' BY <1>2 DEF Round, TaskAtRest
<1>3. CASE UNCHANGED <<refresh, again>> /\ todo' \subseteq todo BY <1>3 DEF TaskAtRest
<1>4. CASE EndRound
  <2>1. CASE again BY <1>2, <1>4, <2>1 DEF EndRound
  <2>2. CASE ~again
      BY <1>4, <2>2 DEF EndRound, RoundOver, TaskAtRest
  <2> QED BY <2>1, <2>2
<1>5. ASSUME NEW c \in Miners, Push(c) \/ PushJob(c) \/ Connect(c) \/ Subscribe(c) \/ Authorize(c)
                               \/ Send(c) \/ Close(c)
      PROVE  UNCHANGED <<refresh, again>> /\ todo' \subseteq todo
    BY <1>5 DEF Push, PushJob, Connect, Subscribe, Authorize, Send, Close, task
<1>6. CASE SyncedWork BY <1>3, <1>6 DEF SyncedWork, task
<1>7. CASE UNCHANGED vars BY <1>3, <1>7 DEF vars, task
<1>8. CASE NewWork \/ Poll BY <1>1, <1>8 DEF NewWork, Poll
<1>9. CASE StartRefresh BY <1>2, <1>9 DEF StartRefresh
<1> QED BY <1>3, <1>4, <1>5, <1>6, <1>7, <1>8, <1>9 DEF Next

-----------------------------------------------------------------------------
(* No request is lost, and jobs keep their order *)

(* Every step keeps every connection's jobs in order, and gives it no older job. *)
LEMMA JobsOrderedNext ==
    ASSUME StratumType, StratumType', JobsOrdered, [Next]_vars
    PROVE  /\ JobsOrdered'
           /\ \A c \in Miners : conn[c].given # NoJob /\ conn'[c].given # NoJob
                               => conn[c].given.work =< conn'[c].given.work
<1> DEFINE Good(c) == /\ InOrder(c)'
                      /\ conn[c].given # NoJob /\ conn'[c].given # NoJob
                         => conn[c].given.work =< conn'[c].given.work
<1> SUFFICES ASSUME NEW c \in Miners PROVE Good(c) BY DEF JobsOrdered
<1>1. InOrder(c) /\ conn[c] \in Connection /\ work \in Nat BY DEF JobsOrdered, StratumType
<1>2. conn[c].given # NoJob => conn[c].given.work =< conn[c].given.work
  <2>1. conn[c].given # NoJob => conn[c].given.work \in Nat BY <1>1 DEF Connection, Jobs
  <2> QED BY <2>1
<1>3. ASSUME conn'[c] = conn[c], work =< work' PROVE Good(c)
    BY <1>1, <1>2, <1>3, Untouched
<1>4. ASSUME UNCHANGED work PROVE work =< work' BY <1>1, <1>4
<1>5. ASSUME NEW x \in Waiting, x.job.work = work, UNCHANGED work,
             conn'[c].queue = conn[c].queue \o <<x>>, conn'[c].given = conn[c].given
      PROVE  Good(c)
    BY <1>1, <1>2, <1>5, Joined
<1>6. ASSUME UNCHANGED work, conn'[c].queue = conn[c].queue, conn'[c].given = conn[c].given
      PROVE  Good(c)
    BY <1>1, <1>2, <1>6 DEF InOrder, Ordered
<1>13. ASSUME conn'[c].queue = <<>>, conn'[c].given = NoJob PROVE Good(c)
    BY <1>13 DEF InOrder, Ordered
<1>7. CASE NewWork \/ SyncedWork
  <2>1. conn' = conn /\ work =< work' BY <1>1, <1>7 DEF NewWork, SyncedWork
  <2> QED BY <1>3, <2>1
<1>8. CASE Poll \/ StartRefresh \/ EndRound \/ UNCHANGED vars
    BY <1>3, <1>4, <1>8 DEF Poll, StartRefresh, EndRound, vars
<1>9. ASSUME NEW d \in Miners, Push(d) \/ PushJob(d) PROVE Good(c)
  <2>1. UNCHANGED work BY <1>9 DEF Push, PushJob
  <2>2. PICK who \in {"reader", "refresh"} : MintFor(d, who) BY <1>9 DEF Push, PushJob
  <2>3. CASE c = d
    <3>1. CASE conn'[c].queue = conn[c].queue
        BY <1>6, <2>1, <2>2, <2>3, <3>1, Minted
    <3>2. CASE conn'[c].queue # conn[c].queue
      <4>1. /\ conn'[c].given = conn[c].given
            /\ \E x \in Waiting : x.job.work = work /\ conn'[c].queue = conn[c].queue \o <<x>>
          BY <2>2, <2>3, <3>2, Minted
      <4> QED BY <1>5, <2>1, <4>1
    <3> QED BY <3>1, <3>2
  <2>4. CASE c # d BY <1>3, <1>4, <2>1, <2>2, <2>4, Minted
  <2> QED BY <2>3, <2>4
<1>10. ASSUME NEW d \in Miners, Connect(d) \/ Subscribe(d) \/ Authorize(d) PROVE Good(c)
  <2>1. UNCHANGED work BY <1>10 DEF Connect, Subscribe, Authorize
  <2>2. CASE c = d /\ Connect(d)
    <3>1. conn'[c].queue = <<>> /\ conn'[c].given = NoJob
        BY <1>1, <2>2 DEF Connect, Closed, StratumType
    <3> QED BY <1>13, <3>1
  <2>3. CASE c = d /\ (Subscribe(d) \/ Authorize(d))
    <3>1. conn'[c].queue = conn[c].queue /\ conn'[c].given = conn[c].given
        BY <2>3, Shaken
    <3> QED BY <1>6, <2>1, <3>1
  <2>4. CASE c # d
    <3>1. conn'[c] = conn[c]
      <4>1. CASE Connect(d) BY <2>4, <4>1 DEF Connect, StratumType
      <4>2. CASE Subscribe(d) \/ Authorize(d) BY <2>4, <4>2, Shaken
      <4> QED BY <1>10, <4>1, <4>2
    <3> QED BY <1>3, <1>4, <2>1, <3>1
  <2> QED BY <1>10, <2>2, <2>3, <2>4
<1>11. ASSUME NEW d \in Miners, Send(d) PROVE Good(c)
  <2>1. UNCHANGED work BY <1>11 DEF Send
  <2>2. CASE c = d
    <3>1. /\ conn[c].queue # <<>>
          /\ conn'[c].given = Head(conn[c].queue).job /\ conn'[c].queue = Tail(conn[c].queue)
        BY <1>1, <1>11, <2>2 DEF Send, StratumType, Connection
    <3> QED BY <1>1, <2>1, <3>1, Sent
  <2>3. CASE c # d
    <3>1. conn'[c] = conn[c] BY <1>11, <2>3 DEF Send, StratumType
    <3> QED BY <1>3, <1>4, <2>1, <3>1
  <2> QED BY <2>2, <2>3
<1>12. ASSUME NEW d \in Miners, Close(d) PROVE Good(c)
  <2>1. UNCHANGED work BY <1>12 DEF Close
  <2>2. CASE c = d
    <3>1. conn'[c].queue = <<>> /\ conn'[c].given = NoJob
        BY <1>12, <2>2 DEF Close, Closed, StratumType
    <3> QED BY <1>13, <3>1
  <2>3. CASE c # d
    <3>1. conn'[c] = conn[c] BY <1>12, <2>3 DEF Close, StratumType
    <3> QED BY <1>3, <1>4, <2>1, <3>1
  <2> QED BY <2>2, <2>3
<1> QED BY <1>7, <1>8, <1>9, <1>10, <1>11, <1>12 DEF Next

(* Every step leaves every served miner with a job on the present work, or with one coming. *)
LEMMA NobodyForgottenNext ==
    ASSUME StratumType, StratumType', TaskAtRest, JobsOrdered, NobodyForgotten, [Next]_vars
    PROVE  NobodyForgotten'
<1> SUFFICES ASSUME NEW c \in Miners PROVE Remembered(c)' BY DEF NobodyForgotten
<1>1. Remembered(c) /\ conn[c] \in Connection /\ work \in Nat
    BY DEF NobodyForgotten, StratumType
<1>2. ASSUME conn'[c] = conn[c], work =< work', Due(c)' PROVE Remembered(c)'
    BY <1>1, <1>2, Untouched DEF Remembered
<1>3. ASSUME conn'[c] = conn[c], UNCHANGED work, Due(c) => Due(c)' PROVE Remembered(c)'
  <2>1. work =< work' BY <1>1, <1>3
  <2> QED BY <1>1, <1>3, <2>1, Untouched DEF Remembered
<1>4. ASSUME Request PROVE Due(c)' BY <1>4 DEF Request, Due, TaskAtRest, StratumType
<1>5. ASSUME Round, Served(c) PROVE c \in todo' BY <1>5 DEF Round, Ready, Served
<1>6. CASE NewWork
  <2>1. conn' = conn /\ work =< work' /\ Due(c)' BY <1>1, <1>4, <1>6 DEF NewWork
  <2> QED BY <1>2, <2>1
<1>7. CASE SyncedWork
  <2>1. conn' = conn /\ work =< work' /\ Due(c)' BY <1>1, <1>7 DEF SyncedWork, Due
  <2> QED BY <1>2, <2>1
<1>8. CASE Poll BY <1>3, <1>4, <1>8 DEF Poll
<1>9. CASE UNCHANGED vars BY <1>3, <1>9 DEF vars, task, Due
<1>10. ASSUME Round, UNCHANGED <<work, conn>> PROVE Remembered(c)'
  <2>1. CASE Served(c)
    <3>1. Due(c)' BY <1>5, <1>10, <2>1 DEF Due
    <3> QED BY <1>3, <1>10, <3>1
  <2>2. CASE ~Served(c) BY <1>10, <2>2 DEF Served, Remembered
  <2> QED BY <2>1, <2>2
<1>11. CASE StartRefresh BY <1>10, <1>11 DEF StartRefresh
<1>12. CASE EndRound
  <2>1. UNCHANGED <<work, conn>> BY <1>12 DEF EndRound
  <2>2. CASE again BY <1>10, <1>12, <2>1, <2>2 DEF EndRound
  <2>3. CASE ~again
    <3>1. Due(c) => Due(c)' BY <1>12, <2>3 DEF EndRound, RoundOver, Due
    <3> QED BY <1>3, <2>1, <3>1
  <2> QED BY <2>2, <2>3
<1>13. ASSUME NEW d \in Miners, Push(d) \/ PushJob(d) PROVE Remembered(c)'
  <2>1. UNCHANGED work /\ (c # d /\ Due(c) => Due(c)') BY <1>13 DEF Push, PushJob, Due, task
  <2>2. PICK who \in {"reader", "refresh"} : MintFor(d, who) BY <1>13 DEF Push, PushJob
  <2>3. CASE c = d
    <3>1. CASE ~(conn[c].address /\ conn[c].state # "closed")
      <4>1. conn'[c].state = conn[c].state /\ conn'[c].address = conn[c].address
          BY <2>2, <2>3, Minted
      <4> QED BY <3>1, <4>1 DEF Remembered, Served
    <3>2. CASE conn[c].address /\ conn[c].state # "closed"
      <4>1. /\ conn'[c].given = conn[c].given
            /\ \E x \in Waiting : x.job.work = work /\ conn'[c].queue = conn[c].queue \o <<x>>
          BY <2>2, <2>3, <3>2, Minted
      <4>2. InOrder(c) BY DEF JobsOrdered
      <4>3. Newest(c)' \in Jobs /\ Newest(c)'.work = work BY <2>1, <4>1, <4>2, Joined
      <4> QED BY <2>1, <4>3 DEF Remembered
    <3> QED BY <3>1, <3>2
  <2>4. CASE c # d
    <3>1. conn'[c] = conn[c] BY <2>2, <2>4, Minted
    <3> QED BY <1>3, <2>1, <2>4, <3>1
  <2> QED BY <2>3, <2>4
<1>14. ASSUME NEW d \in Miners, Connect(d) \/ Subscribe(d) \/ Authorize(d) PROVE Remembered(c)'
  <2>1. UNCHANGED <<work, task, synced>> BY <1>14 DEF Connect, Subscribe, Authorize
  <2>4. Due(c) => Due(c)' BY <2>1 DEF Due, task
  <2>2. CASE c = d
    <3>1. ~Served(c)'
      <4>1. CASE Connect(d) BY <2>2, <4>1 DEF Connect, Closed, StratumType, Served
      <4>2. CASE Subscribe(d) \/ Authorize(d) BY <2>2, <4>2, Shaken DEF Served
      <4> QED BY <1>14, <4>1, <4>2
    <3> QED BY <3>1 DEF Remembered, Served
  <2>3. CASE c # d
    <3>1. conn'[c] = conn[c]
      <4>1. CASE Connect(d) BY <2>3, <4>1 DEF Connect, StratumType
      <4>2. CASE Subscribe(d) \/ Authorize(d) BY <2>3, <4>2, Shaken
      <4> QED BY <1>14, <4>1, <4>2
    <3> QED BY <1>3, <2>1, <2>4, <3>1
  <2> QED BY <2>2, <2>3
<1>15. ASSUME NEW d \in Miners, Send(d) PROVE Remembered(c)'
  <2>1. UNCHANGED work /\ (Due(c) => Due(c)') BY <1>15 DEF Send, Due, task
  <2>2. CASE c = d
    <3>1. /\ conn[c].queue # <<>>
          /\ conn'[c].given = Head(conn[c].queue).job /\ conn'[c].queue = Tail(conn[c].queue)
          /\ conn'[c].state = conn[c].state /\ conn'[c].replying = conn[c].replying
          /\ conn'[c].address = conn[c].address
        BY <1>1, <1>15, <2>2 DEF Send, StratumType, Connection
    <3>2. InOrder(c) BY DEF JobsOrdered
    <3>3. Newest(c)' = Newest(c) BY <2>1, <3>1, <3>2, Sent
    <3>4. Served(c)' <=> Served(c) BY <3>1 DEF Served
    <3> QED BY <1>1, <2>1, <3>3, <3>4 DEF Remembered
  <2>3. CASE c # d
    <3>1. conn'[c] = conn[c] BY <1>15, <2>3 DEF Send, StratumType
    <3> QED BY <1>3, <2>1, <3>1
  <2> QED BY <2>2, <2>3
<1>16. ASSUME NEW d \in Miners, Close(d) PROVE Remembered(c)'
  <2>1. UNCHANGED work BY <1>16 DEF Close
  <2>2. CASE c = d
    <3>1. ~Served(c)' BY <1>16, <2>2 DEF Close, Closed, StratumType, Served
    <3> QED BY <3>1 DEF Remembered, Served
  <2>3. CASE c # d
    <3>1. conn'[c] = conn[c] BY <1>16, <2>3 DEF Close, StratumType
    <3>2. Due(c) => Due(c)' BY <1>16, <2>3 DEF Close, Due, task
    <3> QED BY <1>3, <2>1, <3>1, <3>2
  <2> QED BY <2>2, <2>3
<1> QED
    BY <1>6, <1>7, <1>8, <1>9, <1>11, <1>12, <1>13, <1>14, <1>15, <1>16 DEF Next

(***************************************************************************)
(* The inductive invariant of the server: whatever the order of changes,   *)
(* refreshes, sends and ends of connections, nobody with a job on old work *)
(* is without a push, a round or a request to come, and every connection's *)
(* jobs are in the order of their work.                                    *)
(***************************************************************************)
THEOREM StratumInvariance == Spec => []StratumInv
<1>1. Init => StratumInv BY StratumInit
<1>2. StratumInv /\ [Next]_vars => StratumInv'
  <2> SUFFICES ASSUME StratumInv, [Next]_vars PROVE StratumInv' OBVIOUS
  <2>1. StratumType' BY StratumTypeNext DEF StratumInv
  <2>2. TaskAtRest' BY TaskAtRestNext DEF StratumInv
  <2>3. JobsOrdered' BY <2>1, JobsOrderedNext DEF StratumInv
  <2>4. NobodyForgotten' BY <2>1, NobodyForgottenNext DEF StratumInv
  <2> QED BY <2>1, <2>2, <2>3, <2>4 DEF StratumInv
<1> QED BY <1>1, <1>2, PTL DEF Spec

(***************************************************************************)
(* A request that finds the refresh task at work is not dropped: once the  *)
(* task is idle, every miner that has an address and its answer has a job  *)
(* on the present work, unless the work came out of a window sync.         *)
(***************************************************************************)
THEOREM RefreshCorrect == Spec => []NoRefreshLost
<1>1. StratumInv => NoRefreshLost
  <2> SUFFICES ASSUME StratumInv, refresh = "idle", ~synced, NEW c \in Miners, Served(c)
               PROVE  Newest(c).work = work
      BY DEF NoRefreshLost, Served
  <2>1. ~Due(c) BY DEF Due, StratumInv, TaskAtRest
  <2> QED BY <2>1 DEF StratumInv, NobodyForgotten, Remembered
<1> QED BY <1>1, StratumInvariance, PTL

(***************************************************************************)
(* The send lock is fair and jobs are minted on the present work, so no    *)
(* miner is sent a job on older work than the one it has, whoever pushes.  *)
(***************************************************************************)
THEOREM OrderCorrect == Spec => JobsComeInOrder
<1> DEFINE Next1 == \A c \in Miners : conn[c].given # NoJob /\ conn'[c].given # NoJob
                                      => conn[c].given.work =< conn'[c].given.work
<1>1. StratumInv /\ StratumInv' /\ [Next]_vars => Next1
    BY JobsOrderedNext DEF StratumInv
<1>2. StratumInv /\ StratumInv' /\ [Next]_vars => [Next1]_vars BY <1>1
<1> QED BY <1>2, StratumInvariance, PTL DEF Spec, JobsComeInOrder

-----------------------------------------------------------------------------
(* The registry *)

(* Finitely many connections, and fewer places than sequence numbers *)
Wide == IsFiniteSet(Miners) /\ History < SeqRange

(* The sequence number a places before s *)
Back(s, a) == IF a =< s THEN s - a ELSE (s + SeqRange) - a

(* The registry holds the jobs of the last sequence numbers. *)
InSequence ==
    /\ registry \in Seq(Jobs) /\ Len(registry) =< History /\ seq < SeqRange
    /\ \A k \in DOMAIN registry : registry[k].seq = Back(seq, Len(registry) - k)

(* The most jobs there can be after a miner's newest: one for every other miner that the *)
(* round has served, and those that handshakes have asked for since it began *)
Since(c) == Cardinality((Miners \ {c}) \ todo) + asked

(* While that is less than the registry holds, the newest is found in it. *)
Found(c) ==
    Served(c) /\ c \notin todo /\ Since(c) < History
    => \E p \in DOMAIN registry : registry[p] = Newest(c) /\ Len(registry) - p =< Since(c)

RegistryInv == InSequence /\ asked \in Nat /\ \A c \in Miners : Found(c)

-----------------------------------------------------------------------------
(* The registry's sequence *)

LEMMA OneRound ==
  ASSUME NEW n \in Nat, NEW m \in Nat \ {0}, n < m
  PROVE  (n + 1) % m = IF n + 1 = m THEN 0 ELSE n + 1
<1>1. CASE n + 1 = m
  <2>1. m % m = 0
    OBVIOUS
  <2> QED
    BY <1>1, <2>1
<1>2. CASE n + 1 # m
  BY <1>2
<1> QED
  BY <1>1, <1>2

LEMMA NoneBack ==
  ASSUME NEW s \in Nat
  PROVE  Back(s, 0) = s
BY DEF Back

LEMMA OldestGoes ==
  ASSUME NEW reg \in Seq(Jobs), NEW job \in Jobs, Len(reg) = History
  PROVE  LET new == Evict(Append(reg, job))
         IN  /\ new \in Seq(Jobs) /\ Len(new) = History
             /\ \A k \in 1..(History - 1) : new[k] = reg[k + 1]
             /\ new[History] = job
<1> DEFINE kept == Append(reg, job)
<1>1. History \in Nat \ {0}
  BY StratumAssumption
<1>2. /\ kept \in Seq(Jobs) /\ Len(kept) = History + 1 /\ kept[History + 1] = job
      /\ \A k \in 1..History : kept[k] = reg[k]
  BY <1>1
<1>3. Evict(kept) = SubSeq(kept, 2, History + 1)
  BY <1>1, <1>2 DEF Evict
<1> HIDE DEF kept
<1>4. /\ SubSeq(kept, 2, History + 1) \in Seq(Jobs)
      /\ Len(SubSeq(kept, 2, History + 1)) = History
      /\ \A k \in 1..History : SubSeq(kept, 2, History + 1)[k] = kept[k + 1]
  BY <1>1, <1>2
<1>5. \A k \in 1..(History - 1) : kept[k + 1] = reg[k + 1]
  BY <1>1, <1>2
<1> QED
  BY <1>1, <1>2, <1>3, <1>4, <1>5 DEF kept

(* A job that is minted joins the registry as its newest; at most the oldest goes. *)
LEMMA JobJoins ==
  ASSUME StratumType, InSequence, Wide, NEW c \in Miners, NEW who, MintFor(c, who),
         conn[c].address
  PROVE  LET job == Job(c, work, (seq + 1) % SeqRange)
         IN  /\ InSequence' /\ job \in Jobs
             /\ DOMAIN registry' = 1..Len(registry') /\ Len(registry') \in Nat \ {0}
             /\ registry'[Len(registry')] = job
             /\ \A k \in DOMAIN registry : Len(registry) - k < History - 1
                    => \E p \in DOMAIN registry' :
                          /\ registry'[p] = registry[k]
                          /\ Len(registry') - p = (Len(registry) - k) + 1
<1> DEFINE n == Len(registry)
           job == Job(c, work, (seq + 1) % SeqRange)
           grown == Append(registry, job)
<1>1. /\ History \in Nat \ {0} /\ SeqRange \in Nat \ {0} /\ History < SeqRange
      /\ seq \in Nat /\ work \in Nat /\ seq < SeqRange
      /\ registry \in Seq(Jobs) /\ n \in Nat /\ n =< History /\ DOMAIN registry = 1..n
  BY StratumAssumption DEF StratumType, InSequence, Wide
<1>2. seq' = (seq + 1) % SeqRange /\ registry' = Registered(job)
  BY DEF MintFor, Job
<1>3. seq' = IF seq + 1 = SeqRange THEN 0 ELSE seq + 1
  BY <1>1, <1>2, OneRound
<1>4. seq' \in Nat /\ seq' < SeqRange
  BY <1>1, <1>3
<1>5. job \in Jobs /\ job.seq = seq' /\ job.work = work
  BY <1>1, <1>2, <1>4 DEF Job, Jobs
<1> HIDE DEF job
<1>6. \A k \in 1..n : registry[k].seq = Back(seq, n - k)
  BY <1>1 DEF InSequence
<1>7. \A k \in 1..n : registry[k].seq # seq'
  BY <1>1, <1>3, <1>6 DEF Back
<1>8. registry' = IF Len(grown) > History THEN Evict(grown) ELSE grown
  <2>1. \A k \in DOMAIN registry : Key(registry[k]) # Key(job)
    BY <1>1, <1>5, <1>7 DEF Key
  <2> QED
    BY <1>2, <2>1 DEF Registered
<1>9. /\ grown \in Seq(Jobs) /\ Len(grown) = n + 1 /\ grown[n + 1] = job
      /\ \A k \in 1..n : grown[k] = registry[k]
  BY <1>1, <1>5
<1>10. \A a \in 0..(n - 1) : Back(seq, a) = Back(seq', a + 1)
  BY <1>1, <1>3 DEF Back
<1>11. Back(seq', 0) = seq'
  BY <1>4, NoneBack
<1>12. CASE n < History
  <2>1. registry' = grown
    BY <1>1, <1>8, <1>9, <1>12
  <2> HIDE DEF grown
  <2>2. ASSUME NEW k \in 1..(n + 1) PROVE grown[k].seq = Back(seq', (n + 1) - k)
    <3>1. CASE k = n + 1
      <4>1. (n + 1) - k = 0
        BY <1>1, <3>1
      <4> QED
        BY <1>5, <1>9, <1>11, <3>1, <4>1
    <3>2. CASE k # n + 1
      <4>1. k \in 1..n /\ n - k \in 0..(n - 1) /\ (n - k) + 1 = (n + 1) - k
        BY <1>1, <3>2
      <4> QED
        BY <1>6, <1>9, <1>10, <4>1
    <3> QED
      BY <3>1, <3>2
  <2>3. InSequence'
    BY <1>1, <1>4, <1>9, <1>12, <2>1, <2>2 DEF InSequence
  <2>4. ASSUME NEW k \in 1..n
        PROVE  \E p \in 1..(n + 1) : grown[p] = registry[k] /\ (n + 1) - p = (n - k) + 1
    <3>1. k \in 1..(n + 1) /\ (n + 1) - k = (n - k) + 1
      BY <1>1
    <3> QED
      BY <1>9, <3>1
  <2>5. DOMAIN grown = 1..(n + 1) /\ n + 1 \in Nat \ {0}
    BY <1>1, <1>9
  <2> QED
    BY <1>1, <1>5, <1>9, <2>1, <2>3, <2>4, <2>5 DEF job
<1>13. CASE n = History
  <2>1. registry' = Evict(grown)
    BY <1>1, <1>8, <1>9, <1>13
  <2>2. /\ registry' \in Seq(Jobs) /\ Len(registry') = n
        /\ \A k \in 1..(n - 1) : registry'[k] = registry[k + 1]
        /\ registry'[n] = job
    BY <1>1, <1>5, <1>13, <2>1, OldestGoes
  <2> HIDE DEF grown
  <2>3. DOMAIN registry' = 1..n /\ n \in Nat \ {0}
    BY <1>1, <1>13, <2>2
  <2>4. ASSUME NEW k \in 1..n PROVE registry'[k].seq = Back(seq', n - k)
    <3>1. CASE k = n
      <4>1. n - k = 0
        BY <1>1, <3>1
      <4> QED
        BY <1>5, <1>11, <2>2, <3>1, <4>1
    <3>2. CASE k # n
      <4>1. /\ k \in 1..(n - 1) /\ k + 1 \in 1..n /\ n - (k + 1) \in 0..(n - 1)
            /\ (n - (k + 1)) + 1 = n - k
        <5>1. n \in Nat
          BY <1>1
        <5> HIDE DEF n
        <5> QED
          BY <3>2, <5>1
      <4>2. registry'[k].seq = Back(seq, n - (k + 1))
        BY <1>6, <2>2, <4>1
      <4> QED
        BY <1>10, <4>1, <4>2
    <3> QED
      BY <3>1, <3>2
  <2>5. InSequence'
    BY <1>1, <1>4, <2>2, <2>3, <2>4 DEF InSequence
  <2>6. ASSUME NEW k \in 1..n, n - k < History - 1
        PROVE  \E p \in 1..n : registry'[p] = registry[k] /\ n - p = (n - k) + 1
    <3>1. k - 1 \in 1..(n - 1) /\ k - 1 \in 1..n /\ (k - 1) + 1 = k /\ n - (k - 1) = (n - k) + 1
      BY <1>1, <1>13, <2>6
    <3>2. registry'[k - 1] = registry[k]
      BY <2>2, <3>1
    <3> QED
      BY <3>1, <3>2
  <2> QED
    BY <1>1, <1>5, <2>2, <2>3, <2>5, <2>6 DEF job
<1>14. n < History \/ n = History
  <2>1. n \in Nat /\ History \in Nat /\ n =< History
    BY <1>1
  <2> HIDE DEF n
  <2> QED
    BY <2>1
<1> QED
  BY <1>12, <1>13, <1>14

-----------------------------------------------------------------------------
(* The jobs after a miner's newest *)

Passed(c) == (Miners \ {c}) \ todo

LEMMA SinceType ==
  ASSUME Wide, asked \in Nat, NEW c \in Miners
  PROVE  /\ IsFiniteSet(Passed(c)) /\ Cardinality(Passed(c)) \in Nat
         /\ Since(c) = Cardinality(Passed(c)) + asked
         /\ Since(c) \in Nat
<1>1. IsFiniteSet(Miners) /\ Passed(c) \subseteq Miners
  BY DEF Wide, Passed
<1>2. IsFiniteSet(Passed(c)) /\ Cardinality(Passed(c)) \in Nat
  BY <1>1, FS_Subset, FS_CardinalityType
<1>3. Since(c) = Cardinality(Passed(c)) + asked
  BY DEF Since, Passed
<1> QED
  BY <1>2, <1>3

LEMMA SinceTypeNext ==
  ASSUME Wide, asked' \in Nat, NEW c \in Miners
  PROVE  /\ IsFiniteSet(Passed(c)') /\ Cardinality(Passed(c)') \in Nat
         /\ Since(c)' = Cardinality(Passed(c)') + asked'
         /\ Since(c)' \in Nat
<1>1. IsFiniteSet(Miners) /\ Passed(c)' \subseteq Miners
  BY DEF Wide, Passed
<1>2. IsFiniteSet(Passed(c)') /\ Cardinality(Passed(c)') \in Nat
  BY <1>1, FS_Subset, FS_CardinalityType
<1>3. Since(c)' = Cardinality(Passed(c)') + asked'
  BY DEF Since, Passed
<1> QED
  BY <1>2, <1>3

(* A step that begins no round leaves as much room for the jobs to come. *)
LEMMA SinceKept ==
  ASSUME Wide, asked \in Nat, asked' \in Nat, NEW c \in Miners,
         asked =< asked', todo' \subseteq todo
  PROVE  Since(c) =< Since(c)'
<1>1. Passed(c) \subseteq Passed(c)'
  BY DEF Passed
<1>2. Cardinality(Passed(c)) =< Cardinality(Passed(c)')
  BY <1>1, SinceTypeNext, FS_Subset
<1> QED
  BY <1>2, SinceType, SinceTypeNext

(* A push takes one more place. *)
LEMMA SinceGrows ==
  ASSUME Wide, asked \in Nat, asked' \in Nat, NEW c \in Miners, NEW d \in Miners \ {c},
         \/ d \in todo /\ todo' = todo \ {d} /\ asked' = asked
         \/ todo' = todo /\ asked' = asked + 1
  PROVE  Since(c) + 1 =< Since(c)'
<1>1. /\ IsFiniteSet(Passed(c)) /\ Cardinality(Passed(c)) \in Nat
      /\ Since(c) = Cardinality(Passed(c)) + asked
      /\ Since(c)' = Cardinality(Passed(c)') + asked'
  BY SinceType, SinceTypeNext
<1>2. CASE d \in todo /\ todo' = todo \ {d} /\ asked' = asked
  <2>1. Passed(c)' = Passed(c) \cup {d} /\ d \notin Passed(c)
    BY <1>2 DEF Passed
  <2>2. Cardinality(Passed(c)') = Cardinality(Passed(c)) + 1
    BY <1>1, <2>1, FS_AddElement
  <2> QED
    BY <1>1, <1>2, <2>2
<1>3. CASE todo' = todo /\ asked' = asked + 1
  <2>1. Passed(c)' = Passed(c)
    BY <1>3 DEF Passed
  <2>2. Cardinality(Passed(c)') = Cardinality(Passed(c))
    BY <2>1, Zenon
  <2> QED
    BY <1>1, <1>3, <2>2
<1> QED
  BY <1>2, <1>3

-----------------------------------------------------------------------------
(* The registry from step to step *)

LEMMA RegistryStarts == Init => RegistryInv
<1> SUFFICES ASSUME Init PROVE RegistryInv
  OBVIOUS
<1>1. /\ registry = <<>> /\ seq = 0 /\ asked = 0 /\ todo = {}
      /\ \A c \in Miners : conn[c] = Closed
  BY DEF Init
<1>2. InSequence
  <2>1. Len(registry) = 0 /\ registry \in Seq(Jobs) /\ DOMAIN registry = {}
    BY <1>1
  <2> QED
    BY <1>1, <2>1, StratumAssumption DEF InSequence
<1>3. \A c \in Miners : Found(c)
  BY <1>1 DEF Found, Served, Closed
<1> QED
  BY <1>1, <1>2, <1>3 DEF RegistryInv

(* A step that mints nothing *)
LEMMA NothingMinted ==
  ASSUME Wide, RegistryInv, UNCHANGED <<registry, seq>>, asked' \in Nat,
         \A c \in Miners : Served(c)' /\ c \notin todo' => /\ Served(c) /\ c \notin todo
                                                           /\ Newest(c)' = Newest(c)
                                                           /\ Since(c) =< Since(c)'
  PROVE  RegistryInv'
<1>1. InSequence' /\ InSequence /\ asked \in Nat /\ History \in Nat
  BY StratumAssumption DEF RegistryInv, InSequence
<1>2. ASSUME NEW c \in Miners PROVE Found(c)'
  <2> SUFFICES ASSUME Served(c)', c \notin todo', Since(c)' < History
               PROVE  \E p \in DOMAIN registry' :
                         registry'[p] = Newest(c)' /\ Len(registry') - p =< Since(c)'
    BY DEF Found
  <2>1. /\ Served(c) /\ c \notin todo /\ Newest(c)' = Newest(c)
        /\ Since(c) =< Since(c)' /\ Since(c) \in Nat /\ Since(c)' \in Nat
    BY <1>1, SinceType, SinceTypeNext
  <2>2. Since(c) < History
    BY <1>1, <2>1
  <2>3. PICK p \in DOMAIN registry : registry[p] = Newest(c) /\ Len(registry) - p =< Since(c)
    BY <2>1, <2>2 DEF Found, RegistryInv
  <2>4. Len(registry) \in Nat /\ p \in Nat
    BY <1>1 DEF InSequence
  <2>5. Len(registry) - p =< Since(c)'
    BY <2>1, <2>3, <2>4
  <2> QED
    BY <2>1, <2>3, <2>5
<1> QED
  BY <1>1, <1>2 DEF RegistryInv

(* A step on one connection that leaves its miner unserved *)
LEMMA OthersStay ==
  ASSUME Wide, RegistryInv, UNCHANGED <<registry, seq, asked>>, NEW d \in Miners,
         \A c \in Miners \ {d} : conn'[c] = conn[c],
         todo' \subseteq todo, todo \ {d} \subseteq todo', ~Served(d)'
  PROVE  RegistryInv'
<1>1. asked \in Nat /\ asked' \in Nat /\ asked =< asked'
  BY DEF RegistryInv
<1>2. ASSUME NEW c \in Miners, Served(c)', c \notin todo'
      PROVE  Served(c) /\ c \notin todo /\ Newest(c)' = Newest(c) /\ Since(c) =< Since(c)'
  <2>1. c # d
    BY <1>2
  <2>2. conn'[c] = conn[c] /\ c \notin todo
    BY <1>2, <2>1
  <2>3. Since(c) =< Since(c)'
    BY <1>1, SinceKept
  <2> QED
    BY <1>2, <2>2, <2>3 DEF Served, Newest
<1> QED
  BY <1>1, <1>2, NothingMinted

(* A round takes everyone in that is served. *)
LEMMA RoundKeeps ==
  ASSUME Wide, RegistryInv, Round, UNCHANGED <<conn, registry, seq>>
  PROVE  RegistryInv'
<1>1. todo' = Ready /\ asked' \in Nat
  BY DEF Round
<1>2. ASSUME NEW c \in Miners PROVE Served(c)' => c \in todo'
  BY <1>1 DEF Served, Ready
<1> QED
  BY <1>1, <1>2, NothingMinted

(* A push to a connection that has an address *)
LEMMA MintKeeps ==
  ASSUME Wide, StratumType, RegistryInv, NEW d \in Miners,
         NEW who \in {"reader", "refresh"}, MintFor(d, who), conn[d].address,
         asked' \in Nat,
         \/ d \in todo /\ todo' = todo \ {d} /\ asked' = asked
         \/ todo' = todo /\ asked' = asked + 1
  PROVE  RegistryInv'
<1> DEFINE job == Job(d, work, (seq + 1) % SeqRange)
           n == Len(registry)
<1>1. InSequence /\ asked \in Nat /\ (\A c \in Miners : Found(c))
  BY DEF RegistryInv
<1>2. /\ InSequence' /\ job \in Jobs
      /\ DOMAIN registry' = 1..Len(registry') /\ Len(registry') \in Nat \ {0}
      /\ registry'[Len(registry')] = job
      /\ \A k \in DOMAIN registry : n - k < History - 1
                => \E p \in DOMAIN registry' :
                      /\ registry'[p] = registry[k]
                      /\ Len(registry') - p = (n - k) + 1
  BY <1>1, JobJoins
<1>3. /\ \A c \in Miners \ {d} : conn'[c] = conn[c]
      /\ conn'[d].state = conn[d].state /\ conn'[d].given = conn[d].given
      /\ conn'[d].address = conn[d].address
      /\ conn'[d].replying = (conn[d].replying /\ who # "reader")
      /\ \/ /\ conn'[d].queue = conn[d].queue
            /\ ~(conn[d].address /\ conn[d].state # "closed")
         \/ \E x \in Waiting : /\ x.job = job
                               /\ conn'[d].queue = conn[d].queue \o <<x>>
  BY Minted
<1> HIDE DEF job, n
<1>4. ASSUME NEW c \in Miners \ {d} PROVE Found(c)'
  <2> SUFFICES ASSUME Served(c)', c \notin todo', Since(c)' < History
               PROVE  \E p \in DOMAIN registry' :
                         registry'[p] = Newest(c)' /\ Len(registry') - p =< Since(c)'
    BY DEF Found
  <2>1. conn'[c] = conn[c] /\ c \notin todo
    BY <1>3
  <2>2. Served(c) /\ c \notin todo /\ Newest(c)' = Newest(c)
    BY <2>1 DEF Served, Newest
  <2>3. Since(c) + 1 =< Since(c)'
    BY <1>1, SinceGrows
  <2>4. Since(c) \in Nat /\ Since(c)' \in Nat /\ History \in Nat
    BY <1>1, SinceType, SinceTypeNext, StratumAssumption
  <2>5. Since(c) < History
    BY <2>3, <2>4
  <2>6. PICK k \in DOMAIN registry : registry[k] = Newest(c) /\ n - k =< Since(c)
    BY <1>1, <2>2, <2>5 DEF Found, n
  <2>7. n \in Nat /\ k \in Nat
    BY <1>1 DEF InSequence, n
  <2>8. n - k < History - 1
    BY <2>3, <2>4, <2>6, <2>7
  <2>9. PICK p \in DOMAIN registry' : /\ registry'[p] = registry[k]
                                      /\ Len(registry') - p = (n - k) + 1
    BY <1>2, <2>8
  <2>10. Len(registry') - p =< Since(c)'
    BY <2>3, <2>4, <2>6, <2>7, <2>9
  <2> QED
    BY <2>2, <2>6, <2>9, <2>10
<1>5. Found(d)'
  <2> SUFFICES ASSUME Served(d)'
               PROVE  \E p \in DOMAIN registry' :
                         registry'[p] = Newest(d)' /\ Len(registry') - p =< Since(d)'
    BY DEF Found
  <2>1. conn[d].address /\ conn[d].state # "closed"
    BY <1>3 DEF Served
  <2>2. PICK x \in Waiting : x.job = job /\ conn'[d].queue = conn[d].queue \o <<x>>
    BY <1>3, <2>1
  <2>3. conn[d].queue \in Seq(Waiting)
    BY DEF StratumType, Connection
  <2>4. conn'[d].queue # <<>> /\ Last(conn'[d].queue) = x
    BY <2>2, <2>3, JoinsLast
  <2>5. Newest(d)' = job
    BY <2>2, <2>4 DEF Newest
  <2>6. Since(d)' \in Nat
    BY SinceTypeNext
  <2>7. Len(registry') \in DOMAIN registry' /\ Len(registry') - Len(registry') =< Since(d)'
    BY <1>2, <2>6
  <2> QED
    BY <1>2, <2>5, <2>7
<1>6. \A c \in Miners : Found(c)'
  BY <1>4, <1>5
<1> QED
  BY <1>2, <1>6 DEF RegistryInv

LEMMA RegistryNext ==
  ASSUME Wide, StratumInv, StratumInv', RegistryInv, [Next]_vars
  PROVE  RegistryInv'
<1>1. /\ StratumType /\ StratumType' /\ conn \in [Miners -> Connection]
      /\ asked \in Nat
  BY DEF StratumInv, StratumType, RegistryInv
<1>2. ASSUME UNCHANGED <<asked, conn, registry, seq, todo>> PROVE RegistryInv'
  <2>1. asked' \in Nat /\ asked =< asked' /\ todo' \subseteq todo
    BY <1>1, <1>2
  <2>2. \A c \in Miners : Since(c) =< Since(c)'
    BY <1>1, <2>1, SinceKept
  <2>3. \A c \in Miners : /\ Served(c)' <=> Served(c)
                          /\ Newest(c)' = Newest(c)
    BY <1>2 DEF Served, Newest
  <2> QED
    BY <1>2, <2>1, <2>2, <2>3, NothingMinted
<1>3. CASE NewWork \/ SyncedWork \/ Poll \/ UNCHANGED vars
  BY <1>2, <1>3 DEF NewWork, SyncedWork, Poll, Request, vars, jobs, task
<1>4. CASE StartRefresh
  BY <1>4, RoundKeeps DEF StartRefresh, jobs
<1>5. CASE EndRound
  <2>1. CASE again
    BY <1>5, <2>1, RoundKeeps DEF EndRound, jobs
  <2>2. CASE ~again
    BY <1>2, <1>5, <2>2 DEF EndRound, jobs
  <2> QED
    BY <2>1, <2>2
<1>6. ASSUME NEW d \in Miners, NEW who \in {"reader", "refresh"}, MintFor(d, who),
             ~conn[d].address, UNCHANGED asked, todo' \subseteq todo, todo \ {d} \subseteq todo'
      PROVE  RegistryInv'
  <2>1. UNCHANGED <<registry, seq>>
    BY <1>6 DEF MintFor, jobs
  <2>2. /\ conn'[d].address = conn[d].address
        /\ \A c \in Miners \ {d} : conn'[c] = conn[c]
    BY <1>1, <1>6, Minted
  <2>3. ~Served(d)'
    BY <1>6, <2>2 DEF Served
  <2> QED
    BY <1>6, <2>1, <2>2, <2>3, OthersStay
<1>7. ASSUME NEW d \in Miners, Push(d) PROVE RegistryInv'
  <2>1. /\ d \in todo /\ todo' = todo \ {d} /\ MintFor(d, "refresh") /\ asked' = asked
    BY <1>7 DEF Push
  <2>2. CASE ~conn[d].address
    BY <1>6, <2>1, <2>2
  <2>3. CASE conn[d].address
    BY <1>1, <2>1, <2>3, MintKeeps
  <2> QED
    BY <2>2, <2>3
<1>8. ASSUME NEW d \in Miners, PushJob(d) PROVE RegistryInv'
  <2>1. /\ todo' = todo /\ MintFor(d, "reader")
        /\ asked' = IF conn[d].address THEN asked + 1 ELSE asked
    BY <1>8 DEF PushJob, task
  <2>2. CASE ~conn[d].address
    BY <1>6, <2>1, <2>2
  <2>3. CASE conn[d].address
    BY <1>1, <2>1, <2>3, MintKeeps
  <2> QED
    BY <2>2, <2>3
<1>9. ASSUME NEW d \in Miners, Connect(d) \/ Subscribe(d) \/ Authorize(d) \/ Close(d)
      PROVE  RegistryInv'
  <2>1. UNCHANGED <<registry, seq, asked, todo>>
    BY <1>9 DEF Connect, Subscribe, Authorize, Close, jobs, task
  <2>2. \A c \in Miners \ {d} : conn'[c] = conn[c]
    BY <1>1, <1>9, Shaken DEF Connect, Close
  <2>3. ~Served(d)'
    <3>1. CASE Connect(d)
      BY <1>1, <3>1 DEF Connect, Closed, Served
    <3>2. CASE Subscribe(d) \/ Authorize(d)
      BY <1>1, <3>2, Shaken DEF Served
    <3>3. CASE Close(d)
      BY <1>1, <3>3 DEF Close, Closed, Served
    <3> QED
      BY <1>9, <3>1, <3>2, <3>3
  <2> QED
    BY <2>1, <2>2, <2>3, OthersStay
<1>10. ASSUME NEW d \in Miners, Send(d) PROVE RegistryInv'
  <2>1. /\ UNCHANGED <<work, registry, seq, asked, todo>>
        /\ \A c \in Miners \ {d} : conn'[c] = conn[c]
        /\ conn[d].queue # <<>>
        /\ conn'[d].given = Head(conn[d].queue).job /\ conn'[d].queue = Tail(conn[d].queue)
        /\ conn'[d].state = conn[d].state /\ conn'[d].replying = conn[d].replying
        /\ conn'[d].address = conn[d].address
    BY <1>1, <1>10 DEF Send, jobs, task, Connection
  <2>2. InOrder(d)
    BY DEF StratumInv, JobsOrdered
  <2>3. Newest(d)' = Newest(d)
    BY <1>1, <2>1, <2>2, Sent
  <2>4. asked' \in Nat /\ asked =< asked' /\ todo' \subseteq todo
    BY <1>1, <2>1
  <2>5. ASSUME NEW c \in Miners
        PROVE  /\ Served(c)' <=> Served(c)
               /\ Newest(c)' = Newest(c) /\ Since(c) =< Since(c)'
    <3>1. Since(c) =< Since(c)'
      BY <1>1, <2>4, SinceKept
    <3>2. CASE c = d
      BY <2>1, <2>3, <3>1, <3>2 DEF Served
    <3>3. CASE c # d
      <4>1. conn'[c] = conn[c]
        BY <2>1, <3>3
      <4> QED
        BY <3>1, <4>1 DEF Served, Newest
    <3> QED
      BY <3>2, <3>3
  <2> QED
    BY <2>1, <2>4, <2>5, NothingMinted
<1> QED
  BY <1>3, <1>4, <1>5, <1>7, <1>8, <1>9, <1>10 DEF Next

(***************************************************************************)
(* The registry finds the last job of every miner that the round has       *)
(* served, as long as one job for every connection and the jobs that       *)
(* handshakes have asked for since the round began fit in together:        *)
(* whoever subscribes or authorizes, how often, and whoever goes.          *)
(***************************************************************************)
THEOREM RegistryCorrect ==
  ASSUME Wide
  PROVE  Spec => []KnownWhileThereIsRoom
<1>1. Init => RegistryInv
  BY RegistryStarts
<1>2. RegistryInv /\ StratumInv /\ StratumInv' /\ [Next]_vars => RegistryInv'
  BY RegistryNext
<1>3. RegistryInv => KnownWhileThereIsRoom
  <2> SUFFICES ASSUME RegistryInv, Cardinality(Miners) + asked =< History,
                      NEW c \in Miners, Served(c), c \notin todo
               PROVE  Newest(c) \in ToSet(registry)
    BY DEF KnownWhileThereIsRoom
  <2>1. /\ IsFiniteSet(Miners) /\ Cardinality(Miners) \in Nat
        /\ Cardinality(Miners \ {c}) = Cardinality(Miners) - 1
        /\ IsFiniteSet(Miners \ {c})
    BY FS_CardinalityType, FS_RemoveElement DEF Wide
  <2>2. Cardinality(Passed(c)) =< Cardinality(Miners \ {c})
    BY <2>1, FS_Subset DEF Passed
  <2>3. /\ asked \in Nat /\ History \in Nat /\ Cardinality(Passed(c)) \in Nat
        /\ Since(c) = Cardinality(Passed(c)) + asked
    BY SinceType, StratumAssumption DEF RegistryInv
  <2>4. Since(c) < History
    BY <2>1, <2>2, <2>3
  <2>5. \E p \in DOMAIN registry : registry[p] = Newest(c)
    BY <2>4 DEF RegistryInv, Found
  <2> QED
    BY <2>5 DEF ToSet
<1> QED
  BY <1>1, <1>2, <1>3, StratumInvariance, PTL DEF Spec
=============================================================================
