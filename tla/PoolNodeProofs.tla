--------------------------- MODULE PoolNodeProofs ---------------------------
(***************************************************************************)
(* The block race of a pool node for any number of parent tips, shares,    *)
(* submissions and crashes: the order of the lock, the pending shares, the *)
(* hooks, and how often a block is submitted.                              *)
(***************************************************************************)
EXTENDS PoolNode, SequenceTheorems, TLAPS

-----------------------------------------------------------------------------
(* The line of the lock *)

(***************************************************************************)
(* The tasks ts in the line l: those inside _assemble_and_submit, each     *)
(* once, and only the first of them is past the lock.                      *)
(***************************************************************************)
InOrder(ts, l) ==
    /\ l \in Seq(DOMAIN ts)
    /\ \A t \in DOMAIN ts : (ts[t].at \in Racing) <=> (\E k \in DOMAIN l : l[k] = t)
    /\ \A j, k \in DOMAIN l : l[j] = l[k] => j = k
    /\ \A k \in DOMAIN l : k # 1 => ts[l[k]].at = "waiting"

(* What a task may be, with shares S *)
TaskOver(S) == [origin : {"miner", "peer"}, share : S, quality : Qualities,
                at : Running \cup Ended]

(* Setting a task's place changes nothing else. *)
LEMMA Placed ==
  ASSUME NEW S, NEW ts \in Seq(TaskOver(S)), NEW t \in DOMAIN ts,
         NEW place \in Running \cup Ended
  PROVE  LET new == [ts EXCEPT ![t].at = place]
         IN  /\ new \in Seq(TaskOver(S))
             /\ DOMAIN new = DOMAIN ts /\ Len(new) = Len(ts)
             /\ new[t].at = place
             /\ new[t].share = ts[t].share /\ new[t].quality = ts[t].quality
             /\ \A u \in DOMAIN ts \ {t} : new[u] = ts[u]
<1> DEFINE new == [ts EXCEPT ![t].at = place]
<1>1. ts[t] \in TaskOver(S)
  BY ElementOfSeq, LenProperties
<1>2. [ts[t] EXCEPT !.at = place] \in TaskOver(S)
  BY <1>1 DEF TaskOver
<1>3. new = [ts EXCEPT ![t] = [ts[t] EXCEPT !.at = place]]
  OBVIOUS
<1>4. new \in Seq(TaskOver(S)) /\ Len(new) = Len(ts)
  BY <1>2, <1>3, ExceptSeq, LenProperties
<1>5. /\ new[t] = [ts[t] EXCEPT !.at = place]
      /\ \A u \in DOMAIN ts \ {t} : new[u] = ts[u]
  BY <1>3
<1>6. [ts[t] EXCEPT !.at = place].at = place
      /\ [ts[t] EXCEPT !.at = place].share = ts[t].share
      /\ [ts[t] EXCEPT !.at = place].quality = ts[t].quality
  BY <1>1 DEF TaskOver
<1> QED
  BY <1>4, <1>5, <1>6

(* Whoever is past the lock is the first in line. *)
LEMMA PastTheLock ==
  ASSUME NEW ts, NEW l, InOrder(ts, l), NEW t \in DOMAIN ts,
         ts[t].at \in Racing \ {"waiting"}
  PROVE  l # <<>> /\ Head(l) = t
<1>1. PICK k \in DOMAIN l : l[k] = t
  BY DEF InOrder
<1>2. k = 1
  BY <1>1 DEF InOrder
<1> QED
  BY <1>1, <1>2, LenProperties DEF InOrder

(* Four ways of a task's step through the line: outside it, into it, along *)
(* as its first, and out of it.                                            *)
LEMMA StaysOutside ==
  ASSUME NEW S, NEW ts \in Seq(TaskOver(S)), NEW l, InOrder(ts, l), NEW t \in DOMAIN ts,
         NEW place \in (Running \cup Ended) \ Racing, ts[t].at \notin Racing
  PROVE  InOrder([ts EXCEPT ![t].at = place], l)
BY Placed DEF InOrder

LEMMA JoinsLine ==
  ASSUME NEW S, NEW ts \in Seq(TaskOver(S)), NEW l, InOrder(ts, l), NEW t \in DOMAIN ts,
         ts[t].at \notin Racing
  PROVE  InOrder([ts EXCEPT ![t].at = "waiting"], Append(l, t))
<1> DEFINE new == [ts EXCEPT ![t].at = "waiting"]
<1>1. "waiting" \in Running \cup Ended /\ "waiting" \in Racing
  BY DEF Running, Racing
<1>2. /\ DOMAIN new = DOMAIN ts /\ new[t].at = "waiting"
      /\ \A u \in DOMAIN ts \ {t} : new[u] = ts[u]
  BY <1>1, Placed
<1>3. /\ l \in Seq(DOMAIN ts) /\ Len(l) \in Nat /\ DOMAIN l = 1..Len(l)
      /\ \A k \in DOMAIN l : l[k] # t /\ l[k] \in DOMAIN ts
  BY LenProperties DEF InOrder
<1>4. /\ Append(l, t) \in Seq(DOMAIN ts)
      /\ DOMAIN Append(l, t) = 1..(Len(l) + 1)
      /\ Append(l, t)[Len(l) + 1] = t
      /\ \A k \in 1..Len(l) : Append(l, t)[k] = l[k]
  BY <1>3
<1>5. \A u \in DOMAIN ts : (new[u].at \in Racing) <=> (\E k \in DOMAIN Append(l, t) : Append(l, t)[k] = u)
  <2> HIDE DEF new
  <2> TAKE u \in DOMAIN ts
  <2>1. CASE u = t
    BY <1>1, <1>2, <1>3, <1>4, <2>1
  <2>2. CASE u # t
    <3>1. (new[u].at \in Racing) <=> (\E k \in DOMAIN l : l[k] = u)
      BY <1>2, <2>2 DEF InOrder
    <3>2. \A k \in DOMAIN Append(l, t) : k \in DOMAIN l \/ Append(l, t)[k] = t
      BY <1>3, <1>4
    <3> QED
      BY <1>3, <1>4, <2>2, <3>1, <3>2
  <2> QED
    BY <2>1, <2>2
<1>6. \A j, k \in DOMAIN Append(l, t) : Append(l, t)[j] = Append(l, t)[k] => j = k
  BY <1>3, <1>4 DEF InOrder
<1>7. \A k \in DOMAIN Append(l, t) : k # 1 => new[Append(l, t)[k]].at = "waiting"
  BY <1>2, <1>3, <1>4 DEF InOrder
<1> QED
  BY <1>2, <1>4, <1>5, <1>6, <1>7 DEF InOrder

LEMMA MovesOn ==
  ASSUME NEW S, NEW ts \in Seq(TaskOver(S)), NEW l, InOrder(ts, l), l # <<>>,
         NEW t \in DOMAIN ts, t = Head(l), NEW place \in Racing
  PROVE  InOrder([ts EXCEPT ![t].at = place], l)
<1> DEFINE new == [ts EXCEPT ![t].at = place]
<1>1. /\ DOMAIN new = DOMAIN ts /\ new[t].at = place
      /\ \A u \in DOMAIN ts \ {t} : new[u] = ts[u]
  BY Placed DEF Running
<1>2. l \in Seq(DOMAIN ts) /\ 1 \in DOMAIN l /\ l[1] = t
  BY LenProperties, EmptySeq DEF InOrder
<1> QED
  BY <1>1, <1>2 DEF InOrder

LEMMA LeavesLine ==
  ASSUME NEW S, NEW ts \in Seq(TaskOver(S)), NEW l, InOrder(ts, l), l # <<>>,
         NEW t \in DOMAIN ts, t = Head(l), NEW place \in Ended
  PROVE  InOrder([ts EXCEPT ![t].at = place], Tail(l))
<1> DEFINE new == [ts EXCEPT ![t].at = place]
<1>1. /\ DOMAIN new = DOMAIN ts /\ new[t].at = place
      /\ \A u \in DOMAIN ts \ {t} : new[u] = ts[u]
  BY Placed
<1>2. /\ l \in Seq(DOMAIN ts) /\ Len(l) \in Nat \ {0} /\ DOMAIN l = 1..Len(l) /\ l[1] = t
  BY LenProperties, EmptySeq DEF InOrder
<1>3. /\ Tail(l) \in Seq(DOMAIN ts)
      /\ DOMAIN Tail(l) = 1..(Len(l) - 1)
      /\ \A k \in 1..(Len(l) - 1) : Tail(l)[k] = l[k + 1]
  BY <1>2, HeadTailProperties, LenProperties
<1>4. place \notin Racing
  BY DEF Ended, Racing
<1>5. \A k \in DOMAIN Tail(l) : k + 1 \in DOMAIN l /\ l[k + 1] # t /\ Tail(l)[k] = l[k + 1]
  <2>1. \A j, k \in DOMAIN l : l[j] = l[k] => j = k
    BY DEF InOrder
  <2>2. \A k \in DOMAIN Tail(l) : k \in Nat \ {0} /\ k + 1 \in DOMAIN l
    BY <1>2, <1>3
  <2>3. \A k \in DOMAIN Tail(l) : l[k + 1] # t
    BY <1>2, <2>1, <2>2
  <2> QED
    BY <1>3, <2>2, <2>3
<1>6. \A u \in DOMAIN ts : (new[u].at \in Racing) <=> (\E k \in DOMAIN Tail(l) : Tail(l)[k] = u)
  <2> TAKE u \in DOMAIN ts
  <2>1. CASE u = t
    BY <1>1, <1>4, <1>5, <2>1
  <2>2. CASE u # t
    <3>1. (new[u].at \in Racing) <=> (\E k \in DOMAIN l : l[k] = u)
      BY <1>1, <2>2 DEF InOrder
    <3>2. ASSUME NEW k \in DOMAIN l, l[k] = u PROVE k - 1 \in DOMAIN Tail(l) /\ Tail(l)[k - 1] = u
      BY <1>2, <1>3, <2>2, <3>2
    <3> QED
      BY <1>5, <3>1, <3>2
  <2> QED
    BY <2>1, <2>2
<1>7. \A j, k \in DOMAIN Tail(l) : Tail(l)[j] = Tail(l)[k] => j = k
  <2>1. \A j, k \in DOMAIN l : l[j] = l[k] => j = k
    BY DEF InOrder
  <2>2. \A j \in DOMAIN Tail(l) : j \in Int /\ j + 1 \in DOMAIN l /\ Tail(l)[j] = l[j + 1]
    BY <1>2, <1>3
  <2> TAKE j, k \in DOMAIN Tail(l)
  <2>3. Tail(l)[j] = Tail(l)[k] => j + 1 = k + 1
    BY <2>1, <2>2
  <2> QED
    BY <2>2, <2>3
<1>8. \A k \in DOMAIN Tail(l) : new[Tail(l)[k]].at = "waiting"
  BY <1>1, <1>2, <1>3, <1>5 DEF InOrder
<1> QED
  BY <1>1, <1>3, <1>6, <1>7, <1>8 DEF InOrder

(* A new task comes last, in line or not. *)
LEMMA NewOutside ==
  ASSUME NEW S, NEW ts \in Seq(TaskOver(S)), NEW l, InOrder(ts, l),
         NEW x \in TaskOver(S), x.at \notin Racing
  PROVE  InOrder(Append(ts, x), l)
<1>1. /\ Len(ts) \in Nat /\ DOMAIN ts = 1..Len(ts)
      /\ DOMAIN Append(ts, x) = 1..(Len(ts) + 1)
      /\ Append(ts, x)[Len(ts) + 1] = x
      /\ \A k \in 1..Len(ts) : Append(ts, x)[k] = ts[k]
  BY LenProperties
<1>2. l \in Seq(DOMAIN Append(ts, x))
  BY <1>1, SeqMonotonic DEF InOrder
<1>3. \A k \in DOMAIN l : l[k] \in DOMAIN ts
  BY ElementOfSeq, LenProperties DEF InOrder
<1> QED
  BY <1>1, <1>2, <1>3 DEF InOrder

LEMMA NewInLine ==
  ASSUME NEW S, NEW ts \in Seq(TaskOver(S)), NEW l, InOrder(ts, l),
         NEW x \in TaskOver(S), x.at = "waiting"
  PROVE  InOrder(Append(ts, x), Append(l, Len(ts) + 1))
<1> DEFINE new == Append(ts, x)
           t == Len(ts) + 1
<1>1. /\ Len(ts) \in Nat /\ DOMAIN ts = 1..Len(ts)
      /\ DOMAIN new = 1..(Len(ts) + 1)
      /\ new[t] = x
      /\ \A k \in 1..Len(ts) : new[k] = ts[k]
  BY LenProperties
<1>2. /\ l \in Seq(DOMAIN new) /\ Len(l) \in Nat /\ DOMAIN l = 1..Len(l)
      /\ \A k \in DOMAIN l : l[k] \in DOMAIN ts
  BY <1>1, SeqMonotonic, ElementOfSeq, LenProperties DEF InOrder
<1>3. /\ Append(l, t) \in Seq(DOMAIN new)
      /\ DOMAIN Append(l, t) = 1..(Len(l) + 1)
      /\ Append(l, t)[Len(l) + 1] = t
      /\ \A k \in 1..Len(l) : Append(l, t)[k] = l[k]
  BY <1>1, <1>2
<1>4. x.at \in Racing
  BY DEF Racing
<1> HIDE DEF new, t
<1>5. \A u \in DOMAIN new : (new[u].at \in Racing) <=> (\E k \in DOMAIN Append(l, t) : Append(l, t)[k] = u)
  <2> TAKE u \in DOMAIN new
  <2>1. CASE u = t
    BY <1>1, <1>2, <1>3, <1>4, <2>1
  <2>2. CASE u # t
    <3>1. (new[u].at \in Racing) <=> (\E k \in DOMAIN l : l[k] = u)
      BY <1>1, <2>2 DEF InOrder, t
    <3>2. \A k \in DOMAIN Append(l, t) : k \in DOMAIN l \/ Append(l, t)[k] = t
      BY <1>2, <1>3
    <3> QED
      BY <1>2, <1>3, <2>2, <3>1, <3>2
  <2> QED
    BY <2>1, <2>2
<1>6. \A j, k \in DOMAIN Append(l, t) : Append(l, t)[j] = Append(l, t)[k] => j = k
  BY <1>1, <1>2, <1>3 DEF InOrder, t
<1>7. \A k \in DOMAIN Append(l, t) : k # 1 => new[Append(l, t)[k]].at = "waiting"
  BY <1>1, <1>2, <1>3 DEF InOrder, t
<1> QED
  BY <1>3, <1>5, <1>6, <1>7 DEF InOrder, new, t

-----------------------------------------------------------------------------
(* The inductive invariant *)

(* The types of TypeOK, without the line. *)
Basics ==
    /\ {up, paused, resumeLost} \subseteq BOOLEAN
    /\ template \in Tips
    /\ shares \in Seq(Tips)
    /\ jobs \cup stored \cup pending \subseteq DOMAIN shares
    /\ tasks \in Seq(TaskOver(DOMAIN shares))
    /\ assembled \subseteq Tips
    /\ submitted \in [Tips -> Nat]
    /\ crashes \in Nat

(* PausedOnlyToProve, wherever the task that proves stands. *)
PausedByAProver ==
    up /\ paused => \/ resumeLost
                    \/ \E t \in DOMAIN tasks : tasks[t].at \in {"prove", "resume", "giveup"}

(***************************************************************************)
(* A submission for the tip the node works on is marked or about to be,    *)
(* and no task on its way to one has passed the lock before the mark; no   *)
(* task is for a later tip.                                                *)
(***************************************************************************)
SubmittedAtMostOnce ==
    /\ submitted[template] \in {0, 1}
    /\ \A i \in DOMAIN shares : shares[i] =< template
    /\ \A p \in Tips : p > template => submitted[p] = 0
    /\ submitted[template] = 1 =>
           \/ template \in assembled
           \/ \E t \in DOMAIN tasks : tasks[t].at = "mark" /\ Parent(t) = template
    /\ \A t \in DOMAIN tasks :
           tasks[t].at \in {"pause", "prove", "resume", "giveup", "submit"} /\ Parent(t) = template
           => submitted[template] = 0

RaceInv ==
    /\ Basics /\ InOrder(tasks, line)
    /\ PendingIsValidated /\ PausedByAProver /\ SubmittedAtMostOnce

(* At most one task is past the lock. *)
LEMMA OneAtATime ==
  ASSUME InOrder(tasks, line), NEW t \in DOMAIN tasks, NEW u \in DOMAIN tasks,
         tasks[t].at \in Racing \ {"waiting"}, tasks[u].at \in Racing \ {"waiting"}
  PROVE  t = u
<1>1. Head(line) = t
  BY PastTheLock
<1>2. Head(line) = u
  BY PastTheLock
<1> QED
  BY <1>1, <1>2

(* Every task is about a share there is. *)
LEMMA SharesKnown ==
  ASSUME Basics
  PROVE  \A t \in DOMAIN tasks : tasks[t] \in TaskOver(DOMAIN shares) /\ tasks[t].share \in DOMAIN shares
<1>1. \A t \in DOMAIN tasks : tasks[t] \in TaskOver(DOMAIN shares)
  BY ElementOfSeq, LenProperties DEF Basics
<1> QED
  BY <1>1 DEF TaskOver

(* What a step of task t leaves as it is. *)
LEMMA Going ==
  ASSUME Basics, NEW t \in DOMAIN tasks, NEW place \in Running \cup Ended, Goes(t, place)
  PROVE  /\ tasks' \in Seq(TaskOver(DOMAIN shares)) /\ DOMAIN tasks' = DOMAIN tasks
         /\ tasks'[t].at = place
         /\ \A u \in DOMAIN tasks \ {t} : tasks'[u] = tasks[u]
         /\ \A u \in DOMAIN tasks : /\ tasks'[u].share = tasks[u].share
                                    /\ tasks[u].share \in DOMAIN shares
<1>1. tasks \in Seq(TaskOver(DOMAIN shares))
  BY DEF Basics
<1>2. \A u \in DOMAIN tasks : tasks[u] \in TaskOver(DOMAIN shares)
  BY <1>1, ElementOfSeq, LenProperties
<1>3. \A u \in DOMAIN tasks : tasks[u].share \in DOMAIN shares
  BY <1>2 DEF TaskOver
<1> QED
  BY <1>1, <1>3, Placed DEF Goes

(* A step of a task that is not validated before or after. *)
LEMMA PendingStays ==
  ASSUME Basics, PendingIsValidated, NEW t \in DOMAIN tasks, NEW place \in Running \cup Ended,
         Goes(t, place), tasks[t].at # "validate", place # "validate", UNCHANGED pending
  PROVE  PendingIsValidated'
<1>1. /\ DOMAIN tasks' = DOMAIN tasks
      /\ \A u \in DOMAIN tasks : /\ tasks'[u].share = tasks[u].share
                                 /\ (tasks'[u].at = "validate") <=> (tasks[u].at = "validate")
  BY Going
<1>2. {u \in DOMAIN tasks' : tasks'[u].at = "validate"} = {u \in DOMAIN tasks : tasks[u].at = "validate"}
  BY <1>1
<1> QED
  BY <1>1, <1>2 DEF PendingIsValidated

(* A step of a task that proves neither before nor after, hooks untouched. *)
LEMMA PausedStays ==
  ASSUME Basics, PausedByAProver, NEW t \in DOMAIN tasks, NEW place \in Running \cup Ended,
         Goes(t, place), tasks[t].at \notin {"prove", "resume", "giveup"}, UNCHANGED <<up, hooks>>
  PROVE  PausedByAProver'
<1>1. /\ DOMAIN tasks' = DOMAIN tasks
      /\ \A u \in DOMAIN tasks \ {t} : tasks'[u] = tasks[u]
  BY Going
<1> QED
  BY <1>1 DEF PausedByAProver, hooks

(* A step that neither enters nor submits nor marks. *)
LEMMA SubmittedStays ==
  ASSUME Basics, SubmittedAtMostOnce, NEW t \in DOMAIN tasks, NEW place \in Running \cup Ended,
         Goes(t, place), tasks[t].at # "mark",
         place \in {"prove", "resume", "giveup", "submit"}
             => tasks[t].at \in {"pause", "prove", "resume", "giveup", "submit"},
         place # "pause",
         UNCHANGED <<template, shares, assembled, submitted>>
  PROVE  SubmittedAtMostOnce'
<1>1. /\ DOMAIN tasks' = DOMAIN tasks /\ tasks'[t].at = place
      /\ \A u \in DOMAIN tasks \ {t} : tasks'[u] = tasks[u]
      /\ \A u \in DOMAIN tasks : tasks'[u].share = tasks[u].share
  BY Going
<1>2. \A u \in DOMAIN tasks : Parent(u)' = Parent(u)
  BY <1>1 DEF Parent
<1>3. \A u \in DOMAIN tasks : tasks[u].at = "mark" => tasks'[u].at = "mark"
  BY <1>1
<1>4. \A u \in DOMAIN tasks :
          tasks'[u].at \in {"pause", "prove", "resume", "giveup", "submit"}
          => tasks[u].at \in {"pause", "prove", "resume", "giveup", "submit"}
  BY <1>1
<1>5. \A u \in DOMAIN tasks :
          tasks'[u].at \in {"pause", "prove", "resume", "giveup", "submit"} /\ Parent(u)' = template
          => submitted[template] = 0
  BY <1>2, <1>4 DEF SubmittedAtMostOnce
<1>6. submitted[template] = 1 =>
          \/ template \in assembled
          \/ \E u \in DOMAIN tasks : tasks'[u].at = "mark" /\ Parent(u)' = template
  BY <1>2, <1>3 DEF SubmittedAtMostOnce
<1> QED
  BY <1>1, <1>5, <1>6 DEF SubmittedAtMostOnce

-----------------------------------------------------------------------------
(* Every action keeps the invariant *)

LEMMA SetTemplateKeeps ==
  ASSUME RaceInv, SetTemplate
  PROVE  RaceInv'
<1>1. /\ template \in Tips /\ template + 1 \in Tips /\ template' = template + 1
      /\ template \in Nat /\ assembled' = {} /\ UNCHANGED <<up, shares, jobs, stored, pending>>
      /\ UNCHANGED <<tasks, line, paused, resumeLost, submitted, crashes>>
  BY PoolAssumption DEF SetTemplate, RaceInv, Basics, Tips, hooks
<1>2. Basics'
  BY <1>1 DEF RaceInv, Basics, Tips
<1>3. InOrder(tasks, line)' /\ PendingIsValidated' /\ PausedByAProver'
  BY <1>1 DEF RaceInv, PendingIsValidated, PausedByAProver
<1>4. SubmittedAtMostOnce'
  <2>1. submitted'[template'] = 0
    BY <1>1 DEF RaceInv, SubmittedAtMostOnce
  <2>2. \A i \in DOMAIN shares : shares[i] \in Nat /\ shares[i] =< template
    <3>1. \A i \in DOMAIN shares : shares[i] \in Tips
      BY ElementOfSeq, LenProperties DEF RaceInv, Basics
    <3> QED
      BY <3>1 DEF RaceInv, SubmittedAtMostOnce, Tips
  <2>3. \A p \in Tips : p > template' => submitted'[p] = 0
    BY <1>1 DEF RaceInv, SubmittedAtMostOnce, Tips
  <2> QED
    <3>1. \A t \in DOMAIN tasks : tasks[t].share \in DOMAIN shares
      BY SharesKnown DEF RaceInv
    <3>2. \A t \in DOMAIN tasks' : Parent(t)' # template'
      <4> TAKE t \in DOMAIN tasks'
      <4>1. Parent(t)' = shares[tasks[t].share] /\ tasks[t].share \in DOMAIN shares
        BY <1>1, <3>1 DEF Parent
      <4>2. shares[tasks[t].share] \in Nat /\ shares[tasks[t].share] =< template
        BY <2>2, <4>1
      <4> QED
        BY <1>1, <4>1, <4>2
    <3>3. \A i \in DOMAIN shares' : shares'[i] =< template'
      <4> TAKE i \in DOMAIN shares'
      <4>1. shares'[i] = shares[i] /\ shares[i] \in Nat /\ shares[i] =< template
        BY <1>1, <2>2
      <4> QED
        BY <1>1, <4>1
    <3>4. submitted'[template'] \in {0, 1} /\ submitted'[template'] # 1
      BY <2>1
    <3> QED
      BY <2>1, <2>3, <3>2, <3>3, <3>4 DEF SubmittedAtMostOnce
<1> QED
  BY <1>2, <1>3, <1>4 DEF RaceInv

(* More shares: whose parent tip is known keeps it. *)
LEMMA MoreShares ==
  ASSUME Basics, SubmittedAtMostOnce, shares' = Append(shares, template)
  PROVE  /\ shares' \in Seq(Tips) /\ DOMAIN shares \subseteq DOMAIN shares'
         /\ DOMAIN shares' = 1..(Len(shares) + 1) /\ Len(shares) + 1 \in DOMAIN shares'
         /\ shares'[Len(shares) + 1] = template
         /\ \A i \in DOMAIN shares : shares'[i] = shares[i]
         /\ \A i \in DOMAIN shares' : shares'[i] =< template
         /\ tasks \in Seq(TaskOver(DOMAIN shares'))
         /\ \A t \in DOMAIN tasks : tasks[t].share \in DOMAIN shares
<1>1. /\ shares \in Seq(Tips) /\ template \in Tips
      /\ Len(shares) \in Nat /\ DOMAIN shares = 1..Len(shares)
  BY LenProperties DEF Basics
<1>2. /\ shares' \in Seq(Tips) /\ DOMAIN shares' = 1..(Len(shares) + 1)
      /\ shares'[Len(shares) + 1] = template
      /\ \A i \in 1..Len(shares) : shares'[i] = shares[i]
  BY <1>1
<1>3. \A i \in DOMAIN shares' : shares'[i] =< template
  <2>1. \A i \in 1..Len(shares) : shares[i] =< template
    BY <1>1 DEF SubmittedAtMostOnce
  <2>2. template =< template
    BY <1>1 DEF Tips
  <2> QED
    BY <1>1, <1>2, <2>1, <2>2
<1>4. tasks \in Seq(TaskOver(DOMAIN shares))
  BY DEF Basics
<1>5. TaskOver(DOMAIN shares) \subseteq TaskOver(DOMAIN shares')
  BY <1>1, <1>2 DEF TaskOver
<1>6. tasks \in Seq(TaskOver(DOMAIN shares'))
  BY <1>4, <1>5, SeqMonotonic
<1>7. \A t \in DOMAIN tasks : tasks[t].share \in DOMAIN shares
  <2> TAKE t \in DOMAIN tasks
  <2>1. tasks[t] \in TaskOver(DOMAIN shares)
    BY <1>4, ElementOfSeq, LenProperties
  <2> QED
    BY <2>1 DEF TaskOver
<1> QED
  BY <1>1, <1>2, <1>3, <1>6, <1>7

LEMMA BuildJobKeeps ==
  ASSUME RaceInv, BuildJob
  PROVE  RaceInv'
<1>1. /\ shares' = Append(shares, template) /\ jobs' = jobs \cup {Len(shares) + 1}
      /\ UNCHANGED <<up, template, stored, pending, tasks, line, assembled, paused, resumeLost,
                     submitted, crashes>>
  BY DEF BuildJob, race, hooks
<1>2. Basics'
  BY <1>1, MoreShares DEF RaceInv, Basics
<1>3. InOrder(tasks, line)' /\ PendingIsValidated' /\ PausedByAProver'
  BY <1>1 DEF RaceInv, PendingIsValidated, PausedByAProver
<1>4. \A t \in DOMAIN tasks : Parent(t)' = Parent(t)
  BY <1>1, MoreShares DEF RaceInv, Parent
<1>5. \A i \in DOMAIN shares' : shares'[i] =< template'
  BY <1>1, MoreShares DEF RaceInv
<1>6. SubmittedAtMostOnce'
  BY <1>1, <1>4, <1>5 DEF RaceInv, SubmittedAtMostOnce
<1> QED
  BY <1>2, <1>3, <1>6 DEF RaceInv

(* A new task is the last one. *)
LEMMA MoreTasks ==
  ASSUME NEW S, NEW ts \in Seq(TaskOver(S)), NEW x \in TaskOver(S)
  PROVE  /\ Append(ts, x) \in Seq(TaskOver(S))
         /\ DOMAIN ts = 1..Len(ts) /\ Len(ts) \in Nat
         /\ DOMAIN Append(ts, x) = DOMAIN ts \cup {Len(ts) + 1}
         /\ Append(ts, x)[Len(ts) + 1] = x
         /\ \A t \in DOMAIN ts : Append(ts, x)[t] = ts[t]
         /\ Len(ts) + 1 \notin DOMAIN ts
BY LenProperties

LEMMA HandleSubmitKeeps ==
  ASSUME RaceInv, NEW i \in jobs, NEW quality \in Qualities, HandleSubmit(i, quality)
  PROVE  RaceInv'
<1> DEFINE known == i \in stored \cup pending
           x == Task("miner", i, quality, IF known THEN "duplicate" ELSE "validate")
           n == Len(tasks) + 1
<1>1. /\ tasks' = Append(tasks, x)
      /\ pending' = IF known THEN pending ELSE pending \cup {i}
      /\ UNCHANGED <<up, template, shares, jobs, stored, line, assembled, paused, resumeLost,
                     submitted, crashes>>
  BY DEF HandleSubmit, race, hooks
<1>2. i \in DOMAIN shares /\ tasks \in Seq(TaskOver(DOMAIN shares))
  BY DEF RaceInv, Basics
<1>3. /\ x \in TaskOver(DOMAIN shares) /\ x.at \notin Racing /\ x.share = i
      /\ x.at = IF known THEN "duplicate" ELSE "validate"
  BY <1>2 DEF Task, TaskOver, Running, Ended, Racing
<1> HIDE DEF x
<1>4. /\ tasks' \in Seq(TaskOver(DOMAIN shares))
      /\ DOMAIN tasks' = DOMAIN tasks \cup {n} /\ tasks'[n] = x
      /\ \A t \in DOMAIN tasks : tasks'[t] = tasks[t]
      /\ n \notin DOMAIN tasks
  BY <1>1, <1>2, <1>3, MoreTasks
<1> HIDE DEF n
<1>5. Basics'
  BY <1>1, <1>2, <1>4 DEF RaceInv, Basics
<1>6. InOrder(tasks, line)'
  BY <1>1, <1>2, <1>3, NewOutside DEF RaceInv
<1>7. PendingIsValidated'
  <2>1. /\ pending = {tasks[t].share : t \in {u \in DOMAIN tasks : tasks[u].at = "validate"}}
        /\ \A t, u \in DOMAIN tasks :
             tasks[t].at = "validate" /\ tasks[u].at = "validate" /\ tasks[t].share = tasks[u].share
             => t = u
    BY DEF RaceInv, PendingIsValidated
  <2>2. CASE known
    <3>1. {u \in DOMAIN tasks' : tasks'[u].at = "validate"} = {u \in DOMAIN tasks : tasks[u].at = "validate"}
      BY <1>3, <1>4, <2>2
    <3> QED
      BY <1>1, <1>3, <1>4, <2>1, <2>2, <3>1 DEF PendingIsValidated
  <2>3. CASE ~known
    <3>1. {u \in DOMAIN tasks' : tasks'[u].at = "validate"}
          = {u \in DOMAIN tasks : tasks[u].at = "validate"} \cup {n}
      BY <1>3, <1>4, <2>3
    <3>2. pending' = {tasks'[t].share : t \in {u \in DOMAIN tasks' : tasks'[u].at = "validate"}}
      BY <1>1, <1>3, <1>4, <2>1, <2>3, <3>1
    <3>3. \A t \in DOMAIN tasks : tasks[t].at = "validate" => tasks[t].share # i
      BY <2>1, <2>3
    <3>4. \A t, u \in DOMAIN tasks' :
             tasks'[t].at = "validate" /\ tasks'[u].at = "validate" /\ tasks'[t].share = tasks'[u].share
             => t = u
      BY <1>3, <1>4, <2>1, <3>3
    <3> QED
      BY <3>2, <3>4 DEF PendingIsValidated
  <2> QED
    BY <2>2, <2>3
<1>8. PausedByAProver'
  BY <1>1, <1>4 DEF RaceInv, PausedByAProver
<1>9. SubmittedAtMostOnce'
  <2>1. \A t \in DOMAIN tasks : Parent(t)' = Parent(t)
    BY <1>1, <1>4 DEF Parent
  <2>2. tasks'[n].at \notin {"pause", "prove", "resume", "giveup", "submit"}
    BY <1>3, <1>4
  <2> QED
    BY <1>1, <1>4, <2>1, <2>2 DEF RaceInv, SubmittedAtMostOnce
<1> QED
  BY <1>5, <1>6, <1>7, <1>8, <1>9 DEF RaceInv

LEMMA TryCollaborativeSubmitKeeps ==
  ASSUME RaceInv, NEW quality \in Qualities, TryCollaborativeSubmit(quality)
  PROVE  RaceInv'
<1> DEFINE i == Len(shares) + 1
           n == Len(tasks) + 1
           races == quality = "block"
           x == Task("peer", i, quality, IF races THEN "waiting" ELSE "done")
<1>1. /\ shares' = Append(shares, template) /\ stored' = stored \cup {i}
      /\ tasks' = Append(tasks, x)
      /\ line' = IF races THEN Append(line, n) ELSE line
      /\ UNCHANGED <<up, template, jobs, pending, assembled, paused, resumeLost, submitted, crashes>>
  BY DEF TryCollaborativeSubmit, hooks
<1>2. /\ i \in DOMAIN shares' /\ tasks \in Seq(TaskOver(DOMAIN shares'))
      /\ shares' \in Seq(Tips) /\ DOMAIN shares \subseteq DOMAIN shares'
      /\ \A t \in DOMAIN tasks : shares'[tasks[t].share] = shares[tasks[t].share]
      /\ \A j \in DOMAIN shares' : shares'[j] =< template
  BY <1>1, MoreShares DEF RaceInv
<1> HIDE DEF i
<1>3. x \in TaskOver(DOMAIN shares') /\ x.at = IF races THEN "waiting" ELSE "done"
  BY <1>2 DEF Task, TaskOver, Running, Racing, Ended
<1> HIDE DEF x
<1>4. /\ tasks' \in Seq(TaskOver(DOMAIN shares'))
      /\ DOMAIN tasks' = DOMAIN tasks \cup {n} /\ tasks'[n] = x
      /\ \A t \in DOMAIN tasks : tasks'[t] = tasks[t]
  BY <1>1, <1>2, <1>3, MoreTasks
<1>5. Basics'
  BY <1>1, <1>2, <1>4 DEF RaceInv, Basics
<1>6. InOrder(tasks, line)'
  <2>1. CASE races
    BY <1>1, <1>2, <1>3, <2>1, NewInLine DEF RaceInv
  <2>2. CASE ~races
    <3>1. x.at \notin Racing
      BY <1>3, <2>2 DEF Racing
    <3> QED
      BY <1>1, <1>2, <1>3, <2>2, <3>1, NewOutside DEF RaceInv
  <2> QED
    BY <2>1, <2>2
<1> HIDE DEF n
<1>7. PendingIsValidated'
  <2>1. {u \in DOMAIN tasks' : tasks'[u].at = "validate"} = {u \in DOMAIN tasks : tasks[u].at = "validate"}
    BY <1>3, <1>4
  <2> QED
    BY <1>1, <1>3, <1>4, <2>1 DEF RaceInv, PendingIsValidated
<1>8. PausedByAProver'
  BY <1>1, <1>4 DEF RaceInv, PausedByAProver
<1>9. SubmittedAtMostOnce'
  <2>1. \A t \in DOMAIN tasks : Parent(t)' = Parent(t)
    BY <1>2, <1>4 DEF Parent
  <2>2. tasks'[n].at \notin {"pause", "prove", "resume", "giveup", "submit"}
    BY <1>3, <1>4
  <2> QED
    BY <1>1, <1>2, <1>4, <2>1, <2>2 DEF RaceInv, SubmittedAtMostOnce
<1> QED
  BY <1>5, <1>6, <1>7, <1>8, <1>9 DEF RaceInv

(***************************************************************************)
(* The steps of a task.  What they share: types, and one of the four ways  *)
(* through the line.                                                       *)
(***************************************************************************)
LEMMA ValidateKeeps ==
  ASSUME RaceInv, NEW t \in DOMAIN tasks, Validate(t)
  PROVE  RaceInv'
<1> DEFINE i == tasks[t].share
<1>1. /\ tasks[t].at = "validate" /\ i \in DOMAIN shares
      /\ pending' = pending \ {i}
      /\ UNCHANGED <<up, template, shares, jobs, line, assembled, paused, resumeLost, submitted, crashes>>
  BY SharesKnown DEF Validate, At, RaceInv, race, hooks
<1>2. PICK place \in {"refused", "followup"} :
          Goes(t, place) /\ stored' \subseteq stored \cup {i}
  BY DEF Validate
<1>3. place \in (Running \cup Ended) \ Racing /\ "validate" \notin Racing
  BY DEF Running, Ended, Racing
<1>4. /\ tasks' \in Seq(TaskOver(DOMAIN shares)) /\ DOMAIN tasks' = DOMAIN tasks
      /\ tasks'[t].at = place
      /\ \A u \in DOMAIN tasks \ {t} : tasks'[u] = tasks[u]
      /\ \A u \in DOMAIN tasks : tasks'[u].share = tasks[u].share
  BY <1>2, <1>3, Going DEF RaceInv
<1>5. Basics'
  BY <1>1, <1>2, <1>4 DEF RaceInv, Basics
<1>6. InOrder(tasks, line)'
  BY <1>1, <1>2, <1>3, StaysOutside DEF RaceInv, Basics, Goes
<1>7. PendingIsValidated'
  <2>1. /\ pending = {tasks[v].share : v \in {u \in DOMAIN tasks : tasks[u].at = "validate"}}
        /\ \A v, u \in DOMAIN tasks :
             tasks[v].at = "validate" /\ tasks[u].at = "validate" /\ tasks[v].share = tasks[u].share
             => v = u
    BY DEF RaceInv, PendingIsValidated
  <2>2. {u \in DOMAIN tasks' : tasks'[u].at = "validate"}
        = {u \in DOMAIN tasks : tasks[u].at = "validate"} \ {t}
    BY <1>2, <1>4
  <2>3. pending' = {tasks'[v].share : v \in {u \in DOMAIN tasks' : tasks'[u].at = "validate"}}
    BY <1>1, <1>4, <2>1, <2>2
  <2> QED
    BY <1>2, <1>4, <2>1, <2>3 DEF PendingIsValidated
<1>8. PausedByAProver'
  BY <1>1, <1>2, <1>3, PausedStays DEF RaceInv, hooks
<1>9. SubmittedAtMostOnce'
  BY <1>1, <1>2, <1>3, SubmittedStays DEF RaceInv
<1> QED
  BY <1>5, <1>6, <1>7, <1>8, <1>9 DEF RaceInv

LEMMA FollowUpKeeps ==
  ASSUME RaceInv, NEW t \in DOMAIN tasks, FollowUp(t)
  PROVE  RaceInv'
<1>1. /\ tasks[t].at = "followup"
      /\ UNCHANGED <<up, template, shares, jobs, stored, pending, assembled, paused, resumeLost,
                     submitted, crashes>>
  BY DEF FollowUp, At, hooks
<1>2. PICK place \in {"waiting", "done"} :
          Goes(t, place) /\ line' = IF place = "waiting" THEN Append(line, t) ELSE line
  BY DEF FollowUp
<1>3. /\ place \in Running \cup Ended /\ "followup" \notin Racing
      /\ place = "done" => place \notin Racing
  BY DEF Running, Ended, Racing
<1>4. Basics'
  BY <1>1, <1>2, <1>3, Going DEF RaceInv, Basics
<1>5. InOrder(tasks, line)'
  <2>1. CASE place = "waiting"
    <3>1. InOrder([tasks EXCEPT ![t].at = "waiting"], Append(line, t))
      BY <1>1, <1>3, JoinsLine DEF RaceInv, Basics
    <3> QED
      BY <1>2, <2>1, <3>1 DEF Goes
  <2>2. CASE place = "done"
    <3>1. InOrder([tasks EXCEPT ![t].at = "done"], line)
      BY <1>1, <1>3, <2>2, StaysOutside DEF RaceInv, Basics
    <3> QED
      BY <1>2, <2>2, <3>1 DEF Goes
  <2> QED
    BY <1>2, <2>1, <2>2
<1>6. PendingIsValidated'
  BY <1>1, <1>2, <1>3, PendingStays DEF RaceInv
<1>7. PausedByAProver'
  BY <1>1, <1>2, <1>3, PausedStays DEF RaceInv, hooks
<1>8. SubmittedAtMostOnce'
  BY <1>1, <1>2, <1>3, SubmittedStays DEF RaceInv
<1> QED
  BY <1>4, <1>5, <1>6, <1>7, <1>8 DEF RaceInv

LEMMA AcquireKeeps ==
  ASSUME RaceInv, NEW t \in DOMAIN tasks, Acquire(t)
  PROVE  RaceInv'
<1>1. /\ tasks[t].at = "waiting" /\ line # <<>> /\ t = Head(line)
      /\ UNCHANGED <<up, template, shares, jobs, stored, pending, assembled, paused, resumeLost,
                     submitted, crashes>>
  BY DEF Acquire, At, HoldsLock, hooks
<1>2. \/ Parent(t) \in assembled /\ Goes(t, "skipped") /\ line' = Tail(line)
      \/ Parent(t) \notin assembled /\ Goes(t, "pause") /\ line' = line
  BY DEF Acquire, Release
<1>3. "skipped" \in Ended /\ "pause" \in Racing /\ "pause" \in Running
  BY DEF Ended, Racing, Running
<1>4. Basics'
  BY <1>1, <1>2, <1>3, Going DEF RaceInv, Basics
<1>5. InOrder(tasks, line)'
  <2>1. CASE Goes(t, "skipped") /\ line' = Tail(line)
    BY <1>1, <1>3, <2>1, LeavesLine DEF RaceInv, Basics, Goes
  <2>2. CASE Goes(t, "pause") /\ line' = line
    BY <1>1, <1>3, <2>2, MovesOn DEF RaceInv, Basics, Goes
  <2> QED
    BY <1>2, <2>1, <2>2
<1>6. PendingIsValidated' /\ PausedByAProver'
  <2>1. CASE Goes(t, "skipped")
    BY <1>1, <1>3, <2>1, PendingStays, PausedStays DEF RaceInv, hooks
  <2>2. CASE Goes(t, "pause")
    BY <1>1, <1>3, <2>2, PendingStays, PausedStays DEF RaceInv, hooks
  <2> QED
    BY <1>2, <2>1, <2>2
<1>7. SubmittedAtMostOnce'
  <2>1. CASE Goes(t, "skipped")
    BY <1>1, <1>3, <2>1, SubmittedStays DEF RaceInv
  <2>2. CASE Parent(t) \notin assembled /\ Goes(t, "pause")
    <3>1. /\ DOMAIN tasks' = DOMAIN tasks /\ tasks'[t].at = "pause"
          /\ \A u \in DOMAIN tasks \ {t} : tasks'[u] = tasks[u]
          /\ \A u \in DOMAIN tasks : tasks'[u].share = tasks[u].share
      BY <1>3, <2>2, Going DEF RaceInv
    <3>2. \A u \in DOMAIN tasks : Parent(u)' = Parent(u)
      BY <1>1, <3>1 DEF Parent
    <3>3. ASSUME NEW u \in DOMAIN tasks, tasks[u].at = "mark" PROVE FALSE
      <4>1. Head(line) = u
        BY <3>3, PastTheLock DEF RaceInv, Racing
      <4> QED
        BY <1>1, <3>3, <4>1
    <3>4. Parent(t) = template => submitted[template] = 0
      BY <2>2, <3>3 DEF RaceInv, SubmittedAtMostOnce
    <3> QED
      BY <1>1, <3>1, <3>2, <3>3, <3>4 DEF RaceInv, SubmittedAtMostOnce
  <2> QED
    BY <1>2, <2>1, <2>2
<1> QED
  BY <1>4, <1>5, <1>6, <1>7 DEF RaceInv

LEMMA PreAssembleKeeps ==
  ASSUME RaceInv, NEW t \in DOMAIN tasks, PreAssemble(t)
  PROVE  RaceInv'
<1>1. /\ tasks[t].at = "pause" /\ Goes(t, "prove")
      /\ paused' \in {paused, TRUE} /\ resumeLost' = FALSE
      /\ UNCHANGED <<up, template, shares, jobs, stored, pending, line, assembled, submitted, crashes>>
  BY DEF PreAssemble, At, HookSets
<1>2. "pause" \in Racing \ {"waiting"} /\ "prove" \in Racing /\ "prove" \in Running
  BY DEF Racing, Running
<1>3. line # <<>> /\ Head(line) = t
  BY <1>1, <1>2, PastTheLock DEF RaceInv
<1>4. Basics'
  BY <1>1, <1>2, Going DEF RaceInv, Basics
<1>5. InOrder(tasks, line)'
  BY <1>1, <1>2, <1>3, MovesOn DEF RaceInv, Basics, Goes
<1>6. PendingIsValidated'
  BY <1>1, <1>2, PendingStays DEF RaceInv
<1>7. PausedByAProver'
  BY <1>1, <1>2, Going DEF RaceInv, PausedByAProver
<1>8. SubmittedAtMostOnce'
  BY <1>1, <1>2, SubmittedStays DEF RaceInv
<1> QED
  BY <1>4, <1>5, <1>6, <1>7, <1>8 DEF RaceInv

LEMMA AssembleBlockKeeps ==
  ASSUME RaceInv, NEW t \in DOMAIN tasks, AssembleBlock(t)
  PROVE  RaceInv'
<1>1. /\ tasks[t].at = "prove"
      /\ UNCHANGED <<up, template, shares, jobs, stored, pending, line, assembled, paused, resumeLost,
                     submitted, crashes>>
  BY DEF AssembleBlock, At, race, hooks
<1>2. PICK place \in {"resume", "giveup"} : Goes(t, place)
  BY DEF AssembleBlock
<1>3. "prove" \in Racing \ {"waiting"} /\ place \in Racing /\ place \in Running
  BY DEF Racing, Running
<1>4. line # <<>> /\ Head(line) = t
  BY <1>1, <1>3, PastTheLock DEF RaceInv
<1>5. Basics'
  BY <1>1, <1>2, <1>3, Going DEF RaceInv, Basics
<1>6. InOrder(tasks, line)'
  BY <1>1, <1>2, <1>3, <1>4, MovesOn DEF RaceInv, Basics, Goes
<1>7. PendingIsValidated'
  BY <1>1, <1>2, <1>3, PendingStays DEF RaceInv
<1>8. PausedByAProver'
  <2>1. DOMAIN tasks' = DOMAIN tasks /\ tasks'[t].at = place
    BY <1>2, <1>3, Going DEF RaceInv
  <2> QED
    BY <1>2, <2>1 DEF PausedByAProver
<1>9. SubmittedAtMostOnce'
  BY <1>1, <1>2, <1>3, SubmittedStays DEF RaceInv
<1> QED
  BY <1>5, <1>6, <1>7, <1>8, <1>9 DEF RaceInv

(* After the resume hook the load is running, or is known not to be. *)
LEMMA ResumeHook ==
  ASSUME Basics, HookSets(FALSE)
  PROVE  paused' \in BOOLEAN /\ resumeLost' \in BOOLEAN /\ (paused' => resumeLost')
<1>1. paused' \in BOOLEAN
  BY DEF Basics, HookSets
<1>2. resumeLost' = (~FALSE /\ paused')
  BY DEF HookSets
<1>3. (~FALSE /\ paused') \in BOOLEAN
  OBVIOUS
<1>4. resumeLost' \in BOOLEAN
  BY <1>2, <1>3
<1>5. paused' => resumeLost'
  BY <1>2
<1> QED
  BY <1>1, <1>4, <1>5

LEMMA PostAssembleKeeps ==
  ASSUME RaceInv, NEW t \in DOMAIN tasks, PostAssemble(t)
  PROVE  RaceInv'
<1>1. /\ paused' \in BOOLEAN /\ resumeLost' \in BOOLEAN /\ (paused' => resumeLost')
      /\ UNCHANGED <<up, template, shares, jobs, stored, pending, assembled, submitted, crashes>>
  BY ResumeHook DEF PostAssemble, RaceInv
<1>2. \/ tasks[t].at = "resume" /\ Goes(t, "submit") /\ line' = line
      \/ tasks[t].at = "giveup" /\ Goes(t, "failed") /\ line' = Tail(line)
  BY DEF PostAssemble, At, Release
<1>3. /\ {"resume", "giveup"} \subseteq Racing \ {"waiting"}
      /\ "submit" \in Racing /\ "submit" \in Running /\ "failed" \in Ended
  BY DEF Racing, Running, Ended
<1>4. line # <<>> /\ Head(line) = t
  BY <1>2, <1>3, PastTheLock DEF RaceInv
<1>5. Basics'
  BY <1>1, <1>2, <1>3, Going DEF RaceInv, Basics
<1>6. InOrder(tasks, line)'
  <2>1. CASE Goes(t, "submit") /\ line' = line
    BY <1>3, <1>4, <2>1, MovesOn DEF RaceInv, Basics, Goes
  <2>2. CASE Goes(t, "failed") /\ line' = Tail(line)
    BY <1>3, <1>4, <2>2, LeavesLine DEF RaceInv, Basics, Goes
  <2> QED
    BY <1>2, <2>1, <2>2
<1>7. PausedByAProver'
  BY <1>1 DEF PausedByAProver
<1>8. PendingIsValidated' /\ SubmittedAtMostOnce'
  <2>1. CASE tasks[t].at = "resume" /\ Goes(t, "submit")
    BY <1>1, <1>3, <2>1, PendingStays, SubmittedStays DEF RaceInv
  <2>2. CASE tasks[t].at = "giveup" /\ Goes(t, "failed")
    BY <1>1, <1>3, <2>2, PendingStays, SubmittedStays DEF RaceInv
  <2> QED
    BY <1>2, <2>1, <2>2
<1> QED
  BY <1>5, <1>6, <1>7, <1>8 DEF RaceInv

LEMMA SubmitBlockKeeps ==
  ASSUME RaceInv, NEW t \in DOMAIN tasks, SubmitBlock(t)
  PROVE  RaceInv'
<1>1. /\ tasks[t].at = "submit"
      /\ UNCHANGED <<up, template, shares, jobs, stored, pending, assembled, paused, resumeLost, crashes>>
  BY DEF SubmitBlock, At, hooks
<1>2. \/ /\ Goes(t, "mark") /\ line' = line
         /\ submitted' = [submitted EXCEPT ![Parent(t)] = @ + 1]
      \/ Goes(t, "failed") /\ line' = Tail(line) /\ submitted' = submitted
  BY DEF SubmitBlock, Release
<1>3. /\ "submit" \in Racing \ {"waiting"}
      /\ "mark" \in Racing /\ "mark" \in Running /\ "failed" \in Ended
  BY DEF Racing, Running, Ended
<1>4. line # <<>> /\ Head(line) = t
  BY <1>1, <1>3, PastTheLock DEF RaceInv
<1>5. /\ template \in Tips /\ submitted \in [Tips -> Nat]
      /\ Parent(t) \in Tips /\ Parent(t) =< template
  <2>1. \A i \in DOMAIN shares : shares[i] \in Tips
    BY ElementOfSeq, LenProperties DEF RaceInv, Basics
  <2> QED
    BY <2>1, SharesKnown DEF RaceInv, Basics, Parent, SubmittedAtMostOnce
<1>6. Basics'
  <2>1. submitted' \in [Tips -> Nat]
    BY <1>2, <1>5
  <2> QED
    BY <1>1, <1>2, <1>3, <2>1, Going DEF RaceInv, Basics
<1>7. InOrder(tasks, line)'
  <2>1. CASE Goes(t, "mark") /\ line' = line
    BY <1>3, <1>4, <2>1, MovesOn DEF RaceInv, Basics, Goes
  <2>2. CASE Goes(t, "failed") /\ line' = Tail(line)
    BY <1>3, <1>4, <2>2, LeavesLine DEF RaceInv, Basics, Goes
  <2> QED
    BY <1>2, <2>1, <2>2
<1>8. PendingIsValidated' /\ PausedByAProver'
  <2>1. CASE Goes(t, "mark")
    BY <1>1, <1>3, <2>1, PendingStays, PausedStays DEF RaceInv, hooks
  <2>2. CASE Goes(t, "failed")
    BY <1>1, <1>3, <2>2, PendingStays, PausedStays DEF RaceInv, hooks
  <2> QED
    BY <1>2, <2>1, <2>2
<1>9. SubmittedAtMostOnce'
  <2>1. CASE Goes(t, "failed") /\ submitted' = submitted
    BY <1>1, <1>3, <2>1, SubmittedStays DEF RaceInv
  <2>2. CASE Goes(t, "mark") /\ submitted' = [submitted EXCEPT ![Parent(t)] = @ + 1]
    <3>1. /\ DOMAIN tasks' = DOMAIN tasks /\ tasks'[t].at = "mark"
          /\ \A u \in DOMAIN tasks \ {t} : tasks'[u] = tasks[u]
          /\ \A u \in DOMAIN tasks : tasks'[u].share = tasks[u].share
      BY <1>3, <2>2, Going DEF RaceInv
    <3>2. \A u \in DOMAIN tasks : Parent(u)' = Parent(u)
      BY <1>1, <3>1 DEF Parent
    <3>3. ASSUME NEW u \in DOMAIN tasks,
                 tasks[u].at \in {"pause", "prove", "resume", "giveup", "submit", "mark"}
          PROVE  u = t
      <4>1. tasks[u].at \in Racing \ {"waiting"}
        BY <3>3 DEF Racing
      <4> QED
        BY <1>1, <1>3, <4>1, OneAtATime DEF RaceInv
    <3>4. \A u \in DOMAIN tasks : tasks'[u].at \notin {"pause", "prove", "resume", "giveup", "submit"}
      BY <3>1, <3>3
    <3>5. submitted'[Parent(t)] = submitted[Parent(t)] + 1
      BY <1>5, <2>2
    <3>6. \A p \in Tips \ {Parent(t)} : submitted'[p] = submitted[p]
      BY <1>5, <2>2
    <3>7. \A p \in Tips : p > template => submitted'[p] = 0
      BY <1>5, <3>6 DEF RaceInv, SubmittedAtMostOnce, Tips
    <3>8. CASE Parent(t) = template
      <4>1. submitted[template] = 0
        BY <1>1, <3>8 DEF RaceInv, SubmittedAtMostOnce
      <4>2. submitted'[template] = 1
        BY <3>5, <3>8, <4>1
      <4> QED
        BY <1>1, <3>1, <3>2, <3>4, <3>7, <3>8, <4>2 DEF RaceInv, SubmittedAtMostOnce
    <3>9. CASE Parent(t) # template
      <4>1. submitted'[template] = submitted[template]
        BY <1>5, <3>6, <3>9
      <4>2. \A u \in DOMAIN tasks : tasks[u].at # "mark"
        BY <1>1, <3>3
      <4> QED
        BY <1>1, <3>1, <3>4, <3>7, <4>1, <4>2 DEF RaceInv, SubmittedAtMostOnce
    <3> QED
      BY <3>8, <3>9
  <2> QED
    BY <1>2, <2>1, <2>2
<1> QED
  BY <1>6, <1>7, <1>8, <1>9 DEF RaceInv

LEMMA MarkAssembledKeeps ==
  ASSUME RaceInv, NEW t \in DOMAIN tasks, MarkAssembled(t)
  PROVE  RaceInv'
<1>1. /\ tasks[t].at = "mark" /\ Goes(t, "broadcast")
      /\ assembled' = assembled \cup {Parent(t)}
      /\ UNCHANGED <<up, template, shares, jobs, stored, pending, line, paused, resumeLost,
                     submitted, crashes>>
  BY DEF MarkAssembled, At, hooks
<1>2. "mark" \in Racing \ {"waiting"} /\ "broadcast" \in Racing /\ "broadcast" \in Running
  BY DEF Racing, Running
<1>3. line # <<>> /\ Head(line) = t
  BY <1>1, <1>2, PastTheLock DEF RaceInv
<1>4. Basics'
  <2>1. \A i \in DOMAIN shares : shares[i] \in Tips
    BY ElementOfSeq, LenProperties DEF RaceInv, Basics
  <2>2. Parent(t) \in Tips
    BY <2>1, SharesKnown DEF RaceInv, Parent
  <2> QED
    BY <1>1, <1>2, <2>2, Going DEF RaceInv, Basics
<1>5. InOrder(tasks, line)'
  BY <1>1, <1>2, <1>3, MovesOn DEF RaceInv, Basics, Goes
<1>6. PendingIsValidated' /\ PausedByAProver'
  BY <1>1, <1>2, PendingStays, PausedStays DEF RaceInv, hooks
<1>7. SubmittedAtMostOnce'
  <2>1. /\ DOMAIN tasks' = DOMAIN tasks /\ tasks'[t].at = "broadcast"
        /\ \A u \in DOMAIN tasks \ {t} : tasks'[u] = tasks[u]
        /\ \A u \in DOMAIN tasks : tasks'[u].share = tasks[u].share
    BY <1>1, <1>2, Going DEF RaceInv
  <2>2. \A u \in DOMAIN tasks : Parent(u)' = Parent(u)
    BY <1>1, <2>1 DEF Parent
  <2>3. submitted[template] = 1 =>
            \/ template \in assembled'
            \/ \E u \in DOMAIN tasks \ {t} : tasks[u].at = "mark" /\ Parent(u) = template
    BY <1>1 DEF RaceInv, SubmittedAtMostOnce
  <2> QED
    BY <1>1, <2>1, <2>2, <2>3 DEF RaceInv, SubmittedAtMostOnce
<1> QED
  BY <1>4, <1>5, <1>6, <1>7 DEF RaceInv

LEMMA BroadcastBlockKeeps ==
  ASSUME RaceInv, NEW t \in DOMAIN tasks, BroadcastBlock(t)
  PROVE  RaceInv'
<1>1. /\ tasks[t].at = "broadcast" /\ Goes(t, "done") /\ line' = Tail(line)
      /\ UNCHANGED <<up, template, shares, jobs, stored, pending, assembled, paused, resumeLost,
                     submitted, crashes>>
  BY DEF BroadcastBlock, At, Release, hooks
<1>2. "broadcast" \in Racing \ {"waiting"} /\ "done" \in Ended
  BY DEF Racing, Ended
<1>3. line # <<>> /\ Head(line) = t
  BY <1>1, <1>2, PastTheLock DEF RaceInv
<1>4. Basics'
  BY <1>1, <1>2, Going DEF RaceInv, Basics
<1>5. InOrder(tasks, line)'
  BY <1>1, <1>2, <1>3, LeavesLine DEF RaceInv, Basics, Goes
<1>6. PendingIsValidated' /\ PausedByAProver' /\ SubmittedAtMostOnce'
  BY <1>1, <1>2, PendingStays, PausedStays, SubmittedStays DEF RaceInv, hooks
<1> QED
  BY <1>4, <1>5, <1>6 DEF RaceInv

(* A crash takes every task that runs out of the line. *)
LEMMA CrashKeeps ==
  ASSUME RaceInv, Crash
  PROVE  RaceInv'
<1> DEFINE lost(t) == IF tasks[t].at \in Running THEN [tasks[t] EXCEPT !.at = "lost"] ELSE tasks[t]
<1>1. /\ up' = FALSE /\ crashes' = crashes + 1
      /\ jobs' = {} /\ stored' = {} /\ pending' = {} /\ line' = <<>> /\ assembled' = {}
      /\ tasks' = [t \in DOMAIN tasks |-> lost(t)]
      /\ submitted' = [p \in Tips |-> 0]
      /\ UNCHANGED <<template, shares, paused, resumeLost>>
  BY DEF Crash, hooks
<1>2. /\ tasks \in Seq(TaskOver(DOMAIN shares)) /\ DOMAIN tasks = 1..Len(tasks) /\ Len(tasks) \in Nat
  BY LenProperties DEF RaceInv, Basics
<1>3. \A t \in DOMAIN tasks : lost(t) \in TaskOver(DOMAIN shares) /\ lost(t).at \in Ended
  <2> TAKE t \in DOMAIN tasks
  <2>1. tasks[t] \in TaskOver(DOMAIN shares)
    BY SharesKnown DEF RaceInv
  <2>2. "lost" \in Ended
    BY DEF Ended
  <2>3. tasks[t].at \in Running \cup Ended
    BY <2>1 DEF TaskOver
  <2>4. /\ [tasks[t] EXCEPT !.at = "lost"] \in TaskOver(DOMAIN shares)
        /\ [tasks[t] EXCEPT !.at = "lost"].at = "lost"
    BY <2>1, <2>2 DEF TaskOver
  <2> QED
    BY <2>1, <2>2, <2>3, <2>4
<1> HIDE DEF lost
<1>4. tasks' \in Seq(TaskOver(DOMAIN shares)) /\ DOMAIN tasks' = DOMAIN tasks
  BY <1>1, <1>2, <1>3
<1>5. \A t \in DOMAIN tasks' : tasks'[t].at \in Ended
  BY <1>1, <1>3, <1>4
<1>6. \A place \in Ended : place \notin Racing /\ place # "validate"
  BY DEF Ended, Racing
<1>7. Basics'
  <2>1. crashes' \in Nat
    <3>1. crashes \in Nat /\ crashes' = crashes + 1
      BY <1>1 DEF RaceInv, Basics
    <3> QED
      BY <3>1
  <2>2. submitted' \in [Tips -> Nat]
    <3>1. [p \in Tips |-> 0] \in [Tips -> Nat]
      OBVIOUS
    <3> QED
      BY <1>1, <3>1
  <2>3. {up, paused, resumeLost}' \subseteq BOOLEAN
    <3>1. paused \in BOOLEAN /\ resumeLost \in BOOLEAN
      BY DEF RaceInv, Basics
    <3> QED
      BY <1>1, <3>1
  <2>4. assembled' \subseteq Tips
    BY <1>1
  <2>5. tasks' \in Seq(TaskOver(DOMAIN shares'))
    BY <1>1, <1>4
  <2>6. jobs' \cup stored' \cup pending' \subseteq DOMAIN shares'
    BY <1>1
  <2> QED
    BY <1>1, <2>1, <2>2, <2>3, <2>4, <2>5, <2>6 DEF RaceInv, Basics
<1>8. InOrder(tasks, line)'
  <2>1. <<>> \in Seq(DOMAIN tasks') /\ DOMAIN <<>> = {}
    OBVIOUS
  <2> QED
    BY <1>1, <1>5, <1>6, <2>1 DEF InOrder
<1>9. PendingIsValidated'
  <2>1. {u \in DOMAIN tasks' : tasks'[u].at = "validate"} = {}
    BY <1>5, <1>6
  <2> QED
    BY <1>1, <1>5, <1>6, <2>1 DEF PendingIsValidated
<1>10. PausedByAProver'
  BY <1>1 DEF PausedByAProver
<1>11. SubmittedAtMostOnce'
  BY <1>1 DEF RaceInv, Basics, SubmittedAtMostOnce
<1> QED
  BY <1>7, <1>8, <1>9, <1>10, <1>11 DEF RaceInv

LEMMA StartKeeps ==
  ASSUME RaceInv, Start
  PROVE  RaceInv'
<1>1. /\ up' = TRUE
      /\ paused' \in BOOLEAN /\ resumeLost' \in BOOLEAN /\ (paused' => resumeLost')
      /\ UNCHANGED <<template, shares, jobs, stored, pending, tasks, line, assembled, submitted, crashes>>
  BY ResumeHook DEF Start, RaceInv
<1>2. Basics'
  BY <1>1 DEF RaceInv, Basics
<1>3. InOrder(tasks, line)' /\ PendingIsValidated'
  BY <1>1 DEF RaceInv, PendingIsValidated
<1>4. PausedByAProver'
  BY <1>1 DEF PausedByAProver
<1>5. SubmittedAtMostOnce'
  <2>1. \A t \in DOMAIN tasks : Parent(t)' = Parent(t)
    BY <1>1 DEF Parent
  <2> QED
    BY <1>1, <2>1 DEF RaceInv, SubmittedAtMostOnce
<1> QED
  BY <1>2, <1>3, <1>4, <1>5 DEF RaceInv

-----------------------------------------------------------------------------
(* The theorems *)

LEMMA RaceInit ==
  Init => RaceInv
<1> SUFFICES ASSUME Init PROVE RaceInv
  OBVIOUS
<1>1. 1 \in Tips
  BY PoolAssumption DEF Tips
<1>2. <<>> \in Seq(Tips) /\ <<>> \in Seq(TaskOver({})) /\ <<>> \in Seq({}) /\ DOMAIN <<>> = {}
  OBVIOUS
<1>3. Basics
  BY <1>1, <1>2 DEF Init, Basics
<1>4. InOrder(tasks, line)
  BY <1>2 DEF Init, InOrder
<1>5. PendingIsValidated /\ PausedByAProver
  BY <1>2 DEF Init, PendingIsValidated, PausedByAProver
<1>6. SubmittedAtMostOnce
  BY <1>1, <1>2 DEF Init, SubmittedAtMostOnce
<1> QED
  BY <1>3, <1>4, <1>5, <1>6 DEF RaceInv

LEMMA RaceNext ==
  RaceInv /\ [Next]_vars => RaceInv'
<1> SUFFICES ASSUME RaceInv, [Next]_vars PROVE RaceInv'
  OBVIOUS
<1>1. CASE UNCHANGED vars
  <2>1. UNCHANGED <<up, template, shares, jobs, stored, pending, tasks, line, assembled, paused,
                   resumeLost, submitted, crashes>>
    BY <1>1 DEF vars, race, hooks
  <2>2. \A t \in DOMAIN tasks : Parent(t)' = Parent(t)
    BY <2>1 DEF Parent
  <2>3. Basics' /\ InOrder(tasks, line)'
    BY <2>1 DEF RaceInv, Basics
  <2>4. PendingIsValidated' /\ PausedByAProver'
    BY <2>1 DEF RaceInv, PendingIsValidated, PausedByAProver
  <2>5. SubmittedAtMostOnce'
    BY <2>1, <2>2 DEF RaceInv, SubmittedAtMostOnce
  <2> QED
    BY <2>3, <2>4, <2>5 DEF RaceInv
<1>2. ASSUME NEW t \in DOMAIN tasks, Step(t) PROVE RaceInv'
  BY <1>2, ValidateKeeps, FollowUpKeeps, AcquireKeeps, PreAssembleKeeps, AssembleBlockKeeps,
     PostAssembleKeeps, SubmitBlockKeeps, MarkAssembledKeeps, BroadcastBlockKeeps DEF Step
<1>3. ASSUME NEW i \in jobs, NEW quality \in Qualities, HandleSubmit(i, quality) PROVE RaceInv'
  BY <1>3, HandleSubmitKeeps
<1>4. ASSUME NEW quality \in Qualities \ {"bad"}, TryCollaborativeSubmit(quality) PROVE RaceInv'
  BY <1>4, TryCollaborativeSubmitKeeps
<1> QED
  BY <1>1, <1>2, <1>3, <1>4, SetTemplateKeeps, BuildJobKeeps, CrashKeeps, StartKeeps DEF Next

(***************************************************************************)
(* The inductive invariant: types, the order of the line, one validation   *)
(* per pending share, a pause that has an owner, and at most one submission*)
(* for the tip the node works on.                                          *)
(***************************************************************************)
THEOREM RaceInvariance == Spec => []RaceInv
  BY RaceInit, RaceNext, PTL DEF Spec

(***************************************************************************)
(* The tasks inside _assemble_and_submit are exactly those in line for the *)
(* lock, each once, and every variable keeps its type.                     *)
(***************************************************************************)
THEOREM RaceTypeCorrect == Spec => []TypeOK
<1>1. ASSUME RaceInv PROVE TypeOK
  <2>1. /\ Basics /\ line \in Seq(DOMAIN tasks)
        /\ \A t \in DOMAIN tasks : (tasks[t].at \in Racing) <=> (\E k \in DOMAIN line : line[k] = t)
        /\ \A j, k \in DOMAIN line : line[j] = line[k] => j = k
    BY <1>1 DEF RaceInv, InOrder
  <2>2. tasks \in Seq([origin : {"miner", "peer"}, share : DOMAIN shares, quality : Qualities,
                      at : Running \cup Ended])
    BY <2>1 DEF Basics, TaskOver
  <2> QED
    BY <2>1, <2>2 DEF TypeOK, Basics
<1> QED
  BY RaceInvariance, <1>1, PTL

(***************************************************************************)
(* However submissions, refusals and crashes follow each other, a share is *)
(* pending exactly while one task validates it.                            *)
(***************************************************************************)
THEOREM PendingCorrect == Spec => []PendingIsValidated
<1>1. RaceInv => PendingIsValidated
  BY DEF RaceInv
<1> QED
  BY RaceInvariance, <1>1, PTL

(***************************************************************************)
(* The co-located load is paused only for the prover that holds the lock,  *)
(* or because the resume command had no effect.                            *)
(***************************************************************************)
THEOREM PauseCorrect == Spec => []PausedOnlyToProve
<1>1. ASSUME RaceInv PROVE PausedOnlyToProve
  <2>1. ASSUME NEW t \in DOMAIN tasks, tasks[t].at \in {"prove", "resume", "giveup"}
        PROVE  line # <<>> /\ tasks[Head(line)].at \in {"prove", "resume", "giveup"}
    <3>1. tasks[t].at \in Racing \ {"waiting"}
      BY <2>1 DEF Racing
    <3>2. line # <<>> /\ Head(line) = t
      BY <1>1, <3>1, PastTheLock DEF RaceInv
    <3> QED
      BY <2>1, <3>2
  <2> QED
    BY <1>1, <2>1 DEF RaceInv, PausedByAProver, PausedOnlyToProve
<1> QED
  BY RaceInvariance, <1>1, PTL

(***************************************************************************)
(* Among any number of own and peers' shares that make a block of the tip  *)
(* the node works on, one at most is submitted.                            *)
(***************************************************************************)
THEOREM SubmissionCorrect == Spec => []SubmittedOnce
<1>1. RaceInv => SubmittedOnce
  BY DEF RaceInv, SubmittedAtMostOnce, SubmittedOnce
<1> QED
  BY RaceInvariance, <1>1, PTL
=============================================================================
