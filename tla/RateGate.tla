------------------------------ MODULE RateGate ------------------------------
(***************************************************************************)
(* How much one connection may ask of a node.  Requests that cost the node *)
(* something are counted by kind over fixed windows, each of which starts  *)
(* with the first request after the former one; requests over the limit    *)
(* are ignored, and several in a row end the connection, as does the cap   *)
(* on all messages.                                                        *)
(***************************************************************************)
EXTENDS Integers, Sequences, FiniteSets, SequencesExt

CONSTANTS
    Kinds,       \* RATE_LIMITS
    Limit,       \* how many requests of each kind a window has room for
    WindowSize,  \* how long a window lasts
    HardStrikes, \* HARD_RATE_STRIKES
    MaxMessages, \* MAX_MSGS_PER_CONN
    MaxClock     \* bound: the clock

VARIABLES
    clock,    \* time.monotonic()
    buckets,  \* start and count of each kind's window, NoBucket before the first
    strikes,  \* requests over the limit, of any kind, in a row
    open,     \* whether the connection is open
    log       \* history: kind, time and verdict of every message read

vars == <<clock, buckets, strikes, open, log>>

NoBucket == [start |-> -WindowSize, count |-> 0]

Free == "free"   \* the kinds of message that are not limited

(* Fault: a window slides with every request in it *)
AllowSliding(kind) ==
    LET b == buckets[kind]
        fresh == clock - b.start >= WindowSize
        served == fresh \/ b.count < Limit[kind]
    IN  /\ buckets' = [buckets EXCEPT ![kind] =
                        IF fresh THEN [start |-> clock, count |-> 1]
                        ELSE [start |-> clock, count |-> IF served THEN @.count + 1 ELSE @.count]]
        /\ strikes' = IF served THEN 0 ELSE strikes + 1

(* Fault: one request too many is served *)
AllowOneMore(kind) ==
    LET b == buckets[kind]
        fresh == clock - b.start >= WindowSize
        served == fresh \/ b.count =< Limit[kind]
    IN  /\ buckets' = [buckets EXCEPT ![kind] =
                        IF fresh THEN [start |-> clock, count |-> 1]
                        ELSE IF served THEN [@ EXCEPT !.count = @ + 1] ELSE @]
        /\ strikes' = IF served THEN 0 ELSE strikes + 1

(* _Peer.allow *)
Allow(kind) ==
    LET b == buckets[kind]
        fresh == clock - b.start >= WindowSize
        served == fresh \/ b.count < Limit[kind]
    IN  /\ buckets' = [buckets EXCEPT ![kind] =
                        IF fresh THEN [start |-> clock, count |-> 1]
                        ELSE IF served THEN [b EXCEPT !.count = @ + 1] ELSE b]
        /\ strikes' = IF served THEN 0 ELSE strikes + 1

Logged(kind, verdict) == log' = Append(log, [kind |-> kind, at |-> clock, verdict |-> verdict])

(* _run_peer: the message after the last one that the cap allows is not handled *)
Read(kind) ==
    /\ open
    /\ IF Len(log) = MaxMessages
       THEN Logged(kind, "flood") /\ open' = FALSE /\ UNCHANGED <<buckets, strikes>>
       ELSE IF kind = Free
       THEN Logged(kind, "served") /\ UNCHANGED <<buckets, strikes, open>>
       ELSE /\ Allow(kind)
            /\ Logged(kind, IF strikes' = 0 THEN "served" ELSE "ignored")
            /\ open' = (strikes' < HardStrikes)
    /\ UNCHANGED clock

Tick ==
    /\ open /\ clock < MaxClock
    /\ clock' = clock + 1
    /\ UNCHANGED <<buckets, strikes, open, log>>

Init ==
    /\ clock = 0
    /\ buckets = [kind \in Kinds |-> NoBucket]
    /\ strikes = 0 /\ open = TRUE /\ log = <<>>

Next == Tick \/ \E kind \in Kinds \cup {Free} : Read(kind)

-----------------------------------------------------------------------------
(* Properties *)

(* How many requests of a kind were read in the window up to message i *)
ReadBy(i, verdicts) ==
    Cardinality({j \in 1..i : /\ log[j].kind = log[i].kind
                              /\ log[j].verdict \in verdicts
                              /\ log[j].at > log[i].at - WindowSize})

(***************************************************************************)
(* A peer that keeps to the limits is answered: a request is ignored only  *)
(* when more of its kind than the limit came within the length of a window.*)
(***************************************************************************)
IgnoredOnlyOverLimit ==
    \A i \in DOMAIN log : log[i].verdict = "ignored"
        => ReadBy(i, {"served", "ignored"}) > Limit[log[i].kind]

(***************************************************************************)
(* Fixed windows may adjoin, so within the length of one nearly twice the  *)
(* limit may be served: the request that starts a window is not in it.     *)
(***************************************************************************)
ServedLessThanTwice ==
    \A i \in DOMAIN log : log[i].kind \in Kinds
        => ReadBy(i, {"served"}) < 2 * Limit[log[i].kind]

=============================================================================
