------------------------------- MODULE Gossip -------------------------------
(***************************************************************************)
(* The share gossip between pool nodes: shares are announced without their *)
(* proof, a proof is fetched on demand, a node that lacks a parent asks    *)
(* for a window sync, and hello messages start one on connection.  Every   *)
(* node is honest, so a share is acceptable where its parent is stored     *)
(* (SharechainProofs, VerdictCorrect).  Connections are first-in first-out *)
(* and lose nothing until they end, which nobody repairs before a restart; *)
(* a restarted node starts empty.  Found blocks are flooded over the same  *)
(* connections, each passed on when it is first seen.                      *)
(***************************************************************************)
EXTENDS Integers, Sequences, FiniteSets, SequencesExt, FiniteSetsExt, Folds

CONSTANTS
    Nodes,
    Links,         \* <<n, m>>: n is configured to dial m
    Starts,        \* how the pool may begin: the links that were up before the first
                   \* share, and the nodes that have miners
    Retention,     \* heights kept below the best tip
    SyncLimit,     \* SYNC_LIMIT
    SyncBatch,     \* SYNC_BATCH
    MaxBlocksSeen, \* MAX_BLOCKS_SEEN
    StaleJobs,     \* whether miners may answer the job before the current one
    Works,         \* bound: the difficulties that each node's shares may have
    MaxShares,     \* bound: shares ever mined
    MaxBlocks,     \* bound: blocks found
    MaxLosses,     \* bound: connections that end
    MaxRestarts    \* bound: restarts of nodes without miners

ASSUME GossipAssumption ==
    /\ Links \subseteq Nodes \X Nodes
    /\ \A link \in Links : <<link[2], link[1]>> \notin Links
    /\ Starts \subseteq [early : SUBSET Links, mining : SUBSET Nodes]
    /\ Retention \in Nat \ {0} /\ SyncLimit \in Nat \ {0} /\ SyncBatch \in Nat \ {0}
    /\ MaxBlocksSeen \in Nat \ {0} /\ StaleJobs \in BOOLEAN /\ Works \in [Nodes -> SUBSET (Nat \ {0})]
    /\ {MaxShares, MaxBlocks, MaxLosses, MaxRestarts} \subseteq Nat

VARIABLES
    shares,    \* every share mined so far; share i has identifier i, and with it
               \* the ancestors and the total difficulty that its parents give it
    mining,    \* the nodes that have miners
    node,      \* what each node keeps, a record of NodeState
    peers,     \* _peers: the nodes each node has registered
    dialed,    \* the links dialled since the dialling node started
    chan,      \* messages in transit from one node to another
    stream,    \* the shares a window sync has still to send, per requester
    blocks,    \* how many blocks have been found; block b is the b-th
    losses,    \* how many connections have ended
    restarts   \* how many restarts there have been

vars == <<shares, mining, node, peers, dialed, chan, stream, blocks, losses, restarts>>
counts == <<mining, blocks, losses, restarts>>

Genesis == 0
Ids == 1..Len(shares)
Pairs == {p \in Nodes \X Nodes : p[1] # p[2]}

NodeState ==
    [store : SUBSET Ids,                 \* the sharechain's entries
     tip : Ids \cup {Genesis},           \* its best tip
     proofs : SUBSET Ids,                \* _proofs
     pending : SUBSET Ids,               \* _pending
     unannounced : Seq(Ids),             \* broadcast_share tasks that have not run
     blocksSeen : Seq(1..MaxBlocks),     \* _blocks_seen, the least recent first
     gaps : SUBSET Ids]                  \* history: skipped by a window sync for want of a parent

Fresh == [store |-> {}, tip |-> Genesis, proofs |-> {}, pending |-> {},
          unannounced |-> <<>>, blocksSeen |-> <<>>, gaps |-> {}]

Message ==
    [type : {"hello"}, height : Nat \cup {-1}] \cup
    [type : {"share", "getproof", "proof"}, id : Ids] \cup
    [type : {"getshares"}, from : Nat] \cup
    [type : {"shares"}, ids : SUBSET Ids] \cup
    [type : {"block"}, block : 1..MaxBlocks]

-----------------------------------------------------------------------------
(* One node's sharechain *)

HeightOf(S, i) == IF i = Genesis THEN -1 ELSE S[i].height
Chain(i) == IF i = Genesis THEN {} ELSE shares[i].chain
Total(S, i) == IF i = Genesis THEN 0 ELSE S[i].total
Height(s) == HeightOf(shares, s.tip)

ParentKnown(s, i) == shares[i].prev \in s.store \cup {Genesis}

(* Fault: pruning keeps what it should drop *)
StoredBelowHorizon(S, s, i) ==
    LET grown == s.store \cup {i}
    IN  IF Total(S, i) > Total(S, s.tip)
        THEN [s EXCEPT !.tip = i,
                       !.store = {j \in grown : S[j].height < S[i].height - Retention}]
        ELSE [s EXCEPT !.store = grown]

(* add_share on a valid share: a heavier one becomes the tip and prunes *)
Stored(S, s, i) ==
    LET grown == s.store \cup {i}
    IN  IF Total(S, i) > Total(S, s.tip)
        THEN [s EXCEPT !.tip = i,
                       !.store = {j \in grown : S[j].height >= S[i].height - Retention}]
        ELSE [s EXCEPT !.store = grown]

(* Fault: the proof of a synced share is dropped *)
StoredUnprovable(s, i) == Stored(shares, s, i)

(* A share received with its proof is stored with it *)
StoredProven(s, i) == [Stored(shares, s, i) EXCEPT !.proofs = @ \cup {i}]

(***************************************************************************)
(* The best chain from height `from' up, SyncLimit shares at most.         *)
(* Pruning cuts a chain at one height, so the walk down from the tip meets *)
(* every stored share of it; identifiers grow along a chain, so the set    *)
(* stands for the list that is sent oldest first.                          *)
(***************************************************************************)
MainChain(s, from) ==
    {i \in s.store \cap Chain(s.tip) :
        shares[i].height >= from /\ shares[i].height > Height(s) - SyncLimit}

-----------------------------------------------------------------------------
(* Sending *)

Sent(c, n, m, msg) == [c EXCEPT ![<<n, m>>] = Append(@, msg)]

Broadcast(c, n, msg, excluded) ==
    [p \in Pairs |-> IF p[1] = n /\ p[2] \in peers[n] \ excluded THEN Append(c[p], msg) ELSE c[p]]

ShareMsg(i) == [type |-> "share", id |-> i]
HelloMsg(n) == [type |-> "hello", height |-> Height(node[n])]
GetSharesMsg(h) == [type |-> "getshares", from |-> h]

(***************************************************************************)
(* The head of the message from m that n's reader takes next.  A reader    *)
(* runs each handler to its end, so it takes nothing from m while a window *)
(* sync to m is being sent.                                                *)
(***************************************************************************)
Takes(n, m, type) ==
    /\ m \in peers[n]
    /\ stream[<<n, m>>] = {}
    /\ chan[<<m, n>>] # <<>>
    /\ Head(chan[<<m, n>>]).type = type

Msg(n, m) == Head(chan[<<m, n>>])
Rest(n, m) == [chan EXCEPT ![<<m, n>>] = Tail(@)]

-----------------------------------------------------------------------------
(* Local events *)

(* What a node's miners may be working on: its tip, or the job before it *)
JobParents(s) ==
    {s.tip} \cup IF StaleJobs /\ s.tip # Genesis THEN {shares[s.tip].prev} ELSE {}

(* A miner's share passes validation and is stored *)
Mine(n, prev, w) ==
    LET s == node[n]
        i == Len(shares) + 1
        S == Append(shares, [prev |-> prev, height |-> HeightOf(shares, prev) + 1,
                             total |-> Total(shares, prev) + w,
                             chain |-> {i} \cup Chain(prev)])
    IN  /\ n \in mining
        /\ Len(shares) < MaxShares
        /\ prev \in JobParents(s) /\ prev \in s.store \cup {Genesis}
        /\ shares' = S
        /\ node' = [node EXCEPT ![n] = [Stored(S, s, i) EXCEPT !.unannounced = Append(@, i)]]
        /\ UNCHANGED <<peers, dialed, chan, stream, counts>>

(* Fault: the proof of a share of one's own is not kept *)
AnnounceUnproven(n) ==
    /\ node[n].unannounced # <<>>
    /\ node' = [node EXCEPT ![n].unannounced = Tail(@)]
    /\ chan' = Broadcast(chan, n, ShareMsg(Head(node[n].unannounced)), {})
    /\ UNCHANGED <<shares, peers, dialed, stream, counts>>

(* broadcast_share: keep the proof for those who will ask, then announce *)
BroadcastShare(n) ==
    LET i == Head(node[n].unannounced)
    IN  /\ node[n].unannounced # <<>>
        /\ node' = [node EXCEPT ![n].proofs = @ \cup {i}, ![n].unannounced = Tail(@)]
        /\ chan' = Broadcast(chan, n, ShareMsg(i), {})
        /\ UNCHANGED <<shares, peers, dialed, stream, counts>>

(* connect: peers are dialled once, when the node starts *)
Connect(n, m) ==
    /\ <<n, m>> \in Links \ dialed
    /\ dialed' = dialed \cup {<<n, m>>}
    /\ peers' = [peers EXCEPT ![n] = @ \cup {m}]
    /\ chan' = Sent(chan, n, m, HelloMsg(n))
    /\ UNCHANGED <<shares, node, stream, counts>>

(* _on_inbound: the listener registers the dialler and greets it *)
OnInbound(n, m) ==
    /\ m \notin peers[n] /\ chan[<<m, n>>] # <<>>
    /\ peers' = [peers EXCEPT ![n] = @ \cup {m}]
    /\ chan' = Sent(chan, n, m, HelloMsg(n))
    /\ UNCHANGED <<shares, node, dialed, stream, counts>>

(* What is under way between the nodes of these pairs is lost *)
Cut(pairs) ==
    /\ chan' = [p \in Pairs |-> IF p \in pairs THEN <<>> ELSE chan[p]]
    /\ stream' = [p \in Pairs |-> IF p \in pairs THEN {} ELSE stream[p]]

(* Nothing is saved: a node that restarts has no shares and no connection *)
Restart(n) ==
    /\ n \notin mining /\ restarts < MaxRestarts
    /\ restarts' = restarts + 1
    /\ node' = [node EXCEPT ![n] = Fresh]
    /\ peers' = [m \in Nodes |-> IF m = n THEN {} ELSE peers[m] \ {n}]
    /\ dialed' = {link \in dialed : link[1] # n}
    /\ Cut({p \in Pairs : n \in {p[1], p[2]}})
    /\ UNCHANGED <<shares, mining, blocks, losses>>

(* A connection ends, by an error or by the flood cap of either side.  Its *)
(* pending shares stay pending, and it is not dialled again.               *)
Lose(n, m) ==
    /\ losses < MaxLosses /\ m \in peers[n] /\ n \in peers[m]
    /\ losses' = losses + 1
    /\ peers' = [peers EXCEPT ![n] = @ \ {m}, ![m] = @ \ {n}]
    /\ Cut({<<n, m>>, <<m, n>>})
    /\ UNCHANGED <<shares, mining, node, dialed, blocks, restarts>>

-----------------------------------------------------------------------------
(* Found blocks *)

Without(seen, b) ==
    IF b \in Range(seen) THEN RemoveAt(seen, CHOOSE k \in DOMAIN seen : seen[k] = b) ELSE seen

(* Fault: room for one block less *)
SeenTooShort(seen, b) ==
    LET kept == Append(Without(seen, b), b)
    IN  IF Len(kept) >= MaxBlocksSeen THEN Tail(kept) ELSE kept

(* _seen_block: b is the most recent now, and the least recent may go *)
Seen(seen, b) ==
    LET kept == Append(Without(seen, b), b)
    IN  IF Len(kept) > MaxBlocksSeen THEN Tail(kept) ELSE kept

BlockMsg(b) == [type |-> "block", block |-> b]

(* broadcast_block: a block of one's own counts as seen *)
BroadcastBlock(n) ==
    LET b == blocks + 1
    IN  /\ b =< MaxBlocks
        /\ blocks' = b
        /\ node' = [node EXCEPT ![n].blocksSeen = Seen(@, b)]
        /\ chan' = Broadcast(chan, n, BlockMsg(b), {})
        /\ UNCHANGED <<shares, mining, peers, dialed, stream, losses, restarts>>

-----------------------------------------------------------------------------
(* Handlers of node n for a message from m *)

HandleHello(n, m) ==
    /\ Takes(n, m, "hello")
    /\ chan' = IF Msg(n, m).height > Height(node[n])
               THEN Sent(Rest(n, m), n, m, GetSharesMsg(Height(node[n]) + 1))
               ELSE Rest(n, m)
    /\ UNCHANGED <<shares, node, peers, dialed, stream, counts>>

(* Fault: an orphan is dropped, and nothing is asked *)
HandleShareDropsOrphan(n, m) ==
    LET i == Msg(n, m).id
        s == node[n]
        fetched == i \notin s.store \cup s.pending /\ ParentKnown(s, i)
    IN  /\ Takes(n, m, "share")
        /\ chan' = IF fetched THEN Sent(Rest(n, m), n, m, [type |-> "getproof", id |-> i])
                   ELSE Rest(n, m)
        /\ node' = IF fetched THEN [node EXCEPT ![n].pending = @ \cup {i}] ELSE node
        /\ UNCHANGED <<shares, peers, dialed, stream, counts>>

(* The height a window sync for orphan i starts at: its parent's *)
FromParent(i) == Max({0, shares[i].height - 1})

(* An announced share: known, or an orphan to sync for, or one to fetch *)
HandleShare(n, m) ==
    LET i == Msg(n, m).id
        s == node[n]
        known == i \in s.store \cup s.pending
        ask == IF ParentKnown(s, i)
               THEN [type |-> "getproof", id |-> i]
               ELSE GetSharesMsg(FromParent(i))
    IN  /\ Takes(n, m, "share")
        /\ chan' = IF known THEN Rest(n, m) ELSE Sent(Rest(n, m), n, m, ask)
        /\ node' = IF known \/ ~ParentKnown(s, i) THEN node
                   ELSE [node EXCEPT ![n].pending = @ \cup {i}]
        /\ UNCHANGED <<shares, peers, dialed, stream, counts>>

HandleGetProof(n, m) ==
    LET i == Msg(n, m).id
    IN  /\ Takes(n, m, "getproof")
        /\ chan' = IF i \in node[n].proofs
                   THEN Sent(Rest(n, m), n, m, [type |-> "proof", id |-> i])
                   ELSE Rest(n, m)
        /\ UNCHANGED <<shares, node, peers, dialed, stream, counts>>

(* Fault: the share stops waiting only when its proof is accepted *)
HandleProofLatePop(n, m) ==
    LET i == Msg(n, m).id
        s == node[n]
        accepted == i \in s.pending \ s.store /\ ParentKnown(s, i)
    IN  /\ Takes(n, m, "proof")
        /\ node' = [node EXCEPT ![n] = IF accepted
                        THEN StoredProven([s EXCEPT !.pending = @ \ {i}], i) ELSE s]
        /\ chan' = IF accepted THEN Broadcast(Rest(n, m), n, ShareMsg(i), {m}) ELSE Rest(n, m)
        /\ UNCHANGED <<shares, peers, dialed, stream, counts>>

(* A share that was waiting for this proof is stored and relayed, unless a *)
(* window sync has stored it meanwhile                                     *)
HandleProof(n, m) ==
    LET i == Msg(n, m).id
        s == [node[n] EXCEPT !.pending = @ \ {i}]
        accepted == i \in node[n].pending \ s.store /\ ParentKnown(s, i)
    IN  /\ Takes(n, m, "proof")
        /\ node' = [node EXCEPT ![n] = IF accepted THEN StoredProven(s, i) ELSE s]
        /\ chan' = IF accepted THEN Broadcast(Rest(n, m), n, ShareMsg(i), {m}) ELSE Rest(n, m)
        /\ UNCHANGED <<shares, peers, dialed, stream, counts>>

(* The reply carries the shares of ids, if there are any *)
Batch(c, n, m, ids) ==
    IF ids = {} THEN c ELSE Sent(c, n, m, [type |-> "shares", ids |-> ids])

(* Fault: the batch size bounds the whole reply *)
FirstBatchOnly(n, m, list, c) ==
    LET earlier(i) == Cardinality({j \in list \cap node[n].proofs : j < i})
    IN  /\ stream' = [stream EXCEPT ![<<n, m>>] = {}]
        /\ chan' = Batch(c, n, m, {i \in list \cap node[n].proofs : earlier(i) < SyncBatch})

(* Send to m the oldest of list that n can prove, one batch of them *)
SendBatch(n, m, list, c) ==
    LET earlier(i) == Cardinality({j \in list \cap node[n].proofs : j < i})
    IN  /\ stream' = [stream EXCEPT ![<<n, m>>] = {i \in list : earlier(i) >= SyncBatch}]
        /\ chan' = Batch(c, n, m, {i \in list \cap node[n].proofs : earlier(i) < SyncBatch})

HandleGetShares(n, m) ==
    /\ Takes(n, m, "getshares")
    /\ SendBatch(n, m, MainChain(node[n], Msg(n, m).from), Rest(n, m))
    /\ UNCHANGED <<shares, node, peers, dialed, counts>>

(* The handler resumes after a batch was sent; others may have run since *)
ContinueSync(n, m) ==
    /\ stream[<<n, m>>] # {}
    /\ SendBatch(n, m, stream[<<n, m>>], chan)
    /\ UNCHANGED <<shares, node, peers, dialed, counts>>

(* A share of a window sync: skipped when known or when its parent is not *)
Synced(s, i) ==
    IF i \in s.store THEN s
    ELSE IF ParentKnown(s, i) THEN StoredProven(s, i) ELSE [s EXCEPT !.gaps = @ \cup {i}]

(* All of a batch, the oldest first *)
AllSynced(s, ids) ==
    MapThenFoldSet(LAMBDA i, t : Synced(t, i), s, LAMBDA i : i, LAMBDA S : Max(S), ids)

HandleShares(n, m) ==
    /\ Takes(n, m, "shares")
    /\ node' = [node EXCEPT ![n] = AllSynced(@, Msg(n, m).ids)]
    /\ chan' = Rest(n, m)
    /\ UNCHANGED <<shares, peers, dialed, stream, counts>>

(* Fault: a block is passed on by its finder only *)
HandleBlockSilently(n, m) ==
    /\ Takes(n, m, "block")
    /\ node' = [node EXCEPT ![n].blocksSeen = Seen(@, Msg(n, m).block)]
    /\ chan' = Rest(n, m)
    /\ UNCHANGED <<shares, peers, dialed, stream, counts>>

(* A block that was not seen lately is passed on to everyone else *)
HandleBlock(n, m) ==
    LET b == Msg(n, m).block
    IN  /\ Takes(n, m, "block")
        /\ node' = [node EXCEPT ![n].blocksSeen = Seen(@, b)]
        /\ chan' = IF b \in Range(node[n].blocksSeen) THEN Rest(n, m)
                   ELSE Broadcast(Rest(n, m), n, BlockMsg(b), {m})
        /\ UNCHANGED <<shares, peers, dialed, stream, counts>>

-----------------------------------------------------------------------------
Init ==
    /\ shares = <<>>
    /\ node = [n \in Nodes |-> Fresh]
    /\ \E start \in Starts :
         /\ dialed = start.early
         /\ peers = [n \in Nodes |-> {m \in Nodes : {<<n, m>>, <<m, n>>} \cap dialed # {}}]
         /\ mining = start.mining
    /\ chan = [p \in Pairs |-> <<>>]
    /\ stream = [p \in Pairs |-> {}]
    /\ blocks = 0 /\ losses = 0 /\ restarts = 0

Handle(n, m) ==
    \/ HandleHello(n, m) \/ HandleShare(n, m)
    \/ HandleGetProof(n, m) \/ HandleProof(n, m)
    \/ HandleGetShares(n, m) \/ HandleShares(n, m) \/ HandleBlock(n, m)

(* What n does about its connection with m: one of these at a time *)
Serve(n, m) ==
    \/ Connect(n, m) \/ OnInbound(n, m)
    \/ Handle(n, m) \/ ContinueSync(n, m)

Next ==
    \/ \E n \in Nodes : \E w \in Works[n], prev \in JobParents(node[n]) : Mine(n, prev, w)
    \/ \E n \in Nodes : BroadcastShare(n) \/ BroadcastBlock(n) \/ Restart(n)
    \/ \E p \in Pairs : Serve(p[1], p[2]) \/ Lose(p[1], p[2])

(***************************************************************************)
(* An event loop runs every task that is ready and reads every connection  *)
(* that has a message, and TCP delivers as long as a connection lasts;     *)
(* nobody is obliged to mine, to find a block, to disconnect or to restart.*)
(***************************************************************************)
Fairness ==
    /\ \A n \in Nodes : WF_vars(BroadcastShare(n))
    /\ \A p \in Pairs : WF_vars(Serve(p[1], p[2]))

Spec == Init /\ [][Next]_vars
FairSpec == Spec /\ Fairness

-----------------------------------------------------------------------------
(* Properties *)

(* Every variable keeps its shape, and the tip is a stored share. *)
TypeOK ==
    /\ \A i \in Ids : /\ shares[i].prev \in 0..(i - 1)
                     /\ shares[i].height \in Nat /\ shares[i].total \in Nat
                     /\ shares[i].chain \subseteq 1..i
    /\ \A n \in Nodes : LET s == node[n] IN
         /\ DOMAIN s = DOMAIN Fresh
         /\ s.store \cup s.proofs \cup s.pending \cup s.gaps \cup Range(s.unannounced) \subseteq Ids
         /\ s.tip \in s.store \cup {Genesis}
         /\ (s.tip = Genesis) = (s.store = {})
         /\ Len(s.blocksSeen) =< MaxBlocksSeen /\ Range(s.blocksSeen) \subseteq 1..blocks
    /\ peers \in [Nodes -> SUBSET Nodes]
    /\ dialed \subseteq Links
    /\ \A p \in Pairs : /\ \A k \in DOMAIN chan[p] : chan[p][k].type \in
                           {"hello", "share", "getproof", "proof", "getshares", "shares", "block"}
                       /\ stream[p] \subseteq Ids
    /\ restarts \in 0..MaxRestarts /\ blocks \in 0..MaxBlocks /\ losses \in 0..MaxLosses

(***************************************************************************)
(* Whoever has announced a share on an open connection can prove it: a     *)
(* getproof that follows the announcement is answered.                     *)
(***************************************************************************)
AnnouncedIsProvable ==
    \A p \in Pairs : \A k \in DOMAIN chan[p] :
        chan[p][k].type \in {"share", "proof"} => chan[p][k].id \in node[p[1]].proofs

(***************************************************************************)
(* A stored share without a proof, which a window sync silently leaves     *)
(* out, is one of the node's own that it has still to announce.            *)
(***************************************************************************)
UnprovenIsUnannounced ==
    \A n \in Nodes : node[n].store \ node[n].proofs \subseteq Range(node[n].unannounced)

Asked(n, i) ==
    \E m \in Nodes \ {n} :
        \/ \E k \in DOMAIN chan[<<n, m>>] : chan[<<n, m>>][k] = [type |-> "getproof", id |-> i]
        \/ \E k \in DOMAIN chan[<<m, n>>] : chan[<<m, n>>][k] = [type |-> "proof", id |-> i]

(***************************************************************************)
(* While no connection is lost, a share waiting for its proof has a        *)
(* request or an answer under way: the entry that makes later              *)
(* announcements of the share look known is bound to be taken out.         *)
(***************************************************************************)
PendingIsAsked == \A n \in Nodes : \A i \in node[n].pending : Asked(n, i)

SameWork(n, m) == Total(shares, node[n].tip) = Total(shares, node[m].tip)

(***************************************************************************)
(* Nodes that are connected before the first share settle on chains of the *)
(* same work once mining stops: the pool is one.                           *)
(***************************************************************************)
PeeringMerges == dialed = Links => <>[](\A n, m \in Nodes : SameWork(n, m))

(* A node without miners ends up on a chain as heavy as any: it has synced. *)
NewNodesSync ==
    <>[](\A n \in Nodes \ mining, m \in Nodes :
             Total(shares, node[n].tip) >= Total(shares, node[m].tip))

(***************************************************************************)
(* A share whose answer was lost with a connection is not lost for good,   *)
(* although every later announcement of it looks known: a neighbour that   *)
(* announces a share on top of it, and stays on that chain, brings it in   *)
(* by the window sync that the orphan starts.                              *)
(***************************************************************************)
ChildAnnounced(n, m, i) ==
    \E k \in DOMAIN chan[<<m, n>>] :
        LET msg == chan[<<m, n>>][k]
        IN  msg.type = "share" /\ shares[msg.id].prev = i /\ msg.id \in Chain(node[m].tip)

LostAnswerHeals ==
    \A n \in Nodes : \A m \in Nodes \ {n}, i \in 1..(MaxShares - 1) :
        (i \in node[n].pending /\ ~Asked(n, i) /\ ChildAnnounced(n, m, i))
        ~> (i \in node[n].store \/ m \notin peers[n] \/ i \notin Chain(node[m].tip))

(***************************************************************************)
(* Every node sees every block, although a connection may break while the  *)
(* block is on its way, as long as the other connections join all nodes.   *)
(***************************************************************************)
BlocksReachEveryone ==
    \A b \in 1..MaxBlocks :
        (b =< blocks) ~> (\A n \in Nodes : b \in Range(node[n].blocksSeen))

(* No block circulates for ever: each node passes it on once. *)
RelayDiesOut ==
    <>[](\A p \in Pairs : \A k \in DOMAIN chan[p] : chan[p][k].type # "block")
=============================================================================
