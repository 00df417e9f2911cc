# A formal model of P2Pearl

P2Pearl is a mining pool without an operator: every operator runs a node, the
nodes keep one *sharechain* between them, and a block found by any node pays
everyone whose shares lie in the last window of that chain. This directory
holds TLA+ modules that model the node, TLC configurations that check them on
small instances, and TLAPS proofs of every invariant and action property that
the passing runs check, for every value of their constants (two of the theorems under
a hypothesis that section 4 names). Paths below are relative to the repository.

- Parse: `tlasany M.tla`. Check: `tlc -config X.cfg M` (the table of runs names
  module and configuration). Prove: `tlapm MProofs.tla`, for each of the eight
  modules whose name ends in `Proofs`; `GossipProofs` and `ArithmeticProofs`
  take a few minutes.
- `PROJECT.json` lists the runs, which lines each definition models (`map`), the
  mutants that show each property can fail, the hazards, the findings and the
  theorems.

## 1. Inventory of the system

| Part | State it keeps | Operations | What makes it correct |
|---|---|---|---|
| `consensus/sharechain.py` | entries (share, cumulative difficulty, proof), best tip | `add_share`, `_validate`, `_prune`, `expected_target`, `pplns_weights` | the tip has most work; pruning is never visible in verdicts or payouts; no work counted twice |
| `consensus/difficulty.py` | none | `retarget_target`, `target_to_bits` | integer retarget agrees on all nodes; the compact target is never easier |
| `consensus/pplns.py` | none | `compute_pplns_payouts`, `uncle_weight` | pays exactly the reward, in proportion, to as many as clear the minimum |
| `consensus/share.py`, `subsidy.py` | none | serialization, identifiers, subsidy table | agreement byte for byte |
| `p2p/node.py` | peers, `_pending`, `_proofs`, `_blocks_seen`, known addresses, rate buckets | handlers for hello, peers, share, getproof, proof, getshares, shares, block; `broadcast_share`, `connect` | all nodes converge on one chain; what is announced can be proved; nothing is fetched twice |
| `daemon.py`, submission | `_pending_shares`, `_template`, `_assembled_parents`, `_assemble_lock` | `handle_submit`, `_run_submit_validation`, `_run_submit_followup`, `_assemble_and_submit`, `try_collaborative_submit`, `set_template` | a found block is proved and submitted, once, and the load it pauses is resumed |
| `daemon.py`, jobs | `_template`, the sharechain's tip | `build_job_for`, `verify_incoming`, the poll of the template | the answer to a job is accepted by its own node and by every peer, which works out limit, payouts and certificate version for itself |
| `daemon.py`, refresh | `_refresh_task`, `_refresh_again`, `_last_job_refresh_at`, vardiff per worker | `_request_stratum_refresh`, `_run_stratum_refresh`, `run`, `_record_vardiff_share` | every miner works on the current tip, at a difficulty that suits it |
| `stratum/server.py` | connections, job registry | handshake, `push_job`, `_broadcast`, `refresh`, `mint`, submit lookup | a miner's current job can be answered; jobs arrive in order |
| `pow/verify.py` | none | `verify_share`, `verify_block_solution` | grading agrees with the job's target |
| `gui.py` | child process, managed pearld, ready and pending flags, watcher, event queue | start, stop, demo, close, probe, watcher, `poll` | the window never gets stuck and leaves no process behind |
| `chain/*`, `stratum/protocol.py`, `cli.py`, `demo.py`, `config.py`, tools | none that changes | encoding, parsing, RPC calls, constants | not modelled |

How they interact. A miner's submission reaches `PoolNode.handle_submit`
through the stratum server; the validation that follows it in the background
stores the share in the sharechain, asks for a job refresh, hands the share to
the gossip layer and enters the block race if it is a block. The gossip layer
stores peers' shares in the same sharechain and calls
`try_collaborative_submit`, so own and peers' shares meet at one lock. A poll
loop changes the parent tip. Everything runs on one event loop: two tasks
interleave at their awaits only, proofs and RPC calls run in threads. The
control panel is a separate process with a window thread, helper threads and a
queue. Nothing is persisted: a node that restarts is empty.

What is hard to test here: interleavings at awaits (the lock line of the block
race, the refresh flag, window syncs streamed while the chain moves on),
ordering between announcements, proofs and syncs, loss of everything in a
crash, and boundaries that four constants share (window, uncle depth, retarget
window, retention). `PROJECT.json` lists each hazard at its line.

## 2. The modules

| Module | Models | State and actions |
|---|---|---|
| `ShareRules` | the rules of `_validate`, `expected_target`, `retarget_target`, `pplns_weights` | pure operators over a history `S` and the set of shares that are stored, so that one definition serves a node that prunes and one that does not |
| `Sharechain` | one node's store | `shares` (every share ever accepted, share *i* has identifier *i*), `cumulative` (its domain is `_entries`), `bestTip`; one operation, `AddShare`, offered new shares (wrong heights, limits, stamps, targets, parent heights, uncles or contents among them, on parents stored or pruned), known ones and pruned ones |
| `ShareLedger` | what a sharechain promises | a history and the earliest of its heaviest shares; no store, no pruning, no incremental sums |
| `MCSharechain` | instance for TLC | `Ledger` maps `tip` to `bestTip` |
| `Gossip`, `MCGossip` | several nodes, their connections and handlers | per node the store, tip, proofs, pending shares, own shares to announce and blocks seen; FIFO channels; window syncs streamed in batches by the connection's reader, which takes nothing else meanwhile; blocks flooded over the same channels; connections that end with what is under way on them, and restarts |
| `RateGate` | the limits on what one connection may ask | fixed windows and strikes per kind, the cap on messages, and a log of what was served |
| `PoolNode` | submission and block race of one node | tasks at named places between two awaits; `line` is the lock with those who wait for it |
| `Mining`, `MCMining` | from a template to a share that all nodes accept | per node a clock, a template, a sharechain and a job; `BuildJob` and `VerifyIncoming` work out the same commitments at different places and times, from `ShareRules` |
| `Vardiff` | one worker's difficulty | pace of the worker, moving average, factor, and the factors of the jobs it may still answer, in the order they were minted in; each job counts for one share at most |
| `Stratum` | refreshes, registry, connections | `work` is a version of (tip, template); jobs name the version they were built on. A miner subscribes and authorizes as often as it likes, with an address or without, and each of these ends with a push |
| `Pplns` | `compute_pplns_payouts` | one step per address dropped, one that pays |
| `ShareGrade` | `target_to_bits` and the grading | real byte and mantissa sizes, targets of up to `MaxBytes` bytes |
| `MCArithmetic` | instance for TLC | one of `Pplns`, `ShareGrade`, `Vardiff` and `RateGate` runs, the others rest |
| `ControlPanel` | `gui.py` | one action per click, per helper thread step and per event `poll` handles; `polling` tells whether `poll` runs, is scheduled, or has been ended by an exception |
| `ShareRulesProofs` | | lemmas about the rules: what walks, limits and payouts depend on |
| `SharechainProofs`, `PoolNodeProofs`, `GossipProofs`, `MiningProofs`, `StratumProofs`, `ArithmeticProofs`, `ControlPanelProofs` | | the theorems about the module or instance each is named after; `SharechainProofs` also shows that the ledger is implemented |

`Sharechain` takes the rules from `ShareRules`; `Gossip` does not repeat them:
all its nodes are honest, and `VerdictCorrect` shows that honest nodes judge a
recent share alike, so a share is acceptable where its parent is stored (what
differs between nodes besides the history, clocks, templates and tips, is the
subject of `Mining`). The difficulty of a share there is a small number, and the
tip rule is the one of `Sharechain`. `PoolNode` and `Stratum` abstract the chain to the parent tip of a
share and the version of the work.

Abstractions worth knowing:

- Identifiers are numbers in order of acceptance or mining. Hashes never
  collide and never refer forward, so a chain is always acyclic.
- A window sync that is under way is the set of shares still to be sent. Both
  the code's list, from the earliest share on, and the numbers follow the chain,
  so the set leaves nothing open.
- Targets, times and windows are small; every division and clamp of the code
  is kept. `BitsToTarget` and the proof system are external. TLC's integers
  end at 2^31, so its targets in `ShareGrade` have one to four bytes; the proofs
  are for any `MaxBytes`, of which the code's is 32.
- A proof is good or bad; a quality (share or block) stands for its hash. A
  good share may still be refused by the sharechain.
- Seconds are whole units in `Vardiff` and `RateGate`, floating point in the
  code. `Mining` takes different PPLNS weights for different payouts; chains in
  it are shorter than the horizon, as `Sharechain` covers pruning.
- A connection that ends does so for both sides in one step; what was under way
  is lost in both directions.
- Bounds are CONSTANTS commented `bound:`. Variables commented `history` are
  read by no guard but those of the bounds; `peak` in `Sharechain` keeps the
  offered shares within `MaxReorg` of the highest tip.
- `UncleWork` in `ShareRules` gathers what uncles add to a share's work, and
  `Doubled` in `Vardiff` is a recursive function for powers of two, in the form
  the provers reason about.

## 3. The runs

Passing runs:

| Run | Question | Bounds, and why they are enough |
|---|---|---|
| `sharechain_forks` | Are store and tip consistent under forks of any depth, duplicates and re-offers of pruned shares, and is work credited once? | window 1, uncle depth 2, two uncles each, two difficulties: retention is 4, and six shares build chains that prune, two genesis shares, reorganisations to shorter, heavier branches, uncles at both depths and two nephews that want the same one |
| `sharechain_reorg` | Is pruning invisible to payouts and verdicts, and is the ledger implemented, while the target limit moves? | parents at most a window late, as the code's comment on `_retention` supposes; retarget window 3 over two clock readings; shares with wrong limits and stamps are offered and refused |
| `gossip_live` | Do two nodes that were connected before the first share stay one pool, and does a newcomer that connects at any time, restarts and dials again, sync? | both mine, answer old jobs, on two difficulties: forks, ties, orphans, crossing announcements; four shares in batches of one, so that a sync interleaves with announcements |
| `gossip_lossy` | What survives a connection that ends: does the next share bring in the one whose answer was lost, does a block reach everyone, and does its relay end? | a triangle of nodes, so that one loss leaves all joined; one miner, two shares (one to lose, one on top of it), one block and one loss at any point |
| `pool_race` | Do the lock, the hooks and the pending set survive any mixture of own and peers' shares, refusals, failures, a moving tip and a crash, and does every found block's race end? | three submissions or peers' shares for two candidate shares over two parent tips: one proves, one waits behind it, one arrives late, or for the other tip, or again for the same job |
| `stratum_jobs` | Is no refresh lost, is a miner's last job found while the registry has room, and is every outdated job replaced, in order? | two miners that come and go and repeat their handshakes; one change of the work, told or not, during any step of a refresh; registry places for a round and one handshake, where two handshakes may overlap and evict; job numbers that wrap |
| `mining` | Is the answer to a job accepted by its own node whatever has been stored since, and by every node that has its parent? | two nodes, one with a clock ahead by all the drift that is allowed; a limit that follows the pace over a retarget window of two; three shares, so that the third is retargeted and may fork; a parent chain that activates a certificate version |
| `arithmetic` | Is every split exact, fair and maximal; is grading right at the edges; does a worker's factor settle; are requests within the limits answered? | rewards, weights and minimums chosen so that none to all four addresses are dropped, with remainders; every byte length, mantissas around the sign bit, hashes around the target; paces from far too fast to too slow for any factor, with two jobs that may be answered and two shares that come at an unusual time; two windows of requests of two kinds |
| `panel_start` | While `poll` runs, can any order of clicks, demos, probes, watchers and exits leave Start stuck, or leave the panel waiting for its own pearld for ever? | three clicks: two starts overlap and a third meets what they left |

What they show: no violation of the properties named in `PROJECT.json`, each of
which a plausible bug (its mutant) violates under the same bounds.

Runs that find a disagreement between the code and what a comment, docstring
or the README says (details with quotations under `findings`):

| Run | Property | What happens |
|---|---|---|
| `gossip_pruned` | `NewNodesSync` | a newcomer cannot join a pool that has pruned its first share |
| `pool_duplicate` | `DuplicatesAreHarmless` | a proof that makes a block is dropped as a duplicate of one that does not |
| `stratum_crowd` | `AbsentIsStale` | every handshake, repeated or not, and every refresh, once for each connection, mints into one registry (of 16 places by default) and may evict the present job of another miner, whose answer is then called stale; the trace has three handshakes and no refresh |

`NewNodesSync` appears in a passing run too: it holds while nothing has been
pruned. What does hold of the registry is `KnownWhileThereIsRoom`: a miner's last
job is found as long as one job for every connection and those that handshakes
have asked for since the round began fit in. The code keeps neither number below
the registry's size, and the violation runs show that the conditions are needed.

Limits of the code that the models show and no run asks for, because the
passing properties are stated so as not to promise more than the code does:

- Two pools that each mined a first share before they met do not merge:
  `gossip_live` starts with the connection up. A hello compares heights only,
  an orphan asks from its parent's height only, and a share synced without its
  parent is skipped (`p2p/node.py` lines 259, 277, 345).
- A share announced before its parent's proof has arrived starts a window sync
  that sends that proof a second time (line 277).
- `set_template` empties the set of finished tips: a share for the former tip
  that still waits is proved and submitted again, and a peer's share is proved
  although its tip passed while it waited (`daemon.py` lines 407, 618).
  `SubmittedOnce` therefore speaks of the tip the node works on.
- A share that a sync skips for want of its parent stays missing, whatever the
  comment says ("gap; the live path will fill it", `p2p/node.py` line 345): the
  next announcement asks from its parent's height only. `LostAnswerHeals` claims
  no more than a gap of one. A node relays what it was announced, not what it
  synced, so a gap spreads to the nodes behind it.
- `_pending` has no bound of its own, where `SECURITY.md` line 20 says that it
  is size-capped; an entry whose answer was lost stays until the share's proof
  arrives or the node restarts.
- Blocks are remembered in a set of bounded size (`p2p/node.py` line 378): with
  more blocks under way than it has room for, a block may circulate for ever.
  `gossip_lossy` has one block and one place.
- A block that the parent node rejects by value, without an error, marks its tip
  as done, against the comment "mark done only on success" (`daemon.py` line
  601). A share that the sharechain refuses is not followed up, so a block it
  makes is lost (line 376). The found block is sent to the peers while the lock
  is held (line 603).
- Around the activation of a certificate version a share is judged by the
  judge's current template (`daemon.py` line 971): one that was mined before is
  refused by nodes past the activation, and by every later sync. `PeersAgree`
  names this exception; without it, `mining` fails.
- A node whose parent chain lags behind the finder of its tip hands out jobs
  whose answers its own sharechain refuses (`consensus/sharechain.py` line 263),
  as it does while stamps run ahead of its clock (`daemon.py` line 492).
  `JobsStayValid` names both exceptions.
- A job minted before a change of the factor may be counted after it, once: the
  average starts anew with the change, so a single share that was made at the
  former factor may change it again. Without luck each job that may be minted
  before an earlier one is counted doubles a worker's wait beyond the aim once,
  and nothing else does (`OvershootIsBounded`). The factor settles where two jobs
  may be answered at a time (`MaxAhead = 2`); with three it does not:
  the fastest worker's factor may then go from 16 to 128 and back for ever. A worker is
  eased only when it delivers a share, so one that never does keeps its factor
  (`daemon.py` line 448).
- Rate windows adjoin, so nearly twice the limit may be served within the length
  of one. Strikes are reset by any request that is served and counted over all
  kinds (`p2p/node.py` line 88), where line 73 says "on one kind".
- Run demo stays enabled while a start is pending, and its end enables Start
  again: a second start before the first probe has answered starts a second
  pearld, and closing the window stops the last one only (`gui.py` line 578).
- A watcher that posts its answer after the panel has cleaned up makes it take
  a dead pearld for ready (`gui.py` line 281).
- `start_pearld` may raise: copying pearld's files (lines 230-233), the data
  directory and the log (lines 566-567) lie outside its `try`. `poll` catches an empty
  queue only (line 741), so it ends there, is not scheduled again (line 759), and
  a start that waits leaves Start disabled until the window is closed. In the
  model this is `polling = "ended"`, and the two properties of `panel_start` are claimed for
  the time before it.
- A start that has adopted a pearld which then goes waits for a watcher that
  nobody will ever answer, with Start disabled: the panel looks at its own
  process only (lines 744-745). `StartIsNeverStuck` names it (`AdoptedIsGone`).

Deadlock is checked in the sharechain runs, where something can always be
offered. The other systems stop once their bounds are used up or the window is
closed, and their configurations say `CHECK_DEADLOCK FALSE`.

Fairness:

- `Gossip`: weak fairness of each connection's reader and of each node's own
  broadcasts. An event loop runs every task that is ready, and TCP delivers
  while a connection lasts. A connection's dial and its acceptance are part of
  its service; mining, finding a block, losing a connection and restarting are
  not, so nothing is assumed of them. Channels are unbounded, so back-pressure
  is left out.
- `Vardiff`: weak fairness of minting, which the poll loop asks for again and
  again, and of the worker's deliveries, which is an assumption on the worker that
  the properties are about.
- `PoolNode`: weak fairness of each task's next step, which includes the lock
  (asyncio's lock is granted in order), hooks (they have a time limit), the
  prover's thread and the RPC call. Each of them may fail or have no effect;
  what fairness says is that it ends. A restart after a crash is not forced.
- `Stratum`: weak fairness of the poll loop, the refresh task, and sends, which
  a time limit ends.
- `ControlPanel`: weak fairness of the window's poll, which is enabled until an
  exception ends it, of threads, and of a pearld's sync: one that does not die has
  synced some day. Clicks, exits and deaths are never forced.

`Mining` and `RateGate` have safety properties only and assume no fairness.

## 4. What is proved

Every theorem holds for all values of the constants that the named ASSUMEs of
its module admit; these say that sizes and times are numbers in the ranges the
code uses, and TLC evaluates them on every run. Hypotheses beyond these are
named with the theorem. Each section says which inductive invariant is behind
the theorems, because none of the properties is inductive by itself.

### The sharechain (`ShareRulesProofs`, `SharechainProofs`)

For every window, uncle depth, penalty, retarget setting and every set of
offered shares:

| Theorem | States |
|---|---|
| `TypeCorrect` | `Spec => []TypeOK` |
| `TipCorrect` | the best tip is stored and heaviest |
| `HorizonCorrect` | nothing at or above the horizon of the highest tip is pruned |
| `WindowCorrect` | payout weights after a reorganisation of up to a window are those of a node that prunes nothing |
| `VerdictCorrect` | so are verdicts on shares at most a window late |
| `CreditCorrect` | no chain credits a share twice, as two uncles or as an uncle and a share |
| `LedgerImplemented` | `ASSUME MaxReorg =< Window`: the pruning store with its incremental sums implements `ShareLedger` |

The argument. `SharechainInv` is the inductive invariant: `TypeOK`,
`HistoryLinked` (each share's parent and uncles are earlier, heights grow by one
and uncles are within reach), `TipStored`, `BestTipIsHeaviest` and
`HorizonKept`. `BestTipIsHeaviest` alone is not inductive: a new tip prunes, and
`TipStored` is what says that the tip survives and that heights do not exceed
the peak. `HorizonKept` needs the peak because a reorganisation can lower the
tip. A step only ever inserts one share (`StepInserts`), so each conjunct is
shown once for an insertion (`InsertType`, `InsertHistory`, `InsertTip`,
`InsertHorizon`). For `WindowCorrect` and `VerdictCorrect` the question is what a
walk back along parents sees: `HistoryWalk` shows that each of the `n` shares it
visits is at most `n` heights down and so above the horizon, and
`ShareRulesProofs.WalksAgree` that two walks agree as long as the stores agree
on what they visit. The walk is a recursive function; the library's induction
theorems take an operator argument, so its facts are shown by the smallest
counterexample (`LeastNat`).

`CreditCorrect` needs `UnclesSeen`, because the rules look at a few stored shares
only, and at the time the nephew is offered. What they found is kept as a fact of
the history, which later pruning cannot undo: beside each uncle lies a stretch of
the nephew's chain that reaches the uncle's parent and holds neither the uncle
nor a share that names it. Every share that could credit the same work again
lies on that stretch (`LookedAt`), so pruning and depth play no part in it.

`LedgerImplemented` maps the ledger's `tip` to `bestTip`. `LedgerInv` adds to the
above that each stored incremental sum is the total of the whole chain
(`SumsTracked`) and that the best tip is ahead of every share ever accepted,
pruned ones included (`TipIsFirst`): a pruned share that is offered again, and
stored again, never overtakes. That an accepted share is valid in the whole
history is `VerdictCorrect`'s argument, so shares must be at most a window late:
this is the hypothesis, the configuration of `sharechain_reorg` meets it, and the
code's comment on `_retention` supposes it. The ledger's sums are defined by
recursion over the history; `TotalExists`, `TotalType` and `TotalStays` unfold
them by smallest counterexamples.

### The block race (`PoolNodeProofs`)

`PoolNodeProofs` proves, for any number of parent tips, shares, submissions and
crashes (`PoolAssumption` says that these bounds are numbers and that there is a
parent tip to start with):

| Theorem | States |
|---|---|
| `RaceTypeCorrect` | `Spec => []TypeOK`, in particular that the line of the lock is exactly the tasks inside `_assemble_and_submit`, each once |
| `PendingCorrect` | a share is pending exactly while one task validates it |
| `PauseCorrect` | the co-located load is paused only for the prover that holds the lock, or because a resume command had no effect |
| `SubmissionCorrect` | the block of the tip the node works on is submitted at most once |

The argument. `SubmittedOnce` alone is not inductive: a state with one
submission and a second task about to submit satisfies it. `RaceInv` adds what
the lock is for: `InOrder`, only the first in line is past the lock, so two
tasks past it are the same task (`PastTheLock`); and `SubmittedAtMostOnce`,
once a submission for the current tip has returned it is marked, or the task
that will mark it still stands at the mark, and nobody on the way to a
submission for that tip is past the lock. `Acquire` reads the mark under the
lock, which is where the two meet. No share is for a tip later than the current
one, so a new tip starts with no submission. `PausedOnlyToProve` speaks of the
head of the line; its inductive form `PausedByAProver` speaks of any task, and
`InOrder` makes that the head. Each task's step changes its place in the line
in one of four ways (`StaysOutside`, `JoinsLine`, `MovesOn`, `LeavesLine`),
which are shown once and cited by each action.

### Gossip (`GossipProofs`)

For any nodes, links, difficulties, batch sizes and bounds, whatever is mined,
sent, cut off and restarted:

| Theorem | States |
|---|---|
| `GossipTypeCorrect` | `Spec => []TypeOK` |
| `AnnouncedCorrect` | a node has the proof of what it has announced on a connection that lasts |
| `UnprovenCorrect` | a share stored without a proof is one the node has still to announce |
| `PendingAskedCorrect` | until a connection is lost or a node restarts, a pending share has its request or answer under way |

The argument. Messages are promises, so the invariant is about the channels:
`ChanFits` says of each message that the end that must honour it can (who
announced or answers a share has its proof, a request goes to one that has it, a
block on its way was found), `NodesFit` that a node's tip is stored and that what
it stores without a proof is in its list of shares to announce. Handlers send on
many connections at once; `More` states what a handler adds to the channels as a
set of pairs of connection and message, so that each handler is shown to add
only messages that fit (`ChanKept`). `PendingIsAsked` is the other direction:
nothing is taken from a channel that answers a pending share without its being
settled. It is proved, as it is stated, for lives without losses: a request that
is cut off with its connection leaves the share pending until someone announces
or sends it again, and `_pending` is not emptied by a lost connection. A window
sync folds over a set, so what it does to a node is shown by the smallest set
that it would fail for (`SyncStep`).

### From template to share (`MiningProofs`)

For any nodes, clocks, parent chains, templates and number of shares:

| Theorem | States |
|---|---|
| `JobsCorrect` | a node accepts the answer to every job it has handed out, save for the two exceptions `JobsStayValid` names |
| `PeersCorrect` | a share its finder accepts is accepted by every node that has its parent, save for clocks and certificate versions |

The argument. Neither property says what other shares the judging node has, so
the invariant must say that they do not matter. `MiningInv`: every job and every
accepted share is `Sane`, its limit and payouts being those that *the whole
history* gives the chain below it; and every node has whole chains. A walk along
parents never leaves a whole chain, so two stores that both have the parent walk
alike (`ShareRulesProofs.TargetsAgree`, `PayoutsAgree`), and what a node works out
is what the history gives (`OwnView`). New shares do not change that, for a chain
never refers forward.

### Jobs (`StratumProofs`)

For any number of miners, changes of the work, handshakes and connections that end:

| Theorem | States |
|---|---|
| `RefreshCorrect` | no request for a refresh is lost: while the task is idle every served miner has a job on the present work |
| `OrderCorrect` | no miner gets a job on older work than the one it has |
| `RegistryCorrect` | `ASSUME Wide`: while one job for every connection and those asked for by handshakes since the round began fit in, the registry has the last job of every miner that the round has served |

The argument. `NobodyForgotten` says in every state what `NoRefreshLost` says of
an idle task: a served miner has a job on the present work, or a push in this
round, the flag for another one, the next task or the next poll is due to bring
it. `JobsOrdered` puts the job a miner has before those waiting on its connection,
and those in the order of their work, whichever of the reader and the refresh
task sent them. For the registry, `InSequence` says that it holds the jobs of
its last consecutive numbers, so that a job is evicted only by as many later
ones; `Since` counts how many there may be after a miner's newest job before
the next round gives it another: one for each other miner this round has passed,
and one for each push that a handshake has asked for since the round began, of
any connection, the miner's own, and those that end before they get it. `Found`
says that no more than those lie behind the newest job. A push of a round passes
one more miner, a push of a handshake adds to `asked`, and the next round sets
both back before anything is minted. `Wide` is the theorem's only hypothesis:
finitely many connections, and fewer places than job numbers (16 and 65536 in the
code).

### Arithmetic (`ArithmeticProofs`)

For every reward, weight, minimum, target of any number of bytes, pace and limit:

| Theorem | States |
|---|---|
| `SplitPaysExactly` | payouts add up to the reward |
| `SplitDropsNobodyInVain` | the loop ends with the largest set of the heaviest in which all clear the minimum |
| `SplitIsProportional` | whoever is paid gets no less than its part of the whole window |
| `GradeIsEarned` | no share above the job's target is credited |
| `GradeIsMarginal` | what is refused below the target lies in its last 2^15th part |
| `TuningOvershoot` | without luck, a worker's interval is bounded by its first one and by the aim doubled once for each further job that may be minted ahead |
| `GateIgnoresOnlyOverLimit` | a request is ignored only where the limit was served in its window |
| `GateServesLessThanTwice` | less than twice the limit is served in any stretch as long as a window |

The argument. `ArithmeticInv` has a part for each component. `SplitInv`: the
survivors are always the heaviest (`TopSurvives`), and no larger set of the
heaviest clears the minimum (`NoLargerClears`), because the one who is dropped is
the lightest and could not be paid; that shares rounded down plus the remainder
add up to the reward needs sums over sets to exist, to be independent of the
order and to be additive, which the first part of the module shows by smallest
counterexamples. `GradeInv` rests on `CompactIsClose`: cutting a target to its
mantissa loses less than a 2^15th of it and never adds, whatever its length,
because a byte's place (`Place`, a recursive function) is the same on the way into
the compact form and out of it. `TuneInv`: `FactorFollows`, the factor is ahead of
that of a job by one doubling at most for each place the job has moved up among
those that may be answered, and `AverageTells`, the moving average is short of
what the factor stands for by those doublings only. `GateInv`: a window's count is the number served
since its start, and `CarryBounded`, in less than a window before the start of
the present window fewer than the limit were served: a request at an exact window
boundary starts a new window and is itself served, and so the limit cannot be
reached twice in one length.

### The control panel (`ControlPanelProofs`)

`StartCorrect`: until an exception ends `poll`, Start is disabled only while the
pending start has an answer, or the child an exit, on its way, or waits for an
adopted pearld that has gone. `StartIsNeverStuck` states the cause, and not just
that something is in the queue. `PanelInv` needs three parts of the same shape:
the child runs or its exit is queued, a pending start has an answer due or a
watcher, and a tracked pearld that is not ready has a watcher that is the newest
one (an older one is retired before) or its answer in the queue. The last is what
answers a start that finds a pearld of the panel's own and does not probe, and
`WatchedMayServe` turns a watcher into an answer that may come: the tracked pearld
is not dead, or `poll` will see that it is. Once `poll` has ended nothing is on its
way, and nothing is claimed.

### Only model-checked

- Liveness: `FactorSettles`, `OwnPearldDoesNotStrand`, `BlocksReachEveryone`,
  `LostAnswerHeals`, `NewNodesSync`, `PeeringMerges`, `RelayDiesOut`,
  `FoundBlockIsSubmitted`, `StaleJobIsReplaced`. TLAPS does not prove leads-to
  properties from fairness over these specifications (ENABLED is out of its reach).
- That the parts work together: each module is proved by itself, and no theorem
  composes `Gossip` with `Sharechain` or `PoolNode`.

Recursive definitions are folds or recursive functions throughout. Induction
theorems of the library take an operator as an argument, which the installed
provers cannot instantiate; the proofs by smallest counterexample (`LeastNat`)
take their place.

## 5. Not modelled

Serialization, hashing, address, header and coinbase encoding, HTTP, the proof
system, parsing of stratum dialects, layout and wording. Of the parts with
state: payout statistics, the exchange of peer addresses (known addresses are
kept and never dialled), the bound on cached proofs, uncles in `Gossip`, and
socket buffers that fill up. The last means that nothing here shows whether two
nodes that stream large windows to each other can wait on each other for ever
(`p2p/node.py` line 95), or how long a peer that does not read holds the
assemble lock.

## 6. Plan

In order of what matters most:

1. Bounded socket buffers in `Gossip`: handlers that await their sends. Which
   buffer sizes keep two nodes that sync from each other from blocking?
2. Uncles in `Gossip`: window sync sends the best chain only, so a share that
   names an uncle the requester lacks is refused there.
3. `Gossip`'s stores as instances of `ShareLedger`, with a proof: what a node
   stores by handlers and syncs is a history in some order, and its tip the first
   of the heaviest.
4. `PendingIsAsked` with losses: what must be true of a share that stays pending
   for it to be asked for again.
