# A TLA+ model of the Absolute Blockchain node

This directory holds a verification project for the node in this repository:
TLA+ modules translated from its Python source, TLC configurations that check
them on small instances, and TLAPS proofs of the properties that matter most.
`PROJECT.json` lists the components, the runs, the lines that each definition
models, the hazards, the findings and the theorems.

Paths below are relative to the repository's root.

## 1. The system

A node is one Python process. `core/blockchain.py` owns the chain; a worker
thread (`core/chain_apply_queue.py`) makes every change of it, on behalf of the
P2P import path, the mining loop of `main.py`, catch-up and fork reconcile.
Consensus, tip safety and synchronisation are packages of their own with ports
and adapters (`docs/adr/`), and `kernel/event_bus.py` tells the consensus
adapter of every new block.

```
 peers ──> P2PNode ──> tip-safety gate ──┐                     ┌─> SlashingEngine
             │                           v                     │   (during the batch)
             ├─> catch-up, fork ──> ChainApplyQueue ──> Blockchain ──> Rocks batch
 mining loop ┴───────────────────────────^  one worker         │
                                                               └─> block.new ──>
 votes ──> ConsensusAdapter.attest ──> RoundStateMachine            FinalityEngine,
                                       (slashes, locks down)        checkpoint table
```

### Inventory

| component | state | operations | what is hard | what makes it correct |
|---|---|---|---|---|
| BFT round machine (`consensus/bft`) | round, phase, votes, certificates, `_seen`, attempts, finalized height and hashes | `open_round`, `add_block`, `submit_proposal`, `submit_vote` | votes in any order, a slash while a round runs, rounds left and reopened, stake met exactly | two final blocks of one round need equivocators; one quorum per sitting; no vote of a convicted validator counts; finality never shrinks |
| Tip safety (`consensus/tip_safety`) | head, finalized checkpoint, bounded LRU window of known blocks | `evaluate_candidate`, `apply_candidate`, `choose_and_apply`, `advance_finalized` | eviction decides what a rollback finds; the policy and the state judge separately | the head never leaves the finalized chain; what the policy accepts the state takes |
| Gate on the import path (`tip_safety/shadow.py`, `network/p2p_node.py`) | a copy of the chain's tip | `observe_before_import`, `note_import_result`, `sync_from_chain` | concurrent imports; writers that do not pass the gate | the copy follows the tip while its syncs succeed; then a follower is never locked out |
| Apply queue (`core/chain_apply_queue.py`) | priority queue, futures, deadlines, counters, running flag | `submit_*`, `stop`, the worker loop | timeouts against a late worker, a full queue, stop with jobs queued, adapters with shorter waits | answers agree with what happened to the chain; lanes; every call returns; the worker ends |
| Block commit (`core/blockchain.py`, `consensus/slashing.py`, `finality_engine.py`) | stored tip, accounts, validator and checkpoint rows; in memory: proposal record, slashed set, registry, FinalityEngine | `add_block`, `reorg_to_ancestor`, `record_proposal`, `record_vote`, `add_validator`, `process_block`, start | a batch that fails after everything was executed; a crash between two of the stores; rollbacks under a memory that is not rolled back | accounts are those of the chain; no equivocation of a recorded name is committed; finalized blocks stay |
| Consensus adapter (`consensus/adapter.py`) | the engines above, slot clock | `attest`, `_on_new_block`, `on_slot` | slot used as round height, errors swallowed | one vote per slot reaches the round machine |
| Solicitation hub (`sync/solicit.py`) | one waiter per peer, a lock per peer | `arm`, `clear`, `fulfill_or_reject`, `timeout` | late answers meet the next request; a task that must read an answer waits for it | the reading loop comes back; an answer reaches the request it answers |
| Consistency machine (`sync/consistency`, `sync/sync_engine.py`) | state, verdict, the flag that permits mining | probe, evaluate, lockdown | three tasks probe at once while the chain moves; the flag stays up during a probe | the flag is earned by a root the peer had |
| Catch-up, fork reconcile (`sync/catchup`, `sync/fork`) | cursor, batch, peer views | `run_ahead`, `run_same_height` | the chain moves between lookup and reorg | a node behind gets the peer's head |
| Transactions (`blockchain/mempool.py`, `core/components`, `execution/*`, native `amount.rs`) | pool, account rows in satoshi | add, clean up, `create_block`, execution, reward, replay | a check against accounts that change before the pool is entered; a block built without the balances its own transactions leave; rewards at the maximum supply | each transaction is executed once, supply is conserved, replay gives the same accounts |
| Bridge (`bridge/*`) | lock and credit rows, the queue file, the relayer | lock, confirm, refund, claim, relay | a verifier call of seconds between look and write; a file written by two processes; balances that change outside blocks | a refund was paid for, a replay key is paid once and only for a confirmed transaction, a lock that can be settled is |
| Peer manager and mesh (`network/peer_manager.py`, `network/p2p_node.py`, native governor) | table of sessions, slots, bans, bootstrap ids | dial, accept, register, unregister, prune, ban | both ends dial at once, half-open sessions, a reading loop that stands in a handler, restarts | the duplicate policy never closes both sessions; nodes find each other again |
| Storage (`storage/*`) | Rocks column families, SQLite side tables | `atomic`, `begin_block_commit`, truncate | two engines with different transaction rules | all or nothing |
| P2P node (`network/*`) | peers, rate limits, tasks | handshake, gossip, dispatch | tasks of one event loop and threads | guarded calls into the parts above |
| Features, EVM/WASM, API, native library, light client, chaos | various | | | not modelled, see section 8 |

## 2. Modules

| module | models | extends |
|---|---|---|
| `RoundStateMachine` | `consensus/bft/service.py` with `quorum.py`, `evidence.py`, `registry_adapter.py` | |
| `RoundStateMachineProofs` | theorems | `RoundStateMachine` |
| `BlockTree` | the blocks a node may meet, with parent, height and ancestors | |
| `TipPolicy` | `ancestry_window.py`, `tip_state.py`, `reorg_policy.py`, `fork_choice.py` as operators | `BlockTree` |
| `TipSafety` | `TipSafetyService`: the state and calls around `TipPolicy` | `TipPolicy` |
| `TipGate` | the gate composed with the chain and all its writers | `TipPolicy` |
| `TipProofs` | theorems | `TipSafety`, `TipGate` |
| `ApplyQueue` | the queue, its worker and its clients | |
| `ApplyQueueProofs` | theorems | `ApplyQueue` |
| `Ledger` | the promise of the block store, abstract | `BlockTree` |
| `ChainCommit` | `Blockchain` composed with the Rocks batch, `SlashingEngine`, registry, `FinalityEngine`, checkpoint table and start | `BlockTree`, instance of `Ledger` |
| `ChainCommitProofs` | theorems | `ChainCommit` |
| `TxPool` | gossip and HTTP intake, mempool, forge loop, `create_block`, native execution, rollback and replay | |
| `TxPoolProofs` | theorems | `TxPool` |
| `Bridge` | the bridge's handlers, its rows, the queue file and the relayer process | |
| `MCBridge` | the transaction of each replay key and the order of the rows, for TLC | `Bridge` |
| `BridgeProofs` | theorems | `Bridge` |
| `SolicitHub` | requests to a peer and their answers, the locks of a peer | `BlockTree` |
| `Consistency` | the consistency machine and `sync_state` | `SolicitHub` |
| `ForkReconcile` | fork reconcile at one height | `Consistency` |
| `CatchUp` | the sync task of a peer | `ForkReconcile` |
| `PeerSync` | a node and a peer: all of these with the reading loop, gossip and the mining loop | `CatchUp` |
| `PeerSyncProofs` | theorems | `PeerSync` |
| `PeerMesh` | the sessions between nodes: dialling, accepting, the peer table, bans, faults | |
| `PeerMeshProofs` | theorems | `PeerMesh` |
| `MC*` | instances for TLC | the module they name |

**Correspondence.** One action is one call that the code runs to completion
under its lock, or one step between two points where another thread may run.
*RoundStateMachine*: the alternatives of `SubmitVote` and `SubmitProposal` are the
early returns, in the code's order; `FailClosed` is `_fail_closed` with evidence,
slash and lockdown; `AttestRefused` and `SlashElsewhere` are the slashes that the
slashing engine and `slash_validator` make in the same registry, with a lock of
their own and with none. *TipSafety*: `ApplyCandidate` evaluates, records into the
window and moves the head as `apply_candidate` does. *TipGate*: an import is
precheck, queue, sync read, sync install, because `sync_from_chain` reads the tip
outside the lock, and the sync may fail after the import has succeeded (`SyncFails`).
*ApplyQueue*: numbering and putting are separate steps, as are
clearing `_running` and putting STOP; deadline and caller timeout are separate
events. *ChainCommit*: `add_block` is one action per outcome (`Commit`,
`CommitFails`, `DoubleProposal`, `CrashAfterCommit`) and the handler of
`block.new` is part of `Commit`, since the bus calls it synchronously;
`ReorgToAncestor` leaves the memory of the engines alone, as the code does;
`Boot` rebuilds it from the tables, registering the node's own validator.
`add_validator` is two steps, since its callers hold no lock of the chain:
`AddValidator` up to the registry and `CountValidators` for the count of the quorum. A
block names its proposer by a string: rows and authorization fold it (`Fold`), the
proposal record, the slashed and the registry do not, and the names "genesis" and
empty (`Exempt`) pass without check or record at any height.

*TxPool*: `Receive` or `SendTx` validates and `Insert` enters the pool, because
the worker may commit between them; `Pick`, `Forge` and `Evict` or `Clean` are the
forge loop's choice, the job and the look at its answer; execution is
`blockchain_apply_simple_block` with fee, burn and dust, and `Replay` is what a
rollback does; the two read a gas of zero differently (`NoGas`, `ReplayTx`). *Bridge*:
a request is split at
the verifier call and at the load and the save of the queue file; a batch of the store
is one step. A request names a lock and an L1 transaction apart; a credit names a key
(`TxOf` says which transaction it is of), a user and an amount, all of them the
caller's. `made` is `created_at`, the order in which a confirmation looks for its row.
*PeerSync*: a task runs from one `await` that really waits to
the next. `AskFor` sends and puts the answer on the wire, `Read` is one turn of
`_message_loop` with the whole handler, and a wait ends in the step that reads its
answer. The lock of a peer is held by the call in `waiter`, and `line` are the calls
that stand before it, in the order of arrival; a call names the task that waits for
it, or `gone` when its thread has given it up (`GiveUp`): the request of such a call
is still sent and its answer is for nobody. The mining loop waits for the probe it
asks for when the flag is down (task `miner`); the probe after a forged block runs on
its own (`Probers`), and two probes at once fill the pool of `main.py:383`.
*PeerMesh*: a socket has an end at each node. `Dial` is `connect_peer` up to its
first `await`, `FinishDial` the rest; `Accept`, `Acknowledge` and `FinishAccept`
are the handler of an incoming connection around the two awaits of its
handshake. `Install` replaces the entry before it closes the old session, as
`register` does, and does not tell the governor. A session is `Silent` for a node when
its line is cut or when the node's reading loop has been in a handler for longer than
the time-outs (`Stall`, until `Resume`): all that look at `last_seen` see is that it is
old. `TimeOut` is `prune_stale`, which names the session it removes; `Collect` and
`Remove` are `_ping_loop`, which keeps ids, awaits the pings to its other peers and then
removes whatever session the id has. Peers outside `Nodes` are among those that are
pinged, and `MaxPeers` is what they leave.

**Abstractions.** A hash is a model value that determines height and parent. Stake is a
measure on sets (`StakeOf`), of which only additivity is used. The accounts of the chain
are the set of blocks they contain, except in `TxPool`, which has balances and nonces
and whose transfers are the plain ones. Time in the queue is the set of jobs past their
deadline; in `PeerSync` a request times out when the loop that would read the answer
waits itself, or when its answer is not on the wire; otherwise waits end early, and
threads give up, at most `MaxLate` times together; in `PeerMesh` a session may time out
when its line is cut or its reading loop has stalled; how long a stall lasts is not
modelled otherwise. A strike that counts is one flag. The order of node ids is `Rank`;
seeds are configured by name, as in the compose files, so a session that a seed opened
is not recognised by its address. Signatures, formatting and metrics are left out.

Left out of `PeerSync`: the GHOST head, the finality floor (`ChainCommit`), further
peers, the tip-evidence gate (`TipGate`), the state-root baseline, the pull of the
mempool and what follows an accepted block (attestation, broadcast). Left out of
`PeerMesh`: addresses learnt from peers, eviction by score and subnet, the checks inside
the handshake. A node therefore has one address, and what is shown of simultaneous dials
(`NoMutualTearDown`) is shown for such nodes: `_schedule_connect` keeps one task for an
address, so a peer that is dialled by name and by its learnt address at once may get two
sessions of one direction, of which each end may keep another.

## 3. Runs

| run | instance | shows |
|---|---|---|
| `round_agreement` | 2 validators with stakes 2 and 1, 2 blocks, heights 0..1, 3 accepted votes, one slash from outside the machine | `AccountableSafety`, `UniqueQuorum`, `FinalityMonotone` while rounds are opened, left and reopened and a slash shrinks the total |
| `round_faults` | the same with proposals, one failing-closed call and 2 accepted votes | `NoConvictedVoteCounts` through both kinds of conviction, slashes from outside, lock and spam escalation |
| `tip_finality` | 8 blocks on three branches, window of 3 | the head keeps the finalized chain, policy and state agree, the walk finds what is an ancestor, each checkpoint extends the last |
| `gate_enforce` | 7 blocks, one of which does not execute, 2 concurrent imports, every other writer | `GateInSync`, with failing syncs, and `FollowerCatchesUp` for a node that only imports and whose syncs succeed |
| `apply_queue` | the miner with its retry, a reorg that an adapter awaits for a shorter time, a queue of two places, stop at any time | `HonestAnswers`, `RejectedTxsKept`, `BoundedBypass`, `NoLateStart`, `EveryCallAnswered`, `WorkerExits` |
| `chain_commit` | 5 blocks: one of the exempt name, and three of height 2, two of one proposer and one of the same address in another spelling; epochs of 2 blocks, 2 addresses with 3 names, all of which register and two of which vote twice | `StateMatchesChain`, `NoEquivocationAccepted`, `FinalizedKept` and the refinement `ImplementsLedger` through failures, rollbacks, slashes, registrations, crashes and restarts |
| `chain_restart` | the same | **violated**, see section 4 |
| `tx_pool` | 2 users, 5 transactions of which two share a nonce, one leaves dust and one, of a peer's block, names a gas of zero, a pool of 2 places, chains of 2 blocks, a maximum supply that the second reward reaches | `ExecutedOnce`, `SupplyConserved`, `BuiltBlockExecutes`, `ReplayAgrees` |
| `bridge` | 1 user, 2 L1 transactions that both may lock, 2 replay keys of one transaction, 2 seconds, two HTTP threads and the relayer's, a queue file of one entry, confirmations that look through one row (`LockLimit`), 2 requests of callers or ends of the process; refunds and rebuilds at any time | `PendingIsBacked`, `AccountsAddUp`, `QueuedSettled` |
| `peer_sync` | the tree g0–c1–p2–p3 with the node's own o2 on c1; the peer's chain grows, the node forges, batches of 2, one probe of the miner and one of a forged block | `TrustIsEarned`, `HandlerUnanswered`, `ReaderReturns`, `CatchesUp` |
| `peer_mesh` | 2 nodes that are each other's seeds, 2 sockets that the first dials and one that the second dials, inbound room for one session at the first node, 2 faults (cut, stall, ban, restart) | `NoMutualTearDown`, `Converges` |
| `mesh_full` | 3 nodes of which one is a seed of the two others, tables of 2 places with one reserved, no faults | **violated**, see section 4 |

Every run but `chain_restart` and `mesh_full` passes. `TypeOK` is checked for every
module but `TipGate`, whose state is one tip and its copy, and `ChainCommit`, where it
is only proved (`TypeCorrect`).

**Bounds.** Two validators of which one holds exactly two thirds give the
boundary of the quorum and, once it is slashed, a quorum of the other alone.
`MaxAccepted` = 3 is two votes of one type in different sittings and one more;
`MaxFaults` = 1 is one kind of fault by one id, repeated as often as it likes, so
that spam escalation happens. The trees have a fork at every height where the code
distinguishes cases (sibling of the tip, rollback within the window, rollback below
it), and windows smaller than the chain so that eviction happens. A queue of two
places is the smallest in which a job can be overtaken, and the reorg and STOP fill
it while the worker has a third job. With epochs of 2 the first block of height 2
completes two consecutive epochs, which is what finalizes.
In `TxPool` two blocks are what a rollback and a second try need, a pool of two
drops one of three, and 13 coins of which 10 exist at genesis make the second
reward partial. In `Bridge` two threads are the least that overlap, and two requests
of callers meet each other and the relayer's confirmation, a refund and a rebuild: two
locks of one balance or in one second of which one hides the other, two claims of one
key or of two keys of one transaction, a lock whose entry another request gives a
different transaction. `LockLimit` stands for 1000 and `QueueLimit` for 500; both are
1. In `PeerSync`
the two starting points are a common head and a fork at one height; one late
answer, or one call given up, is enough to meet the wrong request. In `PeerMesh` the two
sockets that the lower id dials are a half-open session and its successor of the
canonical direction; two faults give a restart during a ban, a cut during the recovery
from one, or a stall at both ends; `MaxPerIp` = 2 makes the governor's leak bite.
`RoundStateMachine` is symmetric in the two hashes; no run with a liveness
property uses symmetry.

Deadlock is checked but where the system may come to rest: after `stop()`
(`ApplyQueue`), when all transactions are used up (`TxPool`), when the budget of
requests is (`Bridge`), when both chains are equal and nothing is on the wire
(`PeerSync`) and when all nodes are linked (`PeerMesh`).

**Fairness.** `ApplyQueue`: weak fairness of the worker thread (a dispatch ends, blocks
are bounded by gas), of a `stop()` that has begun, and of each caller that has entered a
`submit_*`; nobody has to submit, to stop or to give up. `TipGate`: weak fairness of an
import that has begun; strong fairness of offering and applying each block, because
announcements and catch-up offer a missing block again and the queue does not refuse one
block forever. `Bridge`: the relayer polls for ever, and neither L1 nor the verifier is
down for ever (strong fairness of `Post` and of the verification of its request); no
HTTP client has to come. `PeerSync`: each task that can go on does (weak fairness of
each by itself), the lock is handed over, timers fire, the catch-up loop schedules and
the peer sends its status; nobody has to forge, and the peer does not have to extend its
chain. `PeerMesh`: each connection task goes on, a handler that stalls returns, the ping
loop comes to its removals, bans end, and the retry loops dial for ever; no fault has to
happen and there are `MaxFaults` of them, stalls included. `Converges` is therefore a
promise for the time after the last stall only: the code gives none for a node whose
handlers stall again and again (section 4).

## 4. Findings

`chain_restart`: the reorg floor is read from memory that a start does not
reload, so a finalized block can be rolled back (`core/blockchain.py:1117`),
against the changelog's "refuses rollback below finalized checkpoint".

`mesh_full`: when a table has filled up during a handshake, `connect_peer` closes
the session it dialled if the peer is listed already, and does not ask which of
the two is canonical (`network/p2p_node.py:2410`). The peer may have closed the
other one for this one: both are gone, against the docstring of `register`, "keep
the canonical direction so simultaneous A↔B dials cannot tear down both live
registrations" (`network/peer_manager.py:394`). Both nodes dial again, so the link
comes back; `NoMutualTearDown` is the same promise for nodes with room.

**Seen while modelling, with no run of their own.** Behaviours that the models
have; TLC shows each with a one-line invariant or property.

* `_begin_round` drops `_seen` of every other round: a validator counted for two
  blocks of one round leaves no evidence (`consensus/bft/service.py:324`, against
  ADR 0007). `AccountableSafety` is stated so that it holds nevertheless.
* A block the node forges, a reorg or a late import moves the tip without the
  gate, which under enforce then refuses every block that extends the chain
  (`consensus/tip_safety/shadow.py:321`); hence `strayed` in `GateInSync`.
* When the sync after a successful import fails, the old service stays
  (`consensus/tip_safety/shadow.py:204`): the gate passes only blocks that the chain
  refuses, so no further import succeeds and no further sync is tried
  (`FailedSyncLocksOut`); a restart or a rollback gets out of it.
* Adapters wait 30 or 60 s for a job that lives for 120: the reorg starts after its
  caller has given up and submitted it again (`network/catchup_adapters.py:130`,
  `network/fork_adapters.py:82`).
* `record_proposal` ignores the hash: a block offered again after a failed batch or
  a rollback slashes its honest proposer (`consensus/slashing.py:107`).
* An answer after its timeout is held against the next request of its type, and the
  honest peer is struck, although `sync/solicit.py:269` says that a late state root
  must not ban: the waiter is removed when the time is up. No slow network is
  needed, since the handler of `new_block` probes the peer while it keeps the loop
  that would read the answer (`network/p2p_node.py:3479`).
* A sync task that reconciles a fork while the peer gets higher waits for the lock
  that it holds (`network/p2p_node.py:5406`, `5115`). `Behind` in
  `CatchesUp` excludes it.
* A handler never gets an answer from the peer whose message it handles
  (`HandlerUnanswered`): the fork probe of an announced sibling
  (`network/p2p_node.py:3445`) and the question for its root after an accepted block
  (`3479`) run into their timeouts, and the reading loop stands still meanwhile.
* A thread that gives up cancels its call only for state roots
  (`network/p2p_node.py:5837`); the other calls stay in the line of the lock and their
  requests are sent later for nobody (`network/catchup_adapters.py:194`).
* The cursor of catch-up is set before the probes; a block that gossip imports
  meanwhile is fetched again and rolled back as a fork (`sync/catchup/path_a.py:160`).
* `create_block` does not count balances through the block: after a rollback two
  transactions of one sender in the pool make a block that fails, and both are
  evicted; hence `rolled` in `BuiltBlockExecutes`. At the maximum supply execution and
  replay count differently when a fee left dust, and a gas of zero in a peer's block
  is executed as 21000 (`core/components/state_service.py:268`) and replayed as zero
  (`:582`, `native/abs_native/src/amount.rs:409`): no rollback gets past such a block.
  `ReplayAgrees` holds but for these two.
* Bridge: `confirm_lock` writes confirmed without a second look, so a lock refunded
  meanwhile ends confirmed; the same L1 hash locked twice is debited twice; entries of
  the queue file are lost between load and save; a lock behind 1000 newer rows is "not
  found" (`bridge/abs_bridge.py:493`); the relayer posts incoming events without
  `l1_tx_hash`, which production refuses; replays of the chain undo bridge balances
  and not bridge rows (`replayed` in `AccountsAddUp`). The replay key is the caller's
  chain name, transaction and log index (`storage/rocks_store.py:1392`), and the
  verifier looks at the receipt and the confirmations of the transaction only: which
  key, recipient and amount belong to it is not checked on the way in, so that one
  confirmed transaction may be credited once for each key that names it.
  `AccountsAddUp` promises no more than that a key is paid once, with the amount of
  its row, and only for a confirmed transaction.
* Round machine: a slash that comes from the slashing engine while a block is
  recorded, or by hand, does not lock the round (`consensus/adapter.py:201`, `263`):
  the slashed validator's vote stays in `_votes` and only `stake_for_votes` passes
  over it. Certificates of one sitting may therefore be of different totals, and
  `AccountableSafety` counts the slashed stake.
* Mesh: no line has to fail for a session to end. The handler of a block waits up to
  twice thirty seconds for roots that only its own reading loop could deliver
  (`HandlerUnanswered`), nothing touches `last_seen` meanwhile, and `_ping_loop` and
  `prune_stale` remove the session after sixty (`network/p2p_node.py:6106`,
  `network/peer_manager.py:531`). `_ping_loop` removes by id after it has awaited its
  other sends, so it may also close the session that has replaced a dead one. The nodes
  dial each other again each time.
* Mesh: the inbound limit is not looked at again after the handshake. A replaced
  inbound session stays counted in the governor. Most callers of `_strike_peer_sync`
  ignore its answer, so a banned peer stays connected until the session ends.

## 5. What is proved

**RoundStateMachineProofs.** `TypeCorrect`, `Accountable`, `QuorumUnique`,
`ConvictedDoNotCount`, `FinalityGrows`, for every validator set, additive stake,
spam threshold and bound. From `StakeAssumption` alone follow monotonicity, the stake of
unions and `QuorumIntersection`. `AccountableSafety` is not inductive: it speaks
of completed finalizations and not of the votes that led to them. `IInv` adds
that each completed block is *backed* by a quorum of counted precommits among
the validators not slashed then, that counted votes are attested, that a
registered validator with an attempt against it is slashed (`ConvictedSlashed`),
and that the votes of the live round belong to it. Each action has a lemma of its own;
`QuietStep`, `ResetStep`, `RecordStep` and `FinalizeStep` are what they share.

**TipProofs**, of `TipSafety`. `RefsKept` (the references stay within the tree),
`PolicyImpliesState`, `FloorKept`, `FinalityHolds`, `FinalityExtends`, for every
block tree and window size, from `TreeAssumption` and `AncestorsAssumption`. The
last two assume `CheckpointsOnChain`: callers finalize blocks of the head's chain
only, an obligation the service itself does not check (it compares heights).
Without it `FloorKept` still holds: the finalized height never exceeds the
head's. The key is `AcceptedKinds`: an accepted candidate extends the head,
replaces it at its own height, or is a known ancestor at or above the floor.
`TypeCorrect` and `WalkFinds` are about the window itself. A look-up moves its
entry to the end (`Refresh`), so the walk reads a window that it reorders, and it
stops after `max_blocks` turns. `WalkShape` says what every turn leaves (the same
blocks in another order), `WalkProgress` that the blocks it has passed are distinct
members of the window other than the wanted one, so that the turns suffice, and
`WalkAnswers` that it finds an ancestor exactly when the window connects the two.

**TipProofs**, of `TipGate`. `GateFollows`, `OneImportAtATime` and
`FailedSyncLocksOut`, for every tree, any number of importers and every set of other
writers. `GateInSync` is not inductive: two
imports could both be about to install what they read. `Service` adds why they are
not: what waits in the queue is at most one block above the gate, so a second import
cannot apply before the first has moved the gate; the gate itself is the lock. After a
failed sync the same bound shows that
nothing in the queue can extend the tip any more.
`NoService` does the same for a node whose sync at boot failed.

**ApplyQueueProofs.** `TypeCorrect`, `AnswersHonest`, `NothingStartsLate`,
`RefusedForgeKeepsTxs`, `BypassBounded`, for every finite set of jobs, every queue
size and every use of `stop()`. `JobLife` follows a job: its future is open while
it is queued or in the worker's hands, and a future that is set says what was done.
`Returned` adds that a call ends with an answer or after its deadline, which is what
the worker looks at before it starts a job. `ReadingsOld` orders the miner's reading
of `reject_total` before its own refusal (the model counts a refusal in one step:
CPython could switch threads inside `reject_total += 1`, which would lose a count),
and `PassedOnce` says that the job in the worker's hands is of a lower lane only
than jobs that nobody has passed yet.

**ChainCommitProofs.** `LedgerFollowsChain` and `NoEquivocation` rest on
`Recorded`: the ledger is the tip's chain and every committed block of a name that
is not exempt is in the proposal record. The names are as the blocks spell them: two
spellings of one address are two names, and of the names "genesis" and empty nothing is
recorded. `FinalityKept` says that every finalized checkpoint is on the chain, for
every tree, epoch length and changing validator set, until a restart, or until the
block of a checkpoint is committed again (`recast`). The second condition is needed:
only a block of an exempt name can come back after a rollback, its quorum is then
taken anew, and if the validator count has shrunk since, the next epoch becomes final
with a checkpoint that the rollback has removed. TLC shows this in nine steps of
`chain_commit` when the condition is dropped. `FinalizedKept` is far from inductive,
since a checkpoint is never moved
when its block is rolled back. `InOrder` adds why this is harmless: checkpoints
are created without gaps (`Contiguous`), every epoch of the chain has one
(`Processed`), and two consecutive justified epochs are final already
(`FinalAtOnce`). While no checkpoint is processed twice, a checkpoint is finalized by
the commit of its own block or never, and
from then on the floor protects it (`RollbackInOrder`). `RowsFollow` carries
this to the checkpoint table. `LedgerImplemented` is the refinement: under
`Recorded` and `FinalityInOrder`, before and after the step, each action is a step
of `Ledger` or leaves account rows and final blocks alone (`LedgerStep`). The
commit is the step that needs them, since nothing final may be forgotten or point
beside the chain (`FinalGrows`), and the rollback, which must stay above all that
is final. A restart and the second commit of a checkpoint are the ledger's
`LoseFinality`. `TypeCorrect` comes first, since the other theorems need the shape of
the engine; it needs that every checkpoint row is of an epoch that a block of the tree
has (`RowsTyped`).

**BridgeProofs.** `RefundsArePaidFor`: no lock is refunded more often than it was
debited, for any number of users, locks, replay keys, threads and requests.
`PendingIsBacked` is inductive with the shape of the rows and counters
(`LockRows`): it does not depend on what a thread saw before it called the
verifier, because each batch that creates a pending row debits in the same batch
and a confirmation can only take a refund away. `TypeCorrect` needs what a request
still knows after its verifier call (`Fits`): the row that it found exists, because
rows are never removed (`Grow`), and the transaction that its key names has been
confirmed. Its
part about the queue file is the fold of `Without` over the entries.
`ValueConserved`: only confirmed transactions are credited, and until a replay of the
chain the accounts and the burned fees hold exactly the first balances and the credit
rows, less what the locks have taken and not given back (`Held`). As an equation it is
inductive with the types: each batch changes one account, and by the same number one
lock, the burned fees or one credit row. `TotalChanges`, `TotalNat` and
`TotalConstant` are the facts about sums.

**PeerMeshProofs.** `TypeCorrect` and `NoTearDown`, for any finite set of nodes with one
address each, any seeds, limits and number of cuts, stalls, bans and restarts.
`NoMutualTearDown` speaks of what was dropped in the past; `Mesh` adds why each node
dropped what it did (`Justified`): a node with room drops a session it dialled only for
one that the other node dialled, and of two directions it keeps the canonical one, which
is the same at both ends. That needs `OneDial` (a node never has two sessions that it
dialled to the same seed) and the equality of table and open sessions. The proof showed
that room has to mean a table that is never full: with nothing reserved and exactly as
many places as neighbours the last dial finds the table full.

**PeerSyncProofs.** `TypeCorrect`, `TrustEarned` and `HandlerGetsNothing`, for every
tree with a genesis block, every batch size, any finite set of probes, and any number
of late answers and calls given up. None of the three is inductive. `IInv` has four
parts. `ChainOK`: all the peer ever said is about blocks of its own chain, on the
wire, in the claim and in what the tasks hold, and stays so when that chain grows
(`Monotonic`). `LockOK`: who waits holds the lock, who asks stands in its line, nobody
twice but those that are gone. `TasksOK`: what a task can rely on where it is, also
while it waits (`TaskOK`), such as a head of the peer's chain in the hands of a fork
reconcile and a parent that the node has before a rollback. The verdict that raises
the flag needs an answer equal to the root that was read first, and an answer is of
the peer's chain: that is `TrustIsEarned`, whatever happened to the chain meanwhile.
`HandlerUnanswered` needs `LockOK`: the loop reads an answer only when the handler
does not wait, so the answer is another task's. `AnswerTyped` says that the peer can
answer each request, which rests on `ChainFilled` (a chain has a block of every height
up to its own). Each action has a lemma; `CallKeeps`, `ReturnKeeps`, `SendKeeps` and
`GiveUpKeeps` are what happens at the lock, and `Settled` is what is left to show of a
task that moves without it.

**TxPoolProofs.** `TypeCorrect`, `NonceOrder`, `SupplyExact`, `BuiltExecutes` and
`ReplayFaithful`, for every finite set of transactions and accounts, every pool and
block size and every number of rollbacks. The properties speak of the whole chain
and the state of accounts only, so the work is in the folds: the execution of a
block, the replay of a chain and the building of a block are each shown to have a
trace, one state per step (`RunTrace`, `ReplayTrace`, `BuildTrace`). `Sound` says of
a chain that each sender's nonces are executed in order from zero, that each account
has used exactly as many, that the balances are the genesis supply and the rewards
less the dust, and that a replay counts the same supply and ends in the accounts of
the last block, both up to the maximum supply and the accounts only where no
transaction names a gas of zero (`ReplayTxsAgree`). One more block keeps it
(`SoundAppend`), and because it is kept for every prefix it survives a rollback. The
invariant links the accounts to the root of the last block, and for
`BuiltBlockExecutes` it adds `Behind`: until a rollback nothing in the pool, on its
way in or in the miner's hands has a nonce ahead of its account. So a block takes at
most one transaction of a sender, and what passed the check on the committed balance
also passes when the block is executed (`RunSucceeds`). After a rollback the pool may be
ahead, which is why the property ends there.

**Recursion over data.** Walks, sums and folds are proved about from the existence
of a least counterexample (`LeastNat`, from `WFMin`), which is first-order:
`WalkProgress`, `TotalExists`, `KeptExists`, `FoldExists` and `ChainFilled` are of
this form.

`AncestorsAssumption` states facts that follow from the tree by induction on the
height; TLC evaluates it on every instance.

**Only model-checked.** Liveness (`FollowerCatchesUp`, `EveryCallAnswered`,
`WorkerExits`, `QueuedSettled`, `ReaderReturns`, `CatchesUp`, `Converges`), since
the prover has neither fairness nor ENABLED. Every invariant, every action property
and the refinement of the passing runs is a theorem.

## 6. Hazards

`PROJECT.json` lists each hazard at its line. Those without a property carry the
reason: behaviour that the model has but that no document of the repository
speaks about, or a component that is planned below.

## 7. Plan

Modelled and checked: the consensus core, the chain and its writers with the
abstract `Ledger`, transactions, the bridge, synchronisation with one peer and the
mesh, and their safety is proved. What is left, in this order:

1. `ConsensusAdapter`: `attest`, slots and rounds, composed with
   `RoundStateMachine`.
2. Several peers in `PeerSync`: their verdicts are combined in
   `ConsistencyMachine.evaluate_probe`, and the sync places are shared.

## 8. What is not modelled

EVM and WASM, contracts and everything a transaction may do but a plain transfer
(data, out of TLC's reach); cryptography (assumed sound); the native library apart
from the amounts, the wire checks and the connection governor (the Python fallback
has the same results); SQLite as the canonical store (production uses Rocks);
replacement of the genesis block; shadow mode of the gate and all metrics; the
legacy fork-choice, finality and sync engines, which unified mode does not
construct; rate limits, discovery and transport of the P2P node; the HTTP API,
which keeps no state of its own; light client, chaos and operational scripts
(`scripts/`, a large part of the repository's lines), which test and deploy the
node and are no part of it.

The definitions stand for about 8 000 of the repository's 98 000 lines of
implementation. Nearly all of the rest is in the parts listed above: the HTTP
API, the command-line and verification scripts, the native library, the SQLite
store and the feature modules; of `p2p_node.py` about 2 100 lines of 7 300 are
modelled. The claims of this project are about the modelled parts only.

The feature modules (`features/`) were read and are not modelled: each is an
optional contract of its own on rows of the store, and most are off in the
production profile. Worth a model if they are turned on: `crypto_will` credits the
owner before the cancelled will is stored, `plasma` writes exit and balance as two
rows, and a `lightning` channel is closed without a lock.

## 9. How to run

`tlc -config ChainCommit.cfg MCChainCommit` checks one run; `PROJECT.json` pairs
each configuration with its module. `tlapm ChainCommitProofs.tla` checks the
proofs of a module.
