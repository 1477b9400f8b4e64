------------------------------- MODULE TxPool -------------------------------
(***************************************************************************)
(* The way of a transaction: gossip and HTTP, the mempool of               *)
(* blockchain/mempool.py, the forge loop of main.py, create_block and      *)
(* add_block with the native execution of simple transfers, blocks of      *)
(* peers, and rollbacks that replay the chain from the genesis accounts.   *)
(*                                                                         *)
(* A transaction is checked against the accounts in one step and put into  *)
(* the pool in another; the apply queue's worker may commit in between.    *)
(* The forge loop takes its transactions from the pool before it queues    *)
(* the job, and looks at the answer afterwards.                            *)
(***************************************************************************)
EXTENDS Integers, Sequences, SequencesExt, FiniteSetsExt

CONSTANTS Users,          \* addresses that send
          Miners,         \* addresses that propose
          Burner,         \* the burn address
          Txs, From, To, Nonce, Value,
          Price,          \* the fee a transaction names: the order of the pool
          Batches,        \* sets of transactions that peers send in one message
          Faulty,         \* transactions with a faulty field, by kind of field
          NoGas,          \* transactions that name a gas of zero
          MinerFee, Burned,  \* the two shares of a fee, rounded down
          Dust,           \* what the rounding of a transaction loses, 0 or 1
          Stake,          \* genesis balance of a user
          Reward, MaxSupply,
          PoolSize,       \* max_size, 10000 in the code
          CleanupShare,   \* 10 in the code: a full pool drops its tenth
          BlockLimit,     \* max_tx_per_block, 500 in the code
          MaxHeight,      \* bound: length of the chain
          MaxHandlers     \* bound: transactions between validation and the pool

Fields == {"parse", "address", "key", "amount"}

ASSUME TxAssumption ==
  /\ From \in [Txs -> Users] /\ To \in [Txs -> Users] /\ Batches \subseteq SUBSET Txs
  /\ Faulty \in [Fields -> SUBSET Txs] /\ NoGas \subseteq Txs
  /\ Nonce \in [Txs -> Nat] /\ Value \in [Txs -> Nat] /\ Dust \in [Txs -> {0, 1}]
  /\ Price \in [Txs -> Nat] /\ \A t, u \in Txs : Price[t] = Price[u] => t = u
  /\ {MinerFee, Burned, Stake, Reward, MaxSupply, MaxHeight, MaxHandlers} \subseteq Nat
  /\ Cardinality(Users) * Stake <= MaxSupply
  /\ {BlockLimit, CleanupShare, PoolSize} \subseteq Nat \ {0} /\ PoolSize >= CleanupShare
  /\ Burner \notin Users \cup Miners /\ Users \cap Miners = {}
  /\ IsFiniteSet(Users) /\ IsFiniteSet(Miners)

VARIABLES accounts,  \* balance and nonce of every address
          chain,     \* the blocks: transactions, miner, accounts after it
          pool,      \* Mempool.transactions
          incoming,  \* validated, not yet in the pool
          mining,    \* the forge loop
          announced, \* the gossiped block whose transactions are still to be dropped
          rolled     \* history: the chain was rolled back

vars == <<accounts, chain, pool, incoming, mining, announced, rolled>>

Addresses == Users \cup Miners \cup {Burner}

-----------------------------------------------------------------------------
(* Execution, in satoshi *)

Cost(t) == Value[t] + MinerFee + Burned + Dust[t]

Paid(a, x, n) == [a EXCEPT ![x].balance = @ + n]

\* plan_transfer_fees and the writes of apply_simple_transfer_with_fees
Moved(a, t, m) ==
  LET sent == [a EXCEPT ![From[t]] = [balance |-> @.balance - Cost(t), nonce |-> @.nonce + 1]]
  IN Paid(Paid(Paid(sent, To[t], Value[t]), m, MinerFee), Burner, Burned)

\* Mutant: the nonce is left to the validation.
RunsAnyNonce(a, t) == a[From[t]].balance >= Cost(t)

\* The checks of apply_simple_transfer_with_fees
Runs(a, t) == a[From[t]].balance >= Cost(t) /\ a[From[t]].nonce = Nonce[t]

RunTx(r, t, m) ==
  IF r.ok /\ Runs(r.accounts, t)
  THEN [ok |-> TRUE, accounts |-> Moved(r.accounts, t, m)]
  ELSE [ok |-> FALSE, accounts |-> r.accounts]

Run(s, txs, m) == FoldLeft(LAMBDA r, t : RunTx(r, t, m), s, txs)

Supply(a) == MapThenSumSet(LAMBDA x : a[x].balance, Addresses)

\* Mutant: the last reward is paid in full.
RewardAtFull(supply) == IF supply < MaxSupply THEN Reward ELSE 0

\* apply_block_reward_sat
RewardAt(supply) == Max({0, Min({Reward, MaxSupply - supply})})

\* apply_block_mutations of a simple block: the supply is summed up before it.
ApplyBlock(a, txs, m) ==
  LET s == Run([ok |-> TRUE, accounts |-> a], txs, m)
  IN [ok |-> s.ok, accounts |-> Paid(s.accounts, m, RewardAt(Supply(a)))]

GenesisAccounts ==
  [x \in Addresses |-> [balance |-> IF x \in Users THEN Stake ELSE 0, nonce |-> 0]]

\* Mutant: the rewards of earlier blocks are not counted.
ReplayedSupplyFlat(supply) == supply

\* blockchain_replay_simple_blocks counts the supply itself: rewards are added.
ReplayedSupply(supply) == supply + RewardAt(supply)

MovedFree(a, t) ==
  Paid([a EXCEPT ![From[t]] = [balance |-> @.balance - Value[t], nonce |-> @.nonce + 1]],
       To[t], Value[t])

\* A replay passes the stored gas on as it is: a gas of zero, which execution has
\* charged as the default, costs no fee.
ReplayTx(r, t, m) ==
  LET payer == r.accounts[From[t]]
      free  == t \in NoGas /\ r.ok /\ payer.balance >= Value[t] /\ payer.nonce = Nonce[t]
  IN CASE t \notin NoGas -> RunTx(r, t, m)
       [] free -> [ok |-> TRUE, accounts |-> MovedFree(r.accounts, t)]
       [] OTHER -> [ok |-> FALSE, accounts |-> r.accounts]

ReplayTxs(s, txs, m) == FoldLeft(LAMBDA r, t : ReplayTx(r, t, m), s, txs)

ReplayBlock(s, b) ==
  LET r == ReplayTxs([ok |-> s.ok, accounts |-> s.accounts], b.txs, b.miner)
  IN [ok |-> r.ok, supply |-> ReplayedSupply(s.supply),
      accounts |-> Paid(r.accounts, b.miner, RewardAt(s.supply))]

\* _replay_simple_range_native
Replay(blocks) ==
  FoldLeft(LAMBDA s, b : ReplayBlock(s, b),
           [ok |-> TRUE, supply |-> Supply(GenesisAccounts), accounts |-> GenesisAccounts],
           blocks)

-----------------------------------------------------------------------------
(* Validation *)

\* _build_mempool_tx_from_wire before the state is read: the fields parse, the
\* addresses are there and not too long, so are signature, key and hash, and gas,
\* value, nonce, fee and calldata are within their limits.
Parses(t) == t \notin Faulty["parse"]

AddressesFit(t) == t \notin Faulty["address"]

KeysFit(t) == t \notin Faulty["key"]

AmountsFit(t) == t \notin Faulty["amount"]

WireOk(t) == Parses(t) /\ AddressesFit(t) /\ KeysFit(t) /\ AmountsFit(t)

KnownTx(t) == t \in pool

\* can_afford_transfer_sat on the committed balance
Affordable(t) == accounts[From[t]].balance >= Cost(t)

\* _validate refuses less than the base gas; the wire reads a gas of zero as the
\* default, which makes another transaction of it.
GasEnough(t) == t \notin NoGas

\* Mutant: transactions may queue up behind a nonce to come.
ValidForPoolAhead(t) ==
  GasEnough(t) /\ Nonce[t] >= accounts[From[t]].nonce /\ Affordable(t)

\* TxPipeline.validate_for_mempool
ValidForPool(t) == GasEnough(t) /\ Nonce[t] = accounts[From[t]].nonce /\ Affordable(t)

\* validate_for_block_cursor: the nonce counts the transactions taken so far, the
\* balance does not.
ValidForBlock(t, taken) ==
  /\ GasEnough(t)
  /\ Nonce[t] = accounts[From[t]].nonce
                  + Cardinality({i \in DOMAIN taken : From[taken[i]] = From[t]})
  /\ Affordable(t)

Take(taken, t) == IF ValidForBlock(t, taken) THEN Append(taken, t) ELSE taken

\* create_block
Build(txs) == FoldLeft(LAMBDA taken, t : Take(taken, t), <<>>, txs)

-----------------------------------------------------------------------------
(* The mempool *)

Cheapest(p, n) == {t \in p : Cardinality({u \in p : Price[u] < Price[t]}) < n}

\* Mutant: a full pool is cleaned up after the insertion is counted.
RoomLate(p) ==
  IF Cardinality(p) <= PoolSize THEN p ELSE p \ Cheapest(p, Cardinality(p) \div CleanupShare)

\* _cleanup of a full pool
Room(p) ==
  IF Cardinality(p) < PoolSize THEN p ELSE p \ Cheapest(p, Cardinality(p) \div CleanupShare)

Dearer(p, t) == Cardinality({u \in p : Price[u] > Price[t]})

\* get
Best(p, n) ==
  [i \in 1 .. Min({n, Cardinality(p)}) |-> CHOOSE t \in p : Dearer(p, t) = i - 1]

\* A transaction from a peer (_ingest_peer_tx), or the answer with a peer's pool
\* (_handle_mempool_batch): what does not pass is left out.
Receive(batch) ==
  LET sound == {t \in batch : WireOk(t) /\ ~KnownTx(t) /\ ValidForPool(t)}
  IN /\ sound # {} /\ Cardinality(incoming \cup sound) <= MaxHandlers
     /\ incoming' = incoming \cup sound
     /\ UNCHANGED <<accounts, chain, pool, mining, announced, rolled>>

\* A transaction from a client, which passes none of the wire's checks
SendTx(t) ==
  /\ KeysFit(t) /\ ValidForPool(t) /\ Cardinality(incoming \cup {t}) <= MaxHandlers
  /\ incoming' = incoming \cup {t}
  /\ UNCHANGED <<accounts, chain, pool, mining, announced, rolled>>

\* Mempool.add after the validation
Insert(t) ==
  /\ t \in incoming /\ incoming' = incoming \ {t}
  /\ pool' = IF KnownTx(t) THEN pool ELSE Room(pool) \cup {t}
  /\ UNCHANGED <<accounts, chain, mining, announced, rolled>>

-----------------------------------------------------------------------------
(* The forge loop *)

Idle == [at |-> "idle", txs |-> <<>>]

Block(txs, m, a) == [txs |-> txs, miner |-> m, root |-> a]

Pick ==
  /\ mining.at = "idle" /\ mining' = [at |-> "forge", txs |-> Best(pool, BlockLimit)]
  /\ UNCHANGED <<accounts, chain, pool, incoming, announced, rolled>>

\* The loop's step after a False: evict what was offered, or wait for the next slot.
AfterFailure ==
  IF mining.at = "forge" /\ mining.txs # <<>> THEN [mining EXCEPT !.at = "evict"] ELSE Idle

\* forge_and_apply in the worker: create, sign and add in one job.  The caller may
\* have stopped waiting for it.
Forge(m, answered) ==
  LET txs == Build(mining.txs)
      r   == ApplyBlock(accounts, txs, m)
  IN /\ mining.at \in {"forge", "empty"} /\ Len(chain) < MaxHeight
     /\ r.ok
     /\ accounts' = r.accounts /\ chain' = Append(chain, Block(txs, m, r.accounts))
     /\ mining' = IF answered THEN [at |-> "clean", txs |-> txs] ELSE AfterFailure
     /\ UNCHANGED <<pool, incoming, announced, rolled>>

\* The block does not execute, the store refuses it, or the job expired; a full
\* queue is told apart and skips the slot.
ForgeFails(skip) ==
  /\ mining.at \in {"forge", "empty"}
  /\ mining' = IF skip THEN Idle ELSE AfterFailure
  /\ UNCHANGED <<accounts, chain, pool, incoming, announced, rolled>>

\* All that was offered is evicted and an empty block is forged.
Evict ==
  /\ mining.at = "evict" /\ pool' = pool \ Range(mining.txs)
  /\ mining' = [at |-> "empty", txs |-> <<>>]
  /\ UNCHANGED <<accounts, chain, incoming, announced, rolled>>

\* What was included leaves the pool.
Clean ==
  /\ mining.at = "clean" /\ pool' = pool \ Range(mining.txs) /\ mining' = Idle
  /\ UNCHANGED <<accounts, chain, incoming, announced, rolled>>

-----------------------------------------------------------------------------
(* Blocks of peers *)

\* What a peer may have put into a block: of the wire's checks, only those of the
\* signatures are made again (verify_signatures), and the gas is not looked at.
PeerTxs ==
  UNION {[1 .. n -> {t \in Txs : KeysFit(t)}] : n \in 0 .. BlockLimit}

\* Import of a peer's block, by gossip or by catch-up and reconcile.
Import(txs, m, gossip) ==
  LET r == ApplyBlock(accounts, txs, m)
      b == Block(txs, m, r.accounts)
  IN /\ Len(chain) < MaxHeight /\ (gossip => announced = {}) /\ r.ok
     /\ accounts' = r.accounts /\ chain' = Append(chain, b)
     /\ announced' = IF gossip THEN announced \cup {b} ELSE announced
     /\ UNCHANGED <<pool, incoming, mining, rolled>>

\* The rest of _handle_new_block: nothing is dropped when the tip has moved on.
DropImported(b) ==
  /\ b \in announced /\ announced' = announced \ {b}
  /\ pool' = IF chain # <<>> /\ Last(chain) = b THEN pool \ Range(b.txs) ELSE pool
  /\ UNCHANGED <<accounts, chain, incoming, mining, rolled>>

Root(blocks) == IF blocks = <<>> THEN GenesisAccounts ELSE Last(blocks).root

\* reorg_to_ancestor: a replay with another result than the block's root fails.
\* The transactions of the blocks that are cut off do not return to the pool.
Reorg(h) ==
  LET blocks == SubSeq(chain, 1, h)
      r      == Replay(blocks)
  IN /\ h < Len(chain)
     /\ r.ok /\ r.accounts = Root(blocks)
     /\ chain' = blocks /\ accounts' = r.accounts /\ rolled' = TRUE
     /\ UNCHANGED <<pool, incoming, mining, announced>>

-----------------------------------------------------------------------------

Init ==
  /\ accounts = GenesisAccounts /\ chain = <<>>
  /\ pool = {} /\ incoming = {} /\ mining = Idle /\ announced = {} /\ rolled = FALSE

Next ==
  \/ \E batch \in Batches : Receive(batch)
  \/ \E t \in Txs : SendTx(t) \/ Insert(t)
  \/ Pick \/ Evict \/ Clean
  \/ \E m \in Miners, answered \in BOOLEAN : Forge(m, answered)
  \/ \E skip \in BOOLEAN : ForgeFails(skip)
  \/ \E txs \in PeerTxs, m \in Miners, gossip \in BOOLEAN : Import(txs, m, gossip)
  \/ \E b \in announced : DropImported(b)
  \/ \E h \in 0 .. MaxHeight : Reorg(h)

Spec == Init /\ [][Next]_vars

-----------------------------------------------------------------------------
(* Properties *)

Accounts == [Addresses -> [balance : Nat, nonce : Nat]]

Blocks == [txs : Seq(Txs), miner : Miners, root : Accounts]

\* Balances do not go below zero and the pool keeps to its size.
TypeOK ==
  /\ accounts \in Accounts /\ chain \in Seq(Blocks) /\ announced \subseteq Blocks
  /\ pool \subseteq Txs /\ Cardinality(pool) <= PoolSize /\ incoming \subseteq Txs
  /\ mining \in [at : {"idle", "forge", "evict", "empty", "clean"}, txs : Seq(Txs)]
  /\ rolled \in BOOLEAN

\* Where some blocks have their transactions, in the order of execution.
Places(blocks) == UNION {{i} \X DOMAIN blocks[i].txs : i \in DOMAIN blocks}

TxAt(blocks, p) == blocks[p[1]].txs[p[2]]

Earlier(p, q) == p[1] < q[1] \/ (p[1] = q[1] /\ p[2] < q[2])

\* The nonces that an account has used in some blocks.
Used(blocks, u) ==
  {Nonce[TxAt(blocks, p)] : p \in {p \in Places(blocks) : From[TxAt(blocks, p)] = u}}

\* However a transaction reached the node, by the pool, its gossip twice, a peer's
\* block or again after a rollback, the chain executes it once, and each account's
\* transactions in the order of their nonces and without a gap (amount.rs:367-440,
\* tx_pipeline.py:62-68).
ExecutedOnce ==
  /\ \A p, q \in Places(chain) : TxAt(chain, p) = TxAt(chain, q) => p = q
  /\ \A p, q \in Places(chain) :
       From[TxAt(chain, p)] = From[TxAt(chain, q)] /\ Earlier(p, q)
         => Nonce[TxAt(chain, p)] < Nonce[TxAt(chain, q)]
  /\ \A u \in Users : Used(chain, u) = 0 .. accounts[u].nonce - 1

\* The satoshi that rounding lost in some blocks.
Lost(blocks) == Cardinality({p \in Places(blocks) : Dust[TxAt(blocks, p)] = 1})

Minted(blocks) == Supply(GenesisAccounts) + Reward * Len(blocks)

\* The supply is the genesis supply and the rewards, less what rounding lost, and
\* never above the maximum, through forks and replays (amount.rs:600-622,
\* state_service.py:247-301).
SupplyConserved ==
  /\ Supply(accounts) <= MaxSupply
  /\ Minted(chain) <= MaxSupply => Supply(accounts) = Minted(chain) - Lost(chain)

\* Until a rollback, the block that create_block builds from any state of the pool
\* executes, although it checks balances without the transactions before: valid
\* transactions are not evicted with a block that fails (main.py:2172-2182,
\* tx_pipeline.py:218-224).
BuiltBlockExecutes ==
  ~rolled /\ mining.at = "forge" =>
    \A m \in Miners : ApplyBlock(accounts, Build(mining.txs), m).ok

\* Some block holds a transaction that execution and replay charge differently.
FreeInReplay(blocks) == \E p \in Places(blocks) : TxAt(blocks, p) \in NoGas

\* Replaying the chain from genesis gives the accounts its last block left, so that
\* every rollback above the floor succeeds, in all but two cases: the two ways to
\* count the supply agree until the maximum is reached with dust lost, and the two
\* readings of the gas until a peer's block brings a gas of zero
\* (amount.rs:409-412, 783-860, state_service.py:268, 582, blockchain.py:1139-1180).
ReplayAgrees ==
  LET r == Replay(chain)
  IN \/ r.ok /\ r.accounts = accounts
     \/ Minted(chain) > MaxSupply /\ Lost(chain) > 0
     \/ FreeInReplay(chain)

=============================================================================
