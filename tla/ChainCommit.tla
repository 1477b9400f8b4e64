----------------------------- MODULE ChainCommit -----------------------------
(***************************************************************************)
(* core/blockchain.py with what it calls while it holds its lock: the      *)
(* write batch of the Rocks store, the proposal record of SlashingEngine,  *)
(* the validator rows and the registry, and, after a commit, the           *)
(* FinalityEngine behind the consensus adapter.                            *)
(* The apply queue serialises the calls, so each is one action.  Peers and *)
(* the miner offer the blocks of a tree; the genesis block is shared.      *)
(*                                                                         *)
(* The ledger is the set of blocks whose transactions and reward are in    *)
(* the account rows; the state root of a block commits to the ledger of    *)
(* its chain.                                                              *)
(***************************************************************************)
EXTENDS BlockTree, FiniteSets

CONSTANTS Genesis,
          Names,         \* the names that blocks, votes and registrations carry
          Exempt,        \* of these "genesis" and the empty name
          Members,       \* of these the ones that register
          Offenders,     \* of these the ones that vote twice
          Fold,          \* _normalize_address: the lower-case form of a name
          Miner,         \* the proposer that each block names
          Executes,      \* the blocks whose transactions and roots are right
          Own,           \* the proposer names of this node
          EpochLength    \* FinalityEngine.EPOCH_LENGTH

ASSUME ChainAssumption ==
  /\ Genesis \in Blocks /\ Height[Genesis] = 0 /\ Parent[Genesis] = None
  /\ Miner \in [Blocks -> Names] /\ Fold \in [Names -> Names]
  /\ Executes \subseteq Blocks /\ Members \subseteq Names
  /\ Own \subseteq Members /\ Offenders \subseteq Members
  /\ EpochLength \in Nat \ {0}

\* The validator table is keyed by folded names; the record of proposals, the
\* slashed, the registry and the engine are keyed by the names as they came.
Addresses == {Fold[v] : v \in Members}

VARIABLES tip,         \* the last stored block
          ledger,      \* the blocks that the account rows contain
          validators,  \* the rows of the validator table
          rows,        \* the checkpoint table: block and finalized flag per epoch
          proposals,   \* SlashingEngine.proposals
          slashed,     \* SlashingEngine.slashed
          engine,      \* ConsensusEngine.validators, slashed ones too
          registry,    \* list_active(): the validators in memory, without the slashed
          joining,     \* add_validator calls before _sync_finality_validator_count
          finality,    \* FinalityEngine
          accepted,    \* history: the blocks committed since the start
          recast,      \* history: checkpoints whose block was committed again
          restarted    \* history: the process was restarted

stored  == <<tip, ledger, validators, rows>>
members == <<engine, registry, joining>>
history == <<accepted, recast, restarted>>
vars == <<stored, proposals, slashed, members, finality, history>>

Active == {a \in Addresses : validators[a] = "active"}

-----------------------------------------------------------------------------
(* FinalityEngine *)

Epoch(b) == Height[b] \div EpochLength

Epochs == {Epoch(b) : b \in Blocks}

\* __init__ and _sync_finality_validator_count
NewFinality(voters) ==
  [checkpoints |-> [e \in Epochs |-> None], justified |-> {}, final |-> {},
   epoch |-> 0, voters |-> voters]

\* create_checkpoint: the first block of an epoch that is processed stays.
Checkpointed(f, b) ==
  IF f.checkpoints[Epoch(b)] = None
  THEN [f EXCEPT !.checkpoints[Epoch(b)] = b] ELSE f

\* add_attestation by the proposer: a block other than the checkpoint is
\* refused, so a checkpoint has one vote, of its own proposer.
Attested(f, b) ==
  IF f.checkpoints[Epoch(b)] = b /\ 3 >= 2 * Cardinality(f.voters)
  THEN [f EXCEPT !.justified = @ \cup {Epoch(b)}] ELSE f

\* finalize_checkpoint for every epoch since the last block's.
Finalize(f, b) ==
  [f EXCEPT !.final = @ \cup {e \in f.epoch .. Epoch(b) :
                                {e - 1, e} \subseteq f.justified},
            !.epoch = Epoch(b)]

\* process_block
ProcessBlock(f, b) == Finalize(Attested(Checkpointed(f, b), b), b)

\* save_checkpoint: a row keeps the block it was inserted with.
SaveCheckpoint(f, b) ==
  [rows EXCEPT ![Epoch(b)] =
     [block |-> IF @.block = None THEN b ELSE @.block, final |-> Epoch(b) \in f.final]]

\* get_finalized_floor_height: 0 without a finalized checkpoint.
AboveFloor(h) == \A e \in finality.final : h >= Height[finality.checkpoints[e]]

-----------------------------------------------------------------------------
(* add_block, for blocks of peers and of the local miner *)

\* _verify_block_proposer
ProposerAllowed(b) ==
  \/ Miner[b] \in Exempt
  \/ /\ Miner[b] \notin slashed
     /\ Cardinality(Active) > 1 => Fold[Miner[b]] \in Active \cup {Fold[v] : v \in Own}

\* Mutant: any block of the chain is taken for the parent.
ReachesRecordStale(b) ==
  /\ b \notin Ancestors[tip] /\ Parent[b] \in Ancestors[tip] /\ ProposerAllowed(b)
  /\ b \in Executes /\ ledger = Ancestors[tip]

\* The checks before the batch is opened, then the execution in it: a root
\* other than the block's ends it.
ReachesRecord(b) ==
  /\ Parent[b] = tip /\ ProposerAllowed(b)
  /\ b \in Executes /\ ledger = Ancestors[tip]

\* Mutant: proposals are compared by block.
ProposedSame(b) == b \in accepted

\* record_proposal asks for the name and the height, not for the block.
Proposed(b) == <<Height[b], Miner[b]>> \in proposals

\* It is not called for an exempt name, at whatever height.
RecordProposal(b) ==
  proposals' = proposals \cup {<<Height[b], v>> : v \in {Miner[b]} \ Exempt}

\* The batch is written, then _on_new_block runs.
Commit(b) ==
  LET f == ProcessBlock(finality, b)
  IN /\ ReachesRecord(b) /\ ~Proposed(b)
     /\ RecordProposal(b)
     /\ tip' = b /\ ledger' = ledger \cup {b}
     /\ finality' = f /\ rows' = SaveCheckpoint(f, b)
     /\ accepted' = accepted \cup {b}
     /\ recast' = recast \cup ({b} \cap {finality.checkpoints[Epoch(b)]})
     /\ UNCHANGED <<validators, slashed, members, restarted>>

\* Mutant: the account rows are written before the block fails.
CommitFailsDirty(b) ==
  /\ ReachesRecord(b) /\ ~Proposed(b)
  /\ RecordProposal(b)
  /\ ledger' = ledger \cup {b}
  /\ UNCHANGED <<tip, validators, rows, slashed, members, finality, history>>

\* The store refuses the batch: nothing is written, the proposal stays recorded.
CommitFails(b) ==
  /\ ReachesRecord(b) /\ ~Proposed(b)
  /\ RecordProposal(b)
  /\ UNCHANGED <<stored, slashed, members, finality, history>>

\* record_proposal slashes and add_block raises.  The slash callback has put the
\* validator's row into the batch that is now dropped.
DoubleProposal(b) ==
  /\ ReachesRecord(b) /\ Proposed(b)
  /\ slashed' = slashed \cup {Miner[b]}
  /\ registry' = registry \ {Miner[b]}
  /\ UNCHANGED <<stored, proposals, engine, joining, finality, history>>

-----------------------------------------------------------------------------
(* Reorganisation, slashing for votes, restart *)

\* Mutant: the floor is one block too low.
ReorgAllowedBelow(a) == AboveFloor(Height[a] + 1)

ReorgAllowed(a) == AboveFloor(Height[a])

\* reorg_to_ancestor, in one batch: truncate, reset the accounts, replay.
ReorgToAncestor(a) ==
  /\ a \in Ancestors[tip] /\ ReorgAllowed(a)
  /\ tip' = a /\ ledger' = Ancestors[a]
  /\ UNCHANGED <<validators, rows, proposals, slashed, members, finality, history>>

\* slash_validator of the adapter: the registry by name, the row by address.
SlashRow(v) ==
  /\ registry' = registry \ {v}
  /\ validators' =
       [validators EXCEPT ![Fold[v]] = IF @ = "absent" THEN @ ELSE "slashed"]

\* attest: record_vote slashes.
DoubleVote(v) ==
  /\ v \notin slashed /\ SlashRow(v)
  /\ slashed' = slashed \cup {v}
  /\ UNCHANGED <<tip, ledger, rows, proposals, engine, joining, finality, history>>

\* mark_slashed, by the round state machine: SlashingEngine does not learn of it.
MarkSlashed(v) ==
  /\ v \in registry /\ SlashRow(v)
  /\ UNCHANGED <<tip, ledger, rows, proposals, slashed, engine, joining, finality,
                 history>>

\* add_validator, for a name that the engine does not know: save_validator
\* overwrites the row of its address, also a slashed one.
AddValidator(v) ==
  /\ v \notin engine
  /\ engine' = engine \cup {v} /\ registry' = registry \cup {v}
  /\ joining' = joining \cup {v}
  /\ validators' = [validators EXCEPT ![Fold[v]] = "active"]
  /\ UNCHANGED <<tip, ledger, rows, proposals, slashed, finality, history>>

\* The end of the call, _sync_finality_validator_count: of the registry, without
\* one of the rows, without these of the engine.
CountValidators(v) ==
  /\ v \in joining /\ joining' = joining \ {v}
  /\ finality' = [finality EXCEPT !.voters = IF registry # {} THEN registry
                                            ELSE IF Active # {} THEN Active ELSE engine]
  /\ UNCHANGED <<stored, proposals, slashed, engine, registry, history>>

\* The memory of a new process.  The active rows are loaded; then the node adds
\* itself under those of its names (op) whose address is not active, one at least
\* when no row is.
Boot ==
  /\ \E op \in SUBSET Own :
       LET new == {v \in op : Fold[v] \notin Active}
       IN /\ Active = {} => op # {}
          /\ validators' = [a \in Addresses |-> IF \E v \in new : Fold[v] = a
                                                THEN "active" ELSE validators[a]]
          /\ registry' = Active \cup new
  /\ engine' = registry' /\ joining' = {} /\ finality' = NewFinality(registry')
  /\ proposals' = {} /\ slashed' = {}
  /\ accepted' = {} /\ recast' = {} /\ restarted' = TRUE
  /\ UNCHANGED rows

\* ensure_state_at_tip replays a drifted state.
Restart == Boot /\ tip' = tip /\ ledger' = Ancestors[tip]

\* The process ends between the batch and _on_new_block.
CrashAfterCommit(b) ==
  /\ ReachesRecord(b) /\ ~Proposed(b)
  /\ Boot /\ tip' = b /\ ledger' = Ancestors[b]

-----------------------------------------------------------------------------

Init ==
  /\ tip = Genesis /\ ledger = {Genesis}
  /\ validators \in [Addresses -> {"absent", "active"}] /\ Active # {}
  /\ rows = [e \in Epochs |-> [block |-> None, final |-> FALSE]]
  /\ proposals = {} /\ slashed = {}
  /\ engine = Active /\ registry = Active /\ joining = {}
  /\ finality = NewFinality(Active)
  /\ accepted = {} /\ recast = {} /\ restarted = FALSE

AddBlock(b) == Commit(b) \/ CommitFails(b) \/ DoubleProposal(b) \/ CrashAfterCommit(b)

Next ==
  \/ \E b \in Blocks : AddBlock(b) \/ ReorgToAncestor(b)
  \/ \E v \in Offenders : DoubleVote(v) \/ MarkSlashed(v)
  \/ \E v \in Members : AddValidator(v) \/ CountValidators(v)
  \/ Restart

Spec == Init /\ [][Next]_vars

-----------------------------------------------------------------------------
(* Properties *)

TypeOK ==
  /\ tip \in Blocks /\ ledger \subseteq Blocks
  /\ validators \in [Addresses -> {"absent", "active", "slashed"}]
  /\ engine \subseteq Names /\ registry \subseteq engine /\ joining \subseteq engine
  /\ slashed \subseteq Names
  /\ rows \in [Epochs -> [block : Blocks \cup {None}, final : BOOLEAN]]
  /\ proposals \subseteq {<<Height[b], Miner[b]>> : b \in Blocks}
  /\ finality \in [checkpoints : [Epochs -> Blocks \cup {None}],
                   justified : SUBSET Epochs, final : SUBSET Epochs,
                   epoch : Epochs, voters : SUBSET Names]
  /\ accepted \subseteq Blocks /\ recast \subseteq Blocks /\ restarted \in BOOLEAN

\* The account rows are those of the stored chain, whichever of the batch, the
\* proposal record and the process failed and however often the chain was rolled
\* back (blockchain.py:746-878, 1112-1194).
StateMatchesChain == ledger = Ancestors[tip]

\* Of one recorded name and one height a process never commits two blocks, also
\* when a rollback made room for the second, and no checkpoint of such a name a
\* second time (blockchain.py:839-841).  Nothing is promised of exempt names, nor
\* across the spellings of one address.
NoEquivocationAccepted ==
  /\ \A b, c \in accepted : Height[b] = Height[c] /\ Miner[b] = Miner[c] =>
                             b = c \/ Miner[b] \in Exempt
  /\ \A b \in recast : Miner[b] \in Exempt

\* Until the first restart the chain keeps every finalized checkpoint, in memory
\* and in the table, although a checkpoint is never moved when its block is
\* rolled back (finality_engine.py:48-53, blockchain.py:1114-1123).  It ends when
\* the block of a checkpoint, of an exempt proposer, is committed again: the
\* quorum is then taken anew, and a later epoch may become final with a block
\* that is no longer on the chain.
FinalizedKept ==
  ~restarted /\ recast = {} =>
    /\ \A e \in finality.final : finality.checkpoints[e] \in Ancestors[tip]
    /\ \A e \in Epochs : rows[e].final => rows[e].block \in Ancestors[tip]

\* What is final to this process: a restart gives it up, and so does a checkpoint
\* that is committed again.
FinalBlocks ==
  IF restarted \/ recast # {} THEN {}
  ELSE {finality.checkpoints[e] : e \in finality.final}

LedgerOf == INSTANCE Ledger WITH chain <- ledger, final <- FinalBlocks

\* The promise of the store, with the account rows as the chain and the
\* checkpoints finalized before a restart as final: whatever fails, a step adds
\* one child of the head, cuts the chain back to a block above all that is final,
\* or gives finality up (blockchain.py:746-878, 1112-1219).
ImplementsLedger == LedgerOf!LedgerSpec

\* CHANGELOG.md:2776 "reorg_to_ancestor() refuses rollback below finalized
\* checkpoint": no block that the checkpoint table calls finalized is rolled back.
FinalizedStays ==
  \A e \in Epochs : rows[e].final => rows[e].block \in Ancestors[tip]

=============================================================================
