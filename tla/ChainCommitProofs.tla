-------------------------- MODULE ChainCommitProofs --------------------------
(***************************************************************************)
(* What holds of Blockchain for every block tree, every set of validators  *)
(* and every interleaving of commits, failures, reorganisations and        *)
(* restarts.                                                               *)
(***************************************************************************)
EXTENDS ChainCommit, TLAPS

(* Types *)

FinalityType ==
  [checkpoints : [Epochs -> Blocks \cup {None}], justified : SUBSET Epochs,
   final : SUBSET Epochs, epoch : Epochs, voters : SUBSET Names]

FirstEpoch == 1 \div EpochLength

\* The epoch of a block is its parent's or the next one.
LEMMA EpochFacts ==
  /\ 0 \in Epochs /\ Epochs \subseteq Nat /\ FirstEpoch \in Nat
  /\ \A b \in Blocks : Epoch(b) \in Epochs
  /\ \A b \in Blocks : Parent[b] \in Blocks =>
       /\ Epoch(b) \in {Epoch(Parent[b]), Epoch(Parent[b]) + 1}
       /\ Epoch(b) >= FirstEpoch
       /\ Parent[b] = Genesis => Epoch(b) = FirstEpoch
<1>1. EpochLength \in Nat /\ EpochLength > 0
  BY ChainAssumption
<1>2. ASSUME NEW n \in Nat, NEW m \in Nat, m >= n
      PROVE  n \div EpochLength \in Nat /\ m \div EpochLength >= n \div EpochLength
  BY <1>1, <1>2
<1>3. ASSUME NEW n \in Nat PROVE (n + 1) \div EpochLength <= n \div EpochLength + 1
  BY <1>1
<1>4. 0 \div EpochLength = 0
  BY <1>1
<1>5. \A b \in Blocks : Epoch(b) \in Nat /\ Epoch(b) \in Epochs
  <2> TAKE b \in Blocks
  <2>1. Height[b] \in Nat
    BY TreeAssumption
  <2>2. Epoch(b) \in Nat
    BY <2>1, <1>1 DEF Epoch
  <2> QED BY <2>2 DEF Epochs
<1>6. 0 \in Epochs
  BY <1>4, ChainAssumption DEF Epochs, Epoch
<1>7. ASSUME NEW b \in Blocks, Parent[b] \in Blocks
      PROVE  /\ Epoch(b) \in {Epoch(Parent[b]), Epoch(Parent[b]) + 1}
             /\ Epoch(b) >= FirstEpoch
             /\ Parent[b] = Genesis => Epoch(b) = FirstEpoch
  <2>1. /\ Height[b] = Height[Parent[b]] + 1
        /\ Height[Parent[b]] \in Nat /\ Height[b] \in Nat
    BY <1>7, TreeAssumption
  <2>2. Epoch(b) >= Epoch(Parent[b]) /\ Epoch(b) <= Epoch(Parent[b]) + 1
    BY <2>1, <1>2, <1>3 DEF Epoch
  <2>3. Epoch(b) >= FirstEpoch
    BY <2>1, <1>2 DEF Epoch, FirstEpoch
  <2>4. Parent[b] = Genesis => Epoch(b) = FirstEpoch
    BY <2>1, ChainAssumption DEF Epoch, FirstEpoch
  <2> QED BY <2>2, <2>3, <2>4, <1>5, <1>7
<1>8. FirstEpoch \in Nat
  BY <1>2 DEF FirstEpoch
<1>9. Epochs \subseteq Nat
  BY <1>5 DEF Epochs
<1> QED BY <1>5, <1>6, <1>7, <1>8, <1>9

LEMMA ProcessTyped ==
  ASSUME NEW f \in FinalityType, NEW b \in Blocks
  PROVE  ProcessBlock(f, b) \in FinalityType
<1> DEFINE g == Checkpointed(f, b)
           h == Attested(g, b)
<1>1. Epoch(b) \in Epochs
  BY EpochFacts
<1>2. g \in FinalityType
  BY <1>1 DEF Checkpointed, FinalityType
<1> HIDE DEF g
<1>3. h \in FinalityType
  BY <1>1, <1>2 DEF Attested, FinalityType
<1>4. ProcessBlock(f, b) = Finalize(h, b)
  BY DEF ProcessBlock, g
<1> HIDE DEF h
<1> DEFINE fresh == {e \in h.epoch .. Epoch(b) : {e - 1, e} \subseteq h.justified}
<1>5. fresh \subseteq Epochs
  BY <1>3 DEF FinalityType
<1>6. Finalize(h, b) = [h EXCEPT !.final = h.final \cup fresh, !.epoch = Epoch(b)]
  BY DEF Finalize
<1> HIDE DEF fresh
<1>7. Finalize(h, b) \in FinalityType
  BY <1>1, <1>3, <1>5, <1>6 DEF FinalityType
<1> QED BY <1>4, <1>7

RowType == [block : Blocks \cup {None}, final : BOOLEAN]

LEMMA RowsTyped ==
  ASSUME NEW f \in FinalityType, NEW b \in Blocks, rows \in [Epochs -> RowType]
  PROVE  SaveCheckpoint(f, b) \in [Epochs -> RowType]
<1> DEFINE row == [block |-> IF rows[Epoch(b)].block = None THEN b ELSE rows[Epoch(b)].block,
                   final |-> Epoch(b) \in f.final]
<1>1. Epoch(b) \in Epochs /\ rows[Epoch(b)] \in RowType
  BY EpochFacts
<1>2. (Epoch(b) \in f.final) \in BOOLEAN
  OBVIOUS
<1>3. row \in RowType
  BY <1>1, <1>2 DEF RowType
<1>4. SaveCheckpoint(f, b) = [rows EXCEPT ![Epoch(b)] = row]
  BY DEF SaveCheckpoint
<1> HIDE DEF row
<1> QED BY <1>1, <1>3, <1>4

\* Rows and registrations carry names.
LEMMA ActiveNames ==
  /\ Addresses \subseteq Names /\ Active \subseteq Names
  /\ Active' \subseteq Names
BY ChainAssumption DEF Addresses, Active

\* The validator rows and the memory of a new process.
LEMMA BootTyped ==
  ASSUME TypeOK, Boot
  PROVE  /\ validators' \in [Addresses -> {"absent", "active", "slashed"}]
         /\ engine' \subseteq Names /\ registry' = engine' /\ joining' = {}
         /\ slashed' = {} /\ rows' = rows /\ proposals' = {}
         /\ finality' \in FinalityType /\ accepted' = {} /\ recast' = {}
<1>1. PICK op \in SUBSET Own :
        LET new == {v \in op : Fold[v] \notin Active}
        IN /\ validators' = [a \in Addresses |-> IF \E v \in new : Fold[v] = a
                                                 THEN "active" ELSE validators[a]]
           /\ registry' = Active \cup new
  BY DEF Boot
<1>2. validators' \in [Addresses -> {"absent", "active", "slashed"}]
  BY <1>1 DEF TypeOK
<1>3. registry' \subseteq Names
  BY <1>1, ActiveNames, ChainAssumption
<1>4. finality' \in FinalityType
  BY <1>3, EpochFacts DEF Boot, NewFinality, FinalityType
<1> QED BY <1>2, <1>3, <1>4 DEF Boot

LEMMA TypeNext == TypeOK /\ [Next]_vars => TypeOK'
<1> SUFFICES ASSUME TypeOK, [Next]_vars PROVE TypeOK'
  OBVIOUS
<1>0. /\ finality \in FinalityType /\ rows \in [Epochs -> RowType]
      /\ restarted \in BOOLEAN /\ Offenders \subseteq Names /\ Members \subseteq Names
      /\ Miner \in [Blocks -> Names] /\ Offenders \subseteq Members
  BY ChainAssumption DEF TypeOK, FinalityType, RowType
<1> DEFINE Sorts == {<<Height[c], Miner[c]>> : c \in Blocks}
<1>1. ASSUME NEW b \in Blocks, Commit(b) PROVE TypeOK'
  <2> DEFINE f == ProcessBlock(finality, b)
  <2>1. f \in FinalityType
    BY <1>0, ProcessTyped
  <2>2. SaveCheckpoint(f, b) \in [Epochs -> RowType]
    BY <1>0, <2>1, RowsTyped
  <2>3. finality' = f /\ rows' = SaveCheckpoint(f, b)
    BY <1>1 DEF Commit
  <2> HIDE DEF f
  <2>4. proposals' \subseteq Sorts
    BY <1>1 DEF TypeOK, Commit, RecordProposal
  <2>5. restarted' \in BOOLEAN
    BY <1>0, <1>1, Zenon DEF Commit
  <2>6. /\ tip' = b /\ ledger' = ledger \cup {b} /\ accepted' = accepted \cup {b}
        /\ recast' \subseteq recast \cup {b}
        /\ UNCHANGED <<validators, slashed, engine, registry, joining>>
    BY <1>1 DEF Commit, members
  <2> QED BY <2>1, <2>2, <2>3, <2>4, <2>5, <2>6 DEF TypeOK, FinalityType, RowType
<1>2. ASSUME NEW b \in Blocks, CommitFails(b) PROVE TypeOK'
  <2>1. proposals' \subseteq Sorts
    BY <1>2 DEF TypeOK, CommitFails, RecordProposal
  <2>2. restarted' \in BOOLEAN
    BY <1>0, <1>2, Zenon DEF CommitFails, history
  <2> QED BY <1>2, <2>1, <2>2 DEF TypeOK, CommitFails, stored, members, history
<1>3. ASSUME NEW b \in Blocks, DoubleProposal(b) PROVE TypeOK'
  <2>1. restarted' \in BOOLEAN
    BY <1>0, <1>3, Zenon DEF DoubleProposal, history
  <2>2. slashed' \subseteq Names /\ registry' \subseteq engine
    BY <1>0, <1>3 DEF DoubleProposal, TypeOK
  <2> QED BY <1>3, <2>1, <2>2 DEF TypeOK, DoubleProposal, stored, history
<1>4. ASSUME NEW b \in Blocks, Boot, tip' = b, ledger' = Ancestors[b] PROVE TypeOK'
  <2>1. restarted' \in BOOLEAN
    BY <1>4, Zenon DEF Boot
  <2>2. Ancestors[b] \subseteq Blocks
    BY AncestorsAssumption
  <2> QED BY <1>0, <1>4, <2>1, <2>2, BootTyped DEF TypeOK, FinalityType, RowType
<1>5. ASSUME NEW a \in Blocks, ReorgToAncestor(a) PROVE TypeOK'
  <2>1. restarted' \in BOOLEAN
    BY <1>0, <1>5, Zenon DEF ReorgToAncestor, history
  <2>2. Ancestors[a] \subseteq Blocks
    BY AncestorsAssumption
  <2> QED BY <1>5, <2>1, <2>2 DEF TypeOK, ReorgToAncestor, members, history
<1>6. ASSUME NEW u \in Offenders, SlashRow(u)
      PROVE  /\ registry' \subseteq engine
             /\ validators' \in [Addresses -> {"absent", "active", "slashed"}]
  BY <1>6 DEF SlashRow, TypeOK
<1>7. ASSUME NEW u \in Offenders, DoubleVote(u) PROVE TypeOK'
  <2>1. restarted' \in BOOLEAN
    BY <1>0, <1>7, Zenon DEF DoubleVote, history
  <2>2. slashed' \subseteq Names
    BY <1>0, <1>7 DEF DoubleVote, TypeOK
  <2> QED BY <1>6, <1>7, <2>1, <2>2 DEF TypeOK, DoubleVote, history
<1>8. ASSUME NEW u \in Offenders, MarkSlashed(u) PROVE TypeOK'
  <2>1. restarted' \in BOOLEAN
    BY <1>0, <1>8, Zenon DEF MarkSlashed, history
  <2> QED BY <1>6, <1>8, <2>1 DEF TypeOK, MarkSlashed, history
<1>9. ASSUME NEW u \in Members, AddValidator(u) PROVE TypeOK'
  <2>1. restarted' \in BOOLEAN
    BY <1>0, <1>9, Zenon DEF AddValidator, history
  <2>2. /\ engine' \subseteq Names /\ registry' \subseteq engine' /\ joining' \subseteq engine'
    BY <1>0, <1>9 DEF AddValidator, TypeOK
  <2>3. validators' \in [Addresses -> {"absent", "active", "slashed"}]
    BY <1>9 DEF AddValidator, TypeOK
  <2> QED BY <1>9, <2>1, <2>2, <2>3 DEF TypeOK, AddValidator, history
<1>10. ASSUME NEW u \in Members, CountValidators(u) PROVE TypeOK'
  <2>1. restarted' \in BOOLEAN
    BY <1>0, <1>10, Zenon DEF CountValidators, history
  <2>2. finality' \in FinalityType
    BY <1>0, <1>10, ActiveNames DEF CountValidators, FinalityType, TypeOK
  <2> QED BY <1>10, <2>1, <2>2 DEF TypeOK, CountValidators, stored, history, FinalityType
<1>11. CASE UNCHANGED vars
  <2>1. restarted' \in BOOLEAN
    BY <1>0, <1>11, Zenon DEF vars, history
  <2> QED BY <1>11, <2>1 DEF TypeOK, vars, stored, members, history
<1>12. ASSUME Restart PROVE TypeOK'
  BY <1>4, <1>12 DEF Restart, TypeOK
<1>13. ASSUME NEW b \in Blocks, CrashAfterCommit(b) PROVE TypeOK'
  BY <1>4, <1>13 DEF CrashAfterCommit
<1> QED BY <1>1, <1>2, <1>3, <1>5, <1>7, <1>8, <1>9, <1>10, <1>11, <1>12, <1>13
        DEF Next, AddBlock

LEMMA TypeInit == Init => TypeOK
<1> SUFFICES ASSUME Init PROVE TypeOK
  OBVIOUS
<1>1. Active \subseteq Names
  BY ActiveNames
<1>2. finality \in FinalityType
  BY <1>1, EpochFacts DEF Init, NewFinality, FinalityType
<1>3. restarted \in BOOLEAN
  BY Zenon DEF Init
<1>4. validators \in [Addresses -> {"absent", "active", "slashed"}]
  BY DEF Init
<1>5. rows \in [Epochs -> RowType]
  BY DEF Init, RowType
<1> QED BY <1>1, <1>2, <1>3, <1>4, <1>5, ChainAssumption
        DEF Init, TypeOK, FinalityType, RowType

\* Every value stays of its kind, through failed batches, double proposals,
\* rollbacks and restarts: the registry never has a name that the engine does not
\* know, and an epoch that is finalized is the epoch of a block
\* (blockchain.py:746-878, adapter.py:251-261).
THEOREM TypeCorrect == Spec => []TypeOK
BY TypeInit, TypeNext, PTL DEF Spec

-----------------------------------------------------------------------------
(* The chain and what is recorded of it *)

\* A block that extends the tip has the tip's chain and itself as its chain.
LEMMA ChainGrows ==
  ASSUME NEW b \in Blocks, Parent[b] \in Blocks
  PROVE  Ancestors[b] = Ancestors[Parent[b]] \cup {b}
<1>1. Parent[b] # None
  BY TreeAssumption
<1> QED BY <1>1, AncestorsAssumption

\* A checkpoint is created once, and nothing finalized is forgotten
\* (finality_engine.py:48-53).
LEMMA CheckpointsAfter ==
  ASSUME NEW f \in FinalityType, NEW b \in Blocks
  PROVE  /\ ProcessBlock(f, b).checkpoints =
              [f.checkpoints EXCEPT
                 ![Epoch(b)] = IF f.checkpoints[Epoch(b)] = None THEN b ELSE @]
         /\ f.final \subseteq ProcessBlock(f, b).final
<1>1. Epoch(b) \in Epochs
  BY EpochFacts
<1> QED BY <1>1 DEF ProcessBlock, Finalize, Attested, Checkpointed, FinalityType

\* A checkpoint is a block that this process has committed.
CheckpointsAccepted(f, A) ==
  \A e \in Epochs : f.checkpoints[e] # None => f.checkpoints[e] \in A

\* What the theorems need: the stored tip with its ledger, and the record of every
\* block that a recorded name had committed since the start.
Recorded ==
  /\ TypeOK
  /\ tip \in Blocks /\ ledger = Ancestors[tip]
  /\ CheckpointsAccepted(finality, accepted)
  /\ \A b \in accepted : Miner[b] \in Exempt \/ <<Height[b], Miner[b]>> \in proposals
  /\ NoEquivocationAccepted

LEMMA RecordedInit == Init => Recorded
<1> SUFFICES ASSUME Init PROVE Recorded
  OBVIOUS
<1>1. Ancestors[Genesis] = {Genesis}
  BY ChainAssumption, AncestorsAssumption
<1>2. CheckpointsAccepted(finality, accepted)
  BY DEF Init, NewFinality, CheckpointsAccepted
<1> QED BY <1>1, <1>2, ChainAssumption, TypeInit DEF Init, Recorded, NoEquivocationAccepted

\* A new process remembers nothing.
LEMMA RecordedBoot ==
  ASSUME TypeOK', Boot, tip' \in Blocks, ledger' = Ancestors[tip']
  PROVE  Recorded'
<1>1. accepted' = {} /\ recast' = {} /\ finality' = NewFinality(registry')
  BY DEF Boot
<1>2. CheckpointsAccepted(finality', accepted')
  BY <1>1 DEF NewFinality, CheckpointsAccepted
<1> QED BY <1>1, <1>2 DEF Recorded, NoEquivocationAccepted

\* Every action of the chain keeps the ledger with the tip and records what it
\* commits.
LEMMA RecordedNext == Recorded /\ [Next]_vars => Recorded'
<1> SUFFICES ASSUME Recorded, [Next]_vars PROVE Recorded'
  OBVIOUS
<1>0. TypeOK /\ TypeOK' /\ finality \in FinalityType
  BY TypeNext DEF Recorded, TypeOK, FinalityType
<1>1. ASSUME NEW b \in Blocks, Commit(b) PROVE Recorded'
  <2>1. tip' = b /\ Parent[b] = tip /\ ledger' = ledger \cup {b}
    BY <1>1 DEF Commit, ReachesRecord
  <2>2. ledger' = Ancestors[tip']
    BY <2>1, ChainGrows DEF Recorded
  <2>3. /\ accepted' = accepted \cup {b}
        /\ recast' = recast \cup ({b} \cap {finality.checkpoints[Epoch(b)]})
        /\ proposals' = proposals \cup {<<Height[b], u>> : u \in {Miner[b]} \ Exempt}
        /\ <<Height[b], Miner[b]>> \notin proposals
        /\ finality' = ProcessBlock(finality, b)
    BY <1>1 DEF Commit, RecordProposal, Proposed
  <2>4. \A c \in accepted : Height[b] = Height[c] /\ Miner[b] = Miner[c] =>
                              Miner[b] \in Exempt
    BY <2>3 DEF Recorded
  <2>5. b \in recast' => b \in recast \/ b \in accepted
    <3>1. Epoch(b) \in Epochs /\ b # None
      BY EpochFacts, TreeAssumption
    <3> QED BY <2>3, <3>1 DEF Recorded, CheckpointsAccepted
  <2>6. NoEquivocationAccepted'
    BY <2>3, <2>4, <2>5 DEF Recorded, NoEquivocationAccepted
  <2>7. CheckpointsAccepted(finality', accepted')
    <3>1. finality'.checkpoints = [finality.checkpoints EXCEPT
            ![Epoch(b)] = IF finality.checkpoints[Epoch(b)] = None THEN b ELSE @]
      BY <1>0, <2>3, CheckpointsAfter
    <3>2. Epoch(b) \in Epochs
      BY EpochFacts
    <3> QED BY <1>0, <2>3, <3>1, <3>2 DEF Recorded, CheckpointsAccepted, FinalityType
  <2>8. \A c \in accepted' : Miner[c] \in Exempt \/ <<Height[c], Miner[c]>> \in proposals'
    BY <2>3 DEF Recorded
  <2> QED BY <1>0, <2>1, <2>2, <2>6, <2>7, <2>8 DEF Recorded
<1>2. ASSUME NEW b \in Blocks, CommitFails(b) PROVE Recorded'
  BY <1>0, <1>2 DEF CommitFails, RecordProposal, stored, history, Recorded,
              NoEquivocationAccepted, CheckpointsAccepted
<1>3. ASSUME NEW b \in Blocks, DoubleProposal(b) PROVE Recorded'
  BY <1>0, <1>3 DEF DoubleProposal, stored, history, Recorded, NoEquivocationAccepted,
                    CheckpointsAccepted
<1>4. ASSUME NEW b \in Blocks, CrashAfterCommit(b) PROVE Recorded'
  BY <1>0, <1>4, RecordedBoot DEF CrashAfterCommit
<1>5. ASSUME NEW a \in Blocks, ReorgToAncestor(a) PROVE Recorded'
  BY <1>0, <1>5 DEF ReorgToAncestor, history, Recorded, NoEquivocationAccepted,
                    CheckpointsAccepted
<1>6. ASSUME NEW u \in Names, DoubleVote(u) \/ MarkSlashed(u) \/ AddValidator(u)
      PROVE  Recorded'
  BY <1>0, <1>6 DEF DoubleVote, MarkSlashed, AddValidator, history, Recorded,
                    NoEquivocationAccepted, CheckpointsAccepted
<1>7. ASSUME NEW u \in Names, CountValidators(u) PROVE Recorded'
  <2>1. finality'.checkpoints = finality.checkpoints
    BY <1>0, <1>7 DEF CountValidators, FinalityType
  <2>2. UNCHANGED <<tip, ledger, proposals, accepted, recast>>
    BY <1>7 DEF CountValidators, stored, history
  <2> QED BY <1>0, <2>1, <2>2 DEF Recorded, NoEquivocationAccepted, CheckpointsAccepted
<1>8. ASSUME Restart PROVE Recorded'
  BY <1>0, <1>8, RecordedBoot DEF Restart, Recorded
<1>9. ASSUME UNCHANGED vars PROVE Recorded'
  BY <1>0, <1>9 DEF vars, stored, history, Recorded, NoEquivocationAccepted,
                    CheckpointsAccepted
<1>10. Offenders \subseteq Names /\ Members \subseteq Names
  BY ChainAssumption
<1> QED BY <1>1, <1>2, <1>3, <1>4, <1>5, <1>6, <1>7, <1>8, <1>9, <1>10
        DEF Next, AddBlock

LEMMA RecordedHolds == Spec => []Recorded
BY RecordedInit, RecordedNext, PTL DEF Spec

\* The account rows always are those of the stored chain: no failed batch, no
\* slash in the middle of one, no rollback and no crash separates them
\* (blockchain.py:746-878, 1112-1194).
THEOREM LedgerFollowsChain == Spec => []StateMatchesChain
<1>1. Recorded => StateMatchesChain
  BY DEF Recorded, StateMatchesChain
<1> QED BY <1>1, RecordedHolds, PTL

\* No process commits two blocks of one recorded name and one height, nor the
\* checkpoint of a recorded name twice (blockchain.py:839-841, slashing.py:102-128).
THEOREM NoEquivocation == Spec => []NoEquivocationAccepted
<1>1. Recorded => NoEquivocationAccepted
  BY DEF Recorded
<1> QED BY <1>1, RecordedHolds, PTL

-----------------------------------------------------------------------------
(* Finality while the process knows of it.  A checkpoint is never moved, so the
   proof has to show that none is created out of order: Contiguous says that the
   epochs below a checkpoint have theirs.  Then a checkpoint is finalized, if at
   all, by the commit of its own block, and the floor keeps it on the chain. *)

Contiguous(f) ==
  \A d, e \in Epochs :
    FirstEpoch <= d /\ d < e /\ f.checkpoints[e] # None => f.checkpoints[d] # None

JustifiedExist(f) == \A e \in f.justified : f.checkpoints[e] # None

FinalAtOnce(f) == \A e \in Epochs : {e - 1, e} \subseteq f.justified => e \in f.final

EpochSeen(f) == f.epoch = 0 \/ f.checkpoints[f.epoch] # None

\* Every block of the chain above genesis has been processed.
Processed(f, t) ==
  \A x \in Ancestors[t] : x # Genesis => f.checkpoints[Epoch(x)] # None

FinalOnChain(f, t) == \A e \in f.final : f.checkpoints[e] \in Ancestors[t]

InOrder(f, t) ==
  /\ f \in FinalityType
  /\ Contiguous(f) /\ JustifiedExist(f) /\ FinalAtOnce(f) /\ EpochSeen(f)
  /\ Processed(f, t) /\ FinalOnChain(f, t)

\* Processing the block that extends the chain keeps everything in order
\* (finality_engine.py:48-146).
LEMMA ProcessInOrder ==
  ASSUME NEW f, NEW b \in Blocks, Parent[b] \in Blocks, InOrder(f, Parent[b]),
         f.checkpoints[Epoch(b)] # b
  PROVE  InOrder(ProcessBlock(f, b), b)
<1> DEFINE E == Epoch(b)
           t == Parent[b]
           g == ProcessBlock(f, b)
           quorum == 3 >= 2 * Cardinality(f.voters)
<1>1. /\ f \in FinalityType /\ Contiguous(f) /\ JustifiedExist(f) /\ FinalAtOnce(f)
      /\ EpochSeen(f) /\ Processed(f, t) /\ FinalOnChain(f, t)
  BY DEF InOrder
<1>2. /\ E \in Epochs /\ 0 \in Epochs /\ Epochs \subseteq Nat /\ FirstEpoch \in Nat
      /\ E \in {Epoch(t), Epoch(t) + 1} /\ E >= FirstEpoch
      /\ t = Genesis => E = FirstEpoch
      /\ Epoch(t) \in Epochs
  BY EpochFacts
<1>3. Ancestors[b] = Ancestors[t] \cup {b} /\ t \in Ancestors[t]
  BY ChainGrows, AncestorsAssumption
<1>4. CASE f.checkpoints[E] # None
  <2>1. Checkpointed(f, b) = f
    BY <1>4 DEF Checkpointed
  <2>2. Attested(f, b) = f
    BY DEF Attested
  <2>3. {e \in f.epoch .. E : {e - 1, e} \subseteq f.justified} \subseteq f.final
    BY <1>1, <1>2 DEF FinalAtOnce, FinalityType
  <2>4. /\ g.checkpoints = f.checkpoints /\ g.justified = f.justified
        /\ g.final = f.final /\ g.epoch = E /\ g.voters = f.voters
        /\ g \in FinalityType
    <3> DEFINE S == {e \in f.epoch .. E : {e - 1, e} \subseteq f.justified}
    <3>1. g = [f EXCEPT !.final = f.final \cup S, !.epoch = E]
      BY <1>1, <2>1, <2>2 DEF ProcessBlock, Finalize
    <3>2. f.final \cup S = f.final
      BY <2>3
    <3>3. g = [f EXCEPT !.final = f.final, !.epoch = E]
      BY <3>1, <3>2
    <3> QED BY <1>1, <1>2, <3>3 DEF FinalityType
  <2> HIDE DEF g
  <2>5. Contiguous(g) /\ JustifiedExist(g) /\ FinalAtOnce(g)
    BY <1>1, <2>4 DEF Contiguous, JustifiedExist, FinalAtOnce
  <2>6. EpochSeen(g)
    BY <1>4, <2>4 DEF EpochSeen
  <2>7. Processed(g, b) /\ FinalOnChain(g, b)
    BY <1>1, <1>3, <1>4, <2>4 DEF Processed, FinalOnChain
  <2> QED BY <2>4, <2>5, <2>6, <2>7 DEF InOrder, g
<1>5. CASE f.checkpoints[E] = None
  <2>1. /\ g.checkpoints = [f.checkpoints EXCEPT ![E] = b]
        /\ g.justified = f.justified \cup (IF quorum THEN {E} ELSE {})
        /\ g.final = f.final \cup {e \in f.epoch .. E : {e - 1, e} \subseteq g.justified}
        /\ g.epoch = E /\ g.voters = f.voters
        /\ g.justified \subseteq Epochs
    BY <1>1, <1>2, <1>5 DEF ProcessBlock, Finalize, Attested, Checkpointed, FinalityType
  <2>2. g \in FinalityType
    BY <1>1, <1>2, <1>5 DEF ProcessBlock, Finalize, Attested, Checkpointed, FinalityType
  <2> HIDE DEF g
  <2>3. b # None /\ g.checkpoints[E] = b
    BY <1>1, <1>2, <2>1, TreeAssumption DEF FinalityType
  <2>4. \A e \in Epochs : e # E => g.checkpoints[e] = f.checkpoints[e]
    BY <1>1, <2>1 DEF FinalityType
  \* The tip is the last block of the epoch before, or genesis.
  <2>5. \A d \in Epochs : FirstEpoch <= d /\ d < E => f.checkpoints[d] # None
    <3>1. CASE t = Genesis
      BY <1>2, <3>1
    <3>2. CASE t # Genesis
      <4>1. f.checkpoints[Epoch(t)] # None
        BY <1>1, <1>3, <3>2 DEF Processed
      <4>2. E = Epoch(t) + 1
        BY <1>2, <1>5, <4>1
      <4> SUFFICES ASSUME NEW d \in Epochs, FirstEpoch <= d, d < E
                   PROVE  f.checkpoints[d] # None
        OBVIOUS
      <4>3. d \in Nat /\ Epoch(t) \in Nat
        BY <1>2
      <4>4. d = Epoch(t) \/ d < Epoch(t)
        BY <4>2, <4>3
      <4> QED BY <1>1, <1>2, <4>1, <4>4 DEF Contiguous
    <3> QED BY <3>1, <3>2
  \* No later epoch has a checkpoint yet.
  <2>6. \A e \in Epochs : e > E => f.checkpoints[e] = None
    BY <1>1, <1>2, <1>5 DEF Contiguous
  <2>7. f.epoch \in Nat /\ f.epoch <= E
    <3>1. f.epoch \in Epochs /\ f.epoch \in Nat /\ E \in Nat
      BY <1>1, <1>2 DEF FinalityType
    <3>2. f.epoch = 0 \/ ~(f.epoch > E)
      BY <1>1, <2>6, <3>1 DEF EpochSeen
    <3> QED BY <3>1, <3>2
  <2>8. Contiguous(g)
    BY <1>1, <1>2, <2>3, <2>4, <2>5, <2>6 DEF Contiguous
  <2>9. JustifiedExist(g)
    BY <1>1, <1>2, <1>5, <2>1, <2>3, <2>4 DEF JustifiedExist
  \* What is finalized now was final before, or is the block itself.
  <2>10. \A e \in Epochs : {e - 1, e} \subseteq g.justified => e \in f.final \/ e = E
    <3> SUFFICES ASSUME NEW e \in Epochs, {e - 1, e} \subseteq g.justified, e # E
                 PROVE  e \in f.final
      OBVIOUS
    <3>1. e \in f.justified
      BY <2>1
    <3>2. f.checkpoints[e] # None
      BY <1>1, <3>1 DEF JustifiedExist
    <3>3. e - 1 # E
      BY <1>2, <2>6, <3>2
    <3>4. e - 1 \in f.justified
      BY <2>1, <3>3
    <3> QED BY <1>1, <3>1, <3>4 DEF FinalAtOnce
  <2>11. FinalAtOnce(g)
    BY <1>2, <2>1, <2>7, <2>10 DEF FinalAtOnce
  <2>12. FinalOnChain(g, b)
    <3> SUFFICES ASSUME NEW e \in g.final PROVE g.checkpoints[e] \in Ancestors[b]
      BY DEF FinalOnChain
    <3>1. e \in Epochs
      BY <2>2 DEF FinalityType
    <3>2. e \in f.final \/ e = E
      BY <2>1, <2>10, <3>1
    <3>3. CASE e = E
      BY <1>3, <2>3, <3>3
    <3>4. CASE e # E
      BY <1>1, <1>3, <2>4, <3>1, <3>2, <3>4 DEF FinalOnChain
    <3> QED BY <3>3, <3>4
  <2>13. EpochSeen(g)
    BY <2>1, <2>3 DEF EpochSeen
  <2>14. Processed(g, b)
    <3> SUFFICES ASSUME NEW x \in Ancestors[b], x # Genesis
                 PROVE  g.checkpoints[Epoch(x)] # None
      BY DEF Processed
    <3>1. x \in Blocks /\ Epoch(x) \in Epochs
      BY AncestorsAssumption, EpochFacts
    <3>2. CASE Epoch(x) = E
      BY <2>3, <3>2
    <3>3. CASE Epoch(x) # E
      BY <1>1, <1>3, <2>4, <3>1, <3>3 DEF Processed
    <3> QED BY <3>2, <3>3
  <2> QED BY <2>2, <2>8, <2>9, <2>11, <2>12, <2>13, <2>14 DEF InOrder, g
<1> QED BY <1>4, <1>5

\* The checkpoint table has the engine's checkpoints, and its flags lag behind.
RowsFollow(f, r) ==
  /\ r \in [Epochs -> [block : Blocks \cup {None}, final : BOOLEAN]]
  /\ \A e \in Epochs : r[e].block = f.checkpoints[e] /\ (r[e].final => e \in f.final)

\* No restart and no second commit of a checkpoint has given finality up.
FinalityKnown == ~restarted /\ recast = {}

FinalityInOrder ==
  FinalityKnown => InOrder(finality, tip) /\ RowsFollow(finality, rows)

LEMMA FinalityInit == Init => FinalityInOrder
<1> SUFFICES ASSUME Init PROVE FinalityInOrder
  OBVIOUS
<1> DEFINE f == NewFinality(Active)
<1>1. Ancestors[Genesis] = {Genesis} /\ Genesis \in Blocks
  BY ChainAssumption, AncestorsAssumption
<1>2. Active \subseteq Names /\ registry = Active
  BY ActiveNames DEF Init
<1>3. /\ f.checkpoints = [e \in Epochs |-> None] /\ f.justified = {} /\ f.final = {}
      /\ f.epoch = 0
  BY DEF NewFinality
<1>4. f \in FinalityType
  BY <1>2, EpochFacts DEF NewFinality, FinalityType
<1> HIDE DEF f
<1>5. Contiguous(f) /\ JustifiedExist(f) /\ FinalAtOnce(f)
  BY <1>3 DEF Contiguous, JustifiedExist, FinalAtOnce
<1>6. EpochSeen(f) /\ Processed(f, Genesis) /\ FinalOnChain(f, Genesis)
  BY <1>1, <1>3 DEF EpochSeen, Processed, FinalOnChain
<1>7. RowsFollow(f, rows)
  BY <1>3 DEF Init, RowsFollow
<1>8. finality = f /\ tip = Genesis
  BY DEF Init, f
<1> QED BY <1>1, <1>2, <1>4, <1>5, <1>6, <1>7, <1>8 DEF FinalityInOrder, InOrder

\* A rollback to a block at or above the floor keeps every finalized checkpoint
\* (blockchain.py:1114-1123).
LEMMA RollbackInOrder ==
  ASSUME NEW f, NEW t \in Blocks, NEW a \in Ancestors[t], InOrder(f, t),
         \A e \in f.final : Height[a] >= Height[f.checkpoints[e]]
  PROVE  InOrder(f, a)
<1>1. a \in Blocks /\ Ancestors[a] \subseteq Ancestors[t]
  BY AncestorsAssumption
<1>2. Processed(f, a)
  BY <1>1 DEF InOrder, Processed
<1>3. FinalOnChain(f, a)
  <2> SUFFICES ASSUME NEW e \in f.final PROVE f.checkpoints[e] \in Ancestors[a]
    BY DEF FinalOnChain
  <2>1. f.checkpoints[e] \in Ancestors[t]
    BY DEF InOrder, FinalOnChain
  <2>2. Height[f.checkpoints[e]] <= Height[a]
    BY <1>1, <2>1, TreeAssumption, AncestorsAssumption
  <2> QED BY <2>1, <2>2, AncestorsAssumption
<1> QED BY <1>2, <1>3 DEF InOrder

\* save_checkpoint writes the epoch's row as the engine has it
\* (adapter.py:536-564).
LEMMA RowsSaved ==
  ASSUME NEW b \in Blocks, finality \in FinalityType, RowsFollow(finality, rows),
         ProcessBlock(finality, b) \in FinalityType
  PROVE  RowsFollow(ProcessBlock(finality, b), SaveCheckpoint(ProcessBlock(finality, b), b))
<1> DEFINE E == Epoch(b)
           f == finality
           g == ProcessBlock(f, b)
           r == SaveCheckpoint(g, b)
<1>1. E \in Epochs /\ E \in Nat
  BY EpochFacts
<1>2. /\ g.checkpoints = [f.checkpoints EXCEPT
                            ![E] = IF f.checkpoints[E] = None THEN b ELSE @]
      /\ f.final \subseteq g.final
  BY CheckpointsAfter
<1> HIDE DEF g
<1>3. /\ r \in [Epochs -> [block : Blocks \cup {None}, final : BOOLEAN]]
      /\ r[E].block = (IF rows[E].block = None THEN b ELSE rows[E].block)
      /\ r[E].final <=> E \in g.final
      /\ \A e \in Epochs : e # E => r[e] = rows[e]
  <2> DEFINE kept == IF rows[E].block = None THEN b ELSE rows[E].block
             fin == E \in g.final
             row == [block |-> kept, final |-> fin]
  <2>1. r = [rows EXCEPT ![E] = row]
    BY DEF SaveCheckpoint
  <2>2. rows \in [Epochs -> [block : Blocks \cup {None}, final : BOOLEAN]]
    BY DEF RowsFollow
  <2>3. kept \in Blocks \cup {None}
    BY <1>1, <2>2
  <2>4. fin \in BOOLEAN
    OBVIOUS
  <2> HIDE DEF kept, fin
  <2>5. row \in [block : Blocks \cup {None}, final : BOOLEAN]
    BY <2>3, <2>4
  <2>6. row.block = kept /\ row.final = fin
    OBVIOUS
  <2> HIDE DEF row, r
  <2>7. /\ r \in [Epochs -> [block : Blocks \cup {None}, final : BOOLEAN]]
        /\ r[E] = row /\ \A e \in Epochs : e # E => r[e] = rows[e]
    BY <1>1, <2>1, <2>2, <2>5
  <2>8. r[E].block = kept /\ (r[E].final <=> fin)
    BY <2>6, <2>7
  <2> QED BY <2>7, <2>8 DEF kept, fin
<1> HIDE DEF r
<1>4. r[E].block = g.checkpoints[E]
  BY <1>1, <1>2, <1>3 DEF RowsFollow, FinalityType
<1>5. \A e \in Epochs : e # E => r[e].block = g.checkpoints[e]
  BY <1>1, <1>2, <1>3 DEF RowsFollow, FinalityType
<1>6. \A e \in Epochs : r[e].final => e \in g.final
  BY <1>2, <1>3 DEF RowsFollow
<1>7. RowsFollow(g, r)
  BY <1>3, <1>4, <1>5, <1>6 DEF RowsFollow
<1> QED BY <1>7 DEF r, g

LEMMA FinalityNext == Recorded /\ FinalityInOrder /\ [Next]_vars => FinalityInOrder'
<1> SUFFICES ASSUME Recorded, FinalityInOrder, [Next]_vars, FinalityKnown'
             PROVE  InOrder(finality', tip') /\ RowsFollow(finality', rows')
  BY DEF FinalityInOrder
<1>0. tip \in Blocks
  BY DEF Recorded
<1>1. ASSUME NEW b \in Blocks, Commit(b)
      PROVE  InOrder(finality', tip') /\ RowsFollow(finality', rows')
  <2> DEFINE g == ProcessBlock(finality, b)
  <2>1. /\ Parent[b] = tip /\ tip' = b
        /\ finality' = g /\ rows' = SaveCheckpoint(g, b)
        /\ recast' = recast \cup ({b} \cap {finality.checkpoints[Epoch(b)]})
    BY <1>1 DEF Commit, ReachesRecord
  <2>2. restarted' = restarted
    BY <1>1 DEF Commit
  <2>3. recast' = {}
    BY DEF FinalityKnown
  \* The block is not committed again, if it is a checkpoint.
  <2>4. finality.checkpoints[Epoch(b)] # b /\ recast = {}
    BY <2>1, <2>3
  <2>5. InOrder(finality, tip) /\ RowsFollow(finality, rows)
    BY <2>2, <2>4 DEF FinalityKnown, FinalityInOrder
  <2>6. InOrder(g, b)
    BY <1>0, <2>1, <2>4, <2>5, ProcessInOrder
  <2>7. RowsFollow(g, SaveCheckpoint(g, b))
    BY <2>5, <2>6, RowsSaved DEF InOrder
  <2> HIDE DEF g
  <2> QED BY <2>1, <2>6, <2>7
<1>2. ASSUME NEW b \in Blocks, CommitFails(b) \/ DoubleProposal(b)
      PROVE  InOrder(finality', tip') /\ RowsFollow(finality', rows')
  BY <1>2 DEF CommitFails, DoubleProposal, stored, history, FinalityInOrder, FinalityKnown
<1>3. ASSUME Boot PROVE FALSE
  BY <1>3 DEF Boot, FinalityKnown
<1>4. ASSUME NEW a \in Blocks, ReorgToAncestor(a)
      PROVE  InOrder(finality', tip') /\ RowsFollow(finality', rows')
  <2>1. /\ a \in Ancestors[tip] /\ tip' = a
        /\ finality' = finality /\ rows' = rows
        /\ \A e \in finality.final : Height[a] >= Height[finality.checkpoints[e]]
    BY <1>4 DEF ReorgToAncestor, ReorgAllowed, AboveFloor
  <2>2. InOrder(finality, tip) /\ RowsFollow(finality, rows)
    BY <1>4 DEF ReorgToAncestor, history, FinalityInOrder, FinalityKnown
  <2> QED BY <1>0, <2>1, <2>2, RollbackInOrder
<1>5. ASSUME NEW u, DoubleVote(u) \/ MarkSlashed(u) \/ AddValidator(u)
      PROVE  InOrder(finality', tip') /\ RowsFollow(finality', rows')
  BY <1>5 DEF DoubleVote, MarkSlashed, AddValidator, history, FinalityInOrder,
              FinalityKnown
<1>6. ASSUME NEW u, CountValidators(u)
      PROVE  InOrder(finality', tip') /\ RowsFollow(finality', rows')
  <2>1. tip' = tip /\ rows' = rows
    BY <1>6 DEF CountValidators, stored
  <2>2. InOrder(finality, tip) /\ RowsFollow(finality, rows)
    BY <1>6 DEF CountValidators, history, FinalityInOrder, FinalityKnown
  <2>3. PICK voters : finality' = [finality EXCEPT !.voters = voters]
    BY <1>6 DEF CountValidators
  <2>4. /\ finality'.checkpoints = finality.checkpoints
        /\ finality'.justified = finality.justified
        /\ finality'.final = finality.final /\ finality'.epoch = finality.epoch
    BY <2>2, <2>3 DEF InOrder, FinalityType
  <2>5. finality' \in FinalityType
    BY TypeNext DEF Recorded, TypeOK, FinalityType
  <2>6. InOrder(finality', tip)
    BY <2>2, <2>4, <2>5 DEF InOrder, Contiguous, JustifiedExist, FinalAtOnce, EpochSeen,
                            Processed, FinalOnChain
  <2>7. RowsFollow(finality', rows)
    BY <2>2, <2>4 DEF RowsFollow
  <2> QED BY <2>1, <2>6, <2>7
<1>7. ASSUME UNCHANGED vars
      PROVE  InOrder(finality', tip') /\ RowsFollow(finality', rows')
  BY <1>7 DEF vars, stored, history, FinalityInOrder, FinalityKnown
<1> QED BY <1>1, <1>2, <1>3, <1>4, <1>5, <1>6, <1>7
        DEF Next, AddBlock, Restart, CrashAfterCommit

\* Until a restart, or the second commit of a checkpoint, the chain contains every
\* checkpoint that the engine or the table calls finalized, whatever is proposed,
\* refused, rolled back or slashed (finality_engine.py:48-146,
\* blockchain.py:1114-1123).
THEOREM FinalityKept == Spec => []FinalizedKept
<1>1. FinalityInOrder => FinalizedKept
  BY DEF FinalityInOrder, FinalityKnown, InOrder, FinalOnChain, RowsFollow, FinalizedKept
<1> QED BY <1>1, RecordedHolds, FinalityInit, FinalityNext, PTL DEF Spec

-----------------------------------------------------------------------------
(* ChainCommit implements Ledger.  What is final is on the chain, so it is never
   below a block that the chain is cut back to; the head of the chain is the tip. *)

\* A child of the tip extends the chain of the ledger.
LEMMA TipExtends ==
  ASSUME Recorded, NEW b \in Blocks, Parent[b] = tip, ledger' = ledger \cup {b}
  PROVE  LedgerOf!Extend(b)
<1>1. tip \in Blocks /\ ledger = Ancestors[tip] /\ Parent[b] # None
  BY TreeAssumption DEF Recorded
<1>2. Height[b] = Height[tip] + 1 /\ Height[tip] \in Nat
  BY <1>1, TreeAssumption
<1>3. \A c \in ledger : c \in Blocks /\ Height[c] \in Nat /\ Height[c] <= Height[tip]
  BY <1>1, TreeAssumption, AncestorsAssumption
<1>4. tip \in ledger /\ b \notin ledger
  BY <1>1, <1>2, <1>3, AncestorsAssumption
<1> QED BY <1>3, <1>4 DEF LedgerOf!Extend, LedgerOf!IsHead

\* Nothing final leaves the engine, and what is final is on the chain, unless the
\* block is a checkpoint that was committed before.
LEMMA FinalGrows ==
  ASSUME Recorded, FinalityInOrder, FinalityInOrder', Recorded', NEW b \in Blocks, Commit(b)
  PROVE  FinalityKnown' => FinalBlocks \subseteq FinalBlocks' /\ FinalBlocks' \subseteq ledger'
<1>1. finality' = ProcessBlock(finality, b) /\ recast \subseteq recast'
  BY DEF Commit
<1>2. FinalityKnown' => FinalityKnown
  BY <1>1 DEF Commit, FinalityKnown
<1>3. FinalityKnown => FinalBlocks = {finality.checkpoints[e] : e \in finality.final}
  BY DEF FinalityKnown, FinalBlocks
<1>4. FinalityKnown' => FinalBlocks' = {finality'.checkpoints[e] : e \in finality'.final}
  BY DEF FinalityKnown, FinalBlocks
<1> SUFFICES ASSUME FinalityKnown'
             PROVE  FinalBlocks \subseteq FinalBlocks' /\ FinalBlocks' \subseteq ledger'
  OBVIOUS
<1>5. finality \in FinalityType /\ FinalOnChain(finality, tip) /\ tip \in Blocks
  BY <1>2 DEF FinalityInOrder, InOrder, Recorded
<1>6. FinalOnChain(finality', tip') /\ ledger' = Ancestors[tip']
  BY DEF FinalityInOrder, InOrder, Recorded
<1>7. /\ finality'.checkpoints = [finality.checkpoints EXCEPT
           ![Epoch(b)] = IF finality.checkpoints[Epoch(b)] = None THEN b ELSE @]
      /\ finality.final \subseteq finality'.final
  BY <1>1, <1>5, CheckpointsAfter
<1>8. \A e \in finality.final : e \in Epochs /\ finality.checkpoints[e] # None
  BY <1>5, TreeAssumption, AncestorsAssumption DEF FinalityType, FinalOnChain
<1>9. \A e \in finality.final : finality'.checkpoints[e] = finality.checkpoints[e]
  BY <1>5, <1>7, <1>8 DEF FinalityType
<1> QED BY <1>2, <1>3, <1>4, <1>6, <1>7, <1>9 DEF FinalOnChain

\* Each step of the chain is a step of the ledger or leaves it alone.
LEMMA LedgerStep ==
  ASSUME Recorded, FinalityInOrder, Recorded', FinalityInOrder', [Next]_vars
  PROVE  [LedgerOf!LedgerNext]_<<ledger, FinalBlocks>>
<1> USE DEF LedgerOf!LedgerNext
<1>1. ASSUME NEW b \in Blocks, Commit(b) PROVE LedgerOf!LedgerNext
  <2>1. Parent[b] = tip /\ ledger' = ledger \cup {b}
    BY <1>1 DEF Commit, ReachesRecord
  <2>2. LedgerOf!Extend(b)
    BY <2>1, TipExtends
  <2>3. CASE FinalityKnown'
    BY <1>1, <2>2, <2>3, FinalGrows DEF LedgerOf!Append
  <2>4. CASE ~FinalityKnown'
    BY <2>2, <2>4 DEF FinalityKnown, FinalBlocks, LedgerOf!LoseFinality
  <2> QED BY <2>3, <2>4
<1>2. ASSUME NEW b \in Blocks, CommitFails(b) \/ DoubleProposal(b)
      PROVE  UNCHANGED <<ledger, FinalBlocks>>
  BY <1>2 DEF CommitFails, DoubleProposal, stored, history, FinalBlocks
<1>3. ASSUME NEW b \in Blocks, CrashAfterCommit(b) PROVE LedgerOf!LedgerNext
  <2>1. Parent[b] = tip /\ ledger' = Ancestors[b] /\ restarted'
    BY <1>3 DEF CrashAfterCommit, ReachesRecord, Boot
  <2>2. ledger' = ledger \cup {b}
    BY <2>1, ChainGrows DEF Recorded
  <2>3. LedgerOf!Extend(b)
    BY <2>1, <2>2, TipExtends
  <2>4. FinalBlocks' = {}
    BY <2>1 DEF FinalBlocks
  <2> QED BY <2>3, <2>4 DEF LedgerOf!LoseFinality
<1>4. ASSUME NEW a \in Blocks, ReorgToAncestor(a) PROVE LedgerOf!LedgerNext
  <2>1. a \in ledger /\ tip' = a /\ ledger' = Ancestors[a]
    BY <1>4 DEF ReorgToAncestor, Recorded
  <2>2. FinalBlocks' = FinalBlocks
    BY <1>4 DEF ReorgToAncestor, history, FinalBlocks
  <2>3. FinalityKnown <=> FinalityKnown'
    BY <1>4 DEF ReorgToAncestor, history, FinalityKnown
  <2>4. CASE FinalityKnown
    <3>1. FinalOnChain(finality', a)
      BY <2>1, <2>3, <2>4 DEF FinalityInOrder, InOrder
    <3>2. FinalBlocks' \subseteq Ancestors[a]
      BY <3>1 DEF FinalBlocks, FinalOnChain
    <3> QED BY <2>1, <2>2, <3>2 DEF LedgerOf!RollBack
  <2>5. CASE ~FinalityKnown
    BY <2>1, <2>2, <2>5 DEF LedgerOf!RollBack, FinalityKnown, FinalBlocks
  <2> QED BY <2>4, <2>5
<1>5. ASSUME NEW u, DoubleVote(u) \/ MarkSlashed(u) \/ AddValidator(u)
      PROVE  UNCHANGED <<ledger, FinalBlocks>>
  BY <1>5 DEF DoubleVote, MarkSlashed, AddValidator, history, FinalBlocks
<1>6. ASSUME NEW u, CountValidators(u)
      PROVE  UNCHANGED <<ledger, FinalBlocks>>
  <2>1. ledger' = ledger /\ recast' = recast
    BY <1>6 DEF CountValidators, stored, history
  <2>2. finality'.checkpoints = finality.checkpoints /\ finality'.final = finality.final
    BY <1>6 DEF CountValidators, Recorded, TypeOK
  <2>3. FinalityKnown <=> FinalityKnown'
    BY <1>6 DEF CountValidators, history, FinalityKnown
  <2>4. CASE FinalityKnown
    BY <2>1, <2>2, <2>3, <2>4 DEF FinalBlocks, FinalityKnown
  <2>5. CASE ~FinalityKnown
    BY <2>1, <2>3, <2>5 DEF FinalBlocks, FinalityKnown
  <2> QED BY <2>1, <2>4, <2>5
<1>7. ASSUME Restart PROVE LedgerOf!LedgerNext
  <2>1. ledger' = ledger /\ restarted'
    BY <1>7 DEF Restart, Boot, Recorded
  <2> QED BY <2>1 DEF FinalBlocks, LedgerOf!LoseFinality
<1>8. ASSUME UNCHANGED vars PROVE UNCHANGED <<ledger, FinalBlocks>>
  BY <1>8 DEF vars, stored, history, FinalBlocks
<1> QED BY <1>1, <1>2, <1>3, <1>4, <1>5, <1>6, <1>7, <1>8 DEF Next, AddBlock

\* The block store keeps its promise for every tree, epoch length and validator
\* set: the executed blocks grow by a child of the head or are cut back to a block
\* above all that is final, until a restart or the second commit of a checkpoint
\* gives finality up (blockchain.py:746-878, 1112-1219).
THEOREM LedgerImplemented == Spec => ImplementsLedger
<1>1. Init => LedgerOf!LedgerInit
  BY DEF Init, NewFinality, FinalBlocks, LedgerOf!LedgerInit
<1>2. Recorded /\ FinalityInOrder /\ Recorded' /\ FinalityInOrder' /\ [Next]_vars
        => [LedgerOf!LedgerNext]_<<ledger, FinalBlocks>>
  BY LedgerStep
<1>3. Spec => []FinalityInOrder
  BY RecordedHolds, FinalityInit, FinalityNext, PTL DEF Spec
<1> QED BY <1>1, <1>2, <1>3, RecordedHolds, PTL
        DEF Spec, ImplementsLedger, LedgerOf!LedgerSpec


=============================================================================
