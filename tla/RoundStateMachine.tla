-------------------------- MODULE RoundStateMachine --------------------------
(***************************************************************************)
(* The fail-closed BFT round state machine of consensus/bft (ADR 0007):    *)
(* RoundStateMachine in service.py, the stake-weighted quorum policy of    *)
(* quorum.py, the evidence of evidence.py and the registry, evidence and   *)
(* lockdown sinks of consensus/registry_adapter.py.                        *)
(*                                                                         *)
(* Every public call (open_round, add_block, submit_proposal, submit_vote) *)
(* runs to completion, so each is one atomic action; its alternatives are  *)
(* the early returns of the call, in the order the code tests them.  The   *)
(* slashing engine of consensus/slashing.py slashes in the same registry   *)
(* behind the machine's back: with the lock of attest's refusal            *)
(* (AttestRefused), or without any (SlashElsewhere).                       *)
(*                                                                         *)
(* Abstractions.  A block hash is a member of Hashes.  A round id is the   *)
(* pair height/n: the epoch of the code is height \div epoch_size, so it   *)
(* separates no two rounds.  parent_hash, slot and signatures are stored   *)
(* by the code and never tested, and so is canonical_head's block; the     *)
(* evidence emitted is read off the attempt counters, which every piece of *)
(* evidence increments first.  The lists _votes and _attest_by_block       *)
(* are sets, because the quorum counts each validator once.  Stake is a    *)
(* measure on sets of validators: StakeOf[S] is the sum of the stakes of   *)
(* the validators in S, of which only additivity is used.  The validator   *)
(* set is fixed apart from slashing, and VoteType.PROPOSE, which no caller *)
(* builds a vote of, is left out.                                          *)
(***************************************************************************)
EXTENDS Integers, FiniteSets

CONSTANTS Validators,     \* registered validators
          Outsiders,      \* ids that no registry entry has
          Hashes,         \* block hashes
          None,           \* "no value" (None, the empty id)
          StakeOf,        \* the total stake of a set of validators
          SpamThreshold,  \* evidence.py: _SPAM_THRESHOLD
          MaxHeight,      \* bound: block and round heights are 0..MaxHeight
          MaxRoundN,      \* bound: round numbers are 0..MaxRoundN
          BlockHeight,    \* the height a block hash commits to
          Proposers,      \* what select_proposer may return
          MaxAccepted,    \* bound: votes accepted in a behaviour
          MaxFaults,      \* bound: calls that fail closed in a behaviour
          MaxSlashed      \* bound: SlashElsewhere leaves at most so many slashed

ASSUME NamesAssumption ==
  /\ Validators \cap Outsiders = {}
  /\ None \notin Validators \cup Outsiders \cup Hashes

\* Stakes are nonnegative and add up over disjoint sets of validators.
ASSUME StakeAssumption ==
  /\ StakeOf \in [SUBSET Validators -> Nat]
  /\ \A S, T \in SUBSET Validators :
        S \cap T = {} => StakeOf[S \cup T] = StakeOf[S] + StakeOf[T]

ASSUME BlocksAssumption ==
  BlockHeight \in [Hashes -> 0..MaxHeight] /\ Proposers \subseteq Validators

ASSUME BoundsAssumption ==
  /\ SpamThreshold \in Nat \ {0}
  /\ MaxHeight \in Nat /\ MaxRoundN \in Nat
  /\ MaxAccepted \in Nat /\ MaxFaults \in Nat /\ MaxSlashed \in Nat

Ids       == Validators \cup Outsiders
Heights   == 0..MaxHeight
Rounds    == [height : Heights, n : 0..MaxRoundN]
VoteTypes == {"prevote", "precommit"}
Phases    == {"propose", "prevote", "precommit", "finalize", "locked"}
Faults    == {"double_vote", "double_proposal", "unknown_validator_vote",
              "fake_vote_unverified", "prevote_precommit_hash_mismatch"}
Reasons   == Faults \cup {"consensus_round_spam"}

\* A counted vote; one whose signature was not verified is never stored.
Votes == [validator : Ids, type : VoteTypes, round : Rounds, hash : Hashes]

NoHeight == -1
NoCert   == [hash |-> None, reached |-> FALSE]

VARIABLES
  round,            \* _round
  phase,            \* _phase
  proposal,         \* _proposal: the proposed hash, or None
  expected,         \* _expected_proposer, or None
  votes,            \* _votes: the votes counted in the current round
  seen,             \* _seen: (validator, type, round key) -> hash, as votes
  qc,               \* _qc: the last certificate per round and vote type
  finalizedHashes,  \* _finalized_hashes
  finalizedHeight,  \* _finalized_height
  blocks,           \* _blocks: the height recorded for a hash
  attested,         \* _attest_by_block: every vote ever counted
  slashed,          \* the registry's slashed validators
  attempts,         \* the evidence sink's counters, saturated
  lockdown,         \* the last lockdown reason requested, or None
  completed         \* the COMPLETE outcomes returned, as round and hash

roundVars    == <<round, phase, proposal, votes, seen>>
finalVars    == <<finalizedHashes, finalizedHeight, completed>>
securityVars == <<slashed, attempts, lockdown>>
vars == <<roundVars, expected, qc, finalVars, blocks, attested,
          securityVars>>

-----------------------------------------------------------------------------
(* quorum.py and the registry snapshot *)

\* ValidatorSetSnapshot.is_active: registered and not slashed.
IsActive(id) == id \in Validators \ slashed

\* total_active_stake
TotalActiveStake == StakeOf[Validators \ slashed]

\* The validators whose stake stake_for_votes adds up.
Voters(counted, type, hash) ==
  {v \in Validators \ slashed :
     [validator |-> v, type |-> type, round |-> round, hash |-> hash] \in counted}

\* Mutant: one third, as for a blocking minority, instead of two.
QuorumReachedThird(stakeVoted, stakeTotal) ==
  stakeTotal > 0 /\ 3 * stakeVoted >= stakeTotal

\* quorum_reached: two thirds of the active stake, and never of no stake.  The
\* code divides floats; voted / total >= 2.0 / 3.0 agrees with the products
\* for integral stakes below 2^52.
QuorumReached(stakeVoted, stakeTotal) ==
  stakeTotal > 0 /\ 3 * stakeVoted >= 2 * stakeTotal

\* QuorumPolicy.certificate
Certificate(counted, type, hash) ==
  [hash    |-> hash,
   reached |-> QuorumReached(StakeOf[Voters(counted, type, hash)],
                             TotalActiveStake)]

-----------------------------------------------------------------------------
(* Internals of the state machine *)

\* A call that returns a refused or locked outcome changes nothing.
Refuse == UNCHANGED vars

\* AdapterConsensusEvidence.note_malicious_attempt, saturated at the threshold
\* because every count from there on is treated alike.
NoteAttempt(count, id, reason) ==
  [count EXCEPT ![<<id, reason>>] =
     IF @ < SpamThreshold THEN @ + 1 ELSE SpamThreshold]

\* AdapterValidatorRegistry.mark_slashed ignores the empty id, and the registry
\* an id it does not know.
MarkSlashed(id) == slashed' = slashed \cup ({id} \cap Validators)

LockReason(reason) ==
  IF reason \in {"double_vote", "double_proposal"}
  THEN "consensus_double_sign" ELSE reason

\* The number of calls that have failed closed; used by the bound only.
FaultsBelowMax ==
  Cardinality({p \in (Ids \cup {None}) \X Faults : attempts[p] > 0}) < MaxFaults

\* _fail_closed: count the attempt, escalate a repeated one, emit evidence,
\* slash the validator named, request a lockdown and lock the round.  The
\* exception it raises becomes the locked outcome in ConsensusAdapter.
FailClosed(reason, id) ==
  LET noted == NoteAttempt(attempts, id, reason)
      spam  == noted[<<id, reason>>] >= SpamThreshold
      code  == IF spam THEN "consensus_round_spam" ELSE reason
  IN /\ FaultsBelowMax \/ attempts[<<id, reason>>] > 0
     /\ attempts' = IF spam THEN NoteAttempt(noted, id, code) ELSE noted
     /\ MarkSlashed(id)
     /\ lockdown' = LockReason(code)
     /\ phase' = "locked"

\* Mutant: the keys of the old round stay in _seen and in _votes.
BeginRoundKeepsAll(r) ==
  /\ round' = r
  /\ phase' = "propose"
  /\ proposal' = None
  /\ UNCHANGED <<votes, seen>>

\* What _begin_round does to the round's data: only the keys of the round being
\* opened stay in _seen.
Reset(r) ==
  /\ round' = r
  /\ proposal' = None
  /\ votes' = {}
  /\ seen' = {s \in seen : s.round = r}

\* _begin_round
BeginRound(r) == Reset(r) /\ phase' = "propose"

\* The record keeping of add_block, before it aligns the round.
RecordBlock(h, ht) == blocks' = [blocks EXCEPT ![h] = ht]

\* Mutant: the height of the last finalized block instead of the maximum.
FinalizeLast(h) ==
  LET ht == IF blocks[h] = NoHeight THEN round.height ELSE blocks[h]
  IN /\ phase' = "finalize"
     /\ finalizedHashes' = finalizedHashes \cup {h}
     /\ finalizedHeight' = ht
     /\ completed' = completed \cup {[round |-> round, hash |-> h]}

\* _finalize
Finalize(h) ==
  LET ht == IF blocks[h] = NoHeight THEN round.height ELSE blocks[h]
  IN /\ phase' = "finalize"
     /\ finalizedHashes' = finalizedHashes \cup {h}
     /\ finalizedHeight' = IF ht > finalizedHeight THEN ht ELSE finalizedHeight
     /\ completed' = completed \cup {[round |-> round, hash |-> h]}

-----------------------------------------------------------------------------
(* open_round and add_block *)

\* open_round; p is the proposer expected from now on, or None to keep it.
OpenRound(r, p) ==
  /\ BeginRound(r)
  /\ expected' = IF p = None THEN expected ELSE p
  /\ UNCHANGED <<qc, finalVars, blocks, attested, securityVars>>

\* add_block: a block above the round's height, or at it once the round is
\* final, opens round 0 of its height.
AddBlock(h, ht) ==
  /\ RecordBlock(h, ht)
  /\ IF ht > round.height \/ (ht = round.height /\ phase = "finalize")
     THEN BeginRound([height |-> ht, n |-> 0])
     ELSE UNCHANGED roundVars
  /\ UNCHANGED <<expected, qc, finalVars, attested, securityVars>>

-----------------------------------------------------------------------------
(* submit_proposal *)

ProposalLocked == phase = "locked" /\ Refuse

ProposalStale(r) ==
  phase # "locked" /\ r # round /\ Refuse

ProposalOutOfPhase(r) ==
  phase \notin {"locked", "propose"} /\ r = round
  /\ Refuse

ProposalUnknown(id, r) ==
  /\ phase = "propose" /\ r = round /\ ~IsActive(id)
  /\ FailClosed("unknown_validator_vote", id)
  /\ UNCHANGED <<round, proposal, votes, seen, expected, qc, finalVars,
                 blocks, attested>>

ProposalUnexpected(id, r) ==
  /\ phase = "propose" /\ r = round /\ IsActive(id)
  /\ expected # None /\ id # expected
  /\ FailClosed("double_proposal", id)
  /\ UNCHANGED <<round, proposal, votes, seen, expected, qc, finalVars,
                 blocks, attested>>

\* The proposal is taken and its block recorded at the round's height.  The
\* code's tests for a second proposal come after its phase gate, which no
\* second proposal of the round passes: _proposal is None in phase propose.
ProposalAccepted(id, r, h) ==
  /\ phase = "propose" /\ r = round /\ IsActive(id)
  /\ expected \in {None, id}
  /\ proposal' = h
  /\ phase' = "prevote"
  /\ RecordBlock(h, round.height)
  /\ UNCHANGED <<round, votes, seen, expected, qc, finalVars, attested,
                 securityVars>>

\* A proposal to a round that is not locked.
SubmitProposal(id, r, h) ==
  \/ ProposalStale(r)
  \/ ProposalOutOfPhase(r)
  \/ ProposalUnknown(id, r)
  \/ ProposalUnexpected(id, r)
  \/ ProposalAccepted(id, r, h)

-----------------------------------------------------------------------------
(* submit_vote *)

VoteLocked == phase = "locked" /\ Refuse

VoteFake(id) ==
  /\ phase # "locked"
  /\ FailClosed("fake_vote_unverified", id)
  /\ UNCHANGED <<round, proposal, votes, seen, expected, qc, finalVars,
                 blocks, attested>>

VoteStale(v) ==
  phase # "locked" /\ v.round # round /\ Refuse

VoteUnknown(v) ==
  /\ phase # "locked" /\ v.round = round /\ ~IsActive(v.validator)
  /\ FailClosed("unknown_validator_vote", v.validator)
  /\ UNCHANGED <<round, proposal, votes, seen, expected, qc, finalVars,
                 blocks, attested>>

\* Mutant: the hash is part of the key, so no conflict is ever found.
PriorNever(v) == {s \in seen : s = v}

\* The entry of _seen under the vote's key, as a set of at most one vote.
Prior(v) ==
  {s \in seen : s.validator = v.validator /\ s.type = v.type /\ s.round = v.round}

\* What the last tests of submit_vote are about: a verified vote of the
\* current round by an active validator.
Current(v) == phase # "locked" /\ v.round = round /\ IsActive(v.validator)

VoteDouble(v) ==
  /\ Current(v)
  /\ \E s \in Prior(v) : s.hash # v.hash
  /\ FailClosed("double_vote", v.validator)
  /\ UNCHANGED <<round, proposal, votes, seen, expected, qc, finalVars,
                 blocks, attested>>

VoteDuplicate(v) ==
  /\ Current(v)
  /\ v \in seen
  /\ UNCHANGED vars

\* A precommit is refused before the first prevote of the round.
VoteOutOfPhase(v) ==
  /\ Current(v) /\ Prior(v) = {}
  /\ v.type = "precommit" /\ phase = "propose"
  /\ Refuse

\* The vote enters _seen, _votes and _attest_by_block.
Record(v) ==
  /\ Current(v) /\ Prior(v) = {}
  /\ Cardinality(attested) < MaxAccepted
  /\ seen' = seen \cup {v}
  /\ votes' = votes \cup {v}
  /\ attested' = attested \cup {v}

\* _maybe_advance_prevote.  A prevote is also accepted in phase propose, which
\* it ends.  A reached certificate sets phase precommit whatever the phase was.
VotePrevote(v) ==
  LET cert == Certificate(votes \cup {v}, "prevote", v.hash)
  IN /\ v.type = "prevote"
     /\ Record(v)
     /\ qc' = [qc EXCEPT ![<<round, "prevote">>] = cert]
     /\ phase' = IF cert.reached THEN "precommit"
                 ELSE IF phase = "propose" THEN "prevote" ELSE phase
     /\ UNCHANGED <<round, proposal, expected, finalVars, blocks,
                    securityVars>>

PrevoteMismatch(h) ==
  LET prev == qc[<<round, "prevote">>] IN prev.reached /\ prev.hash # h

\* _maybe_advance_precommit against a prevote certificate for another hash:
\* the vote has been recorded and no validator is named.
VotePrecommitMismatch(v) ==
  /\ v.type = "precommit" /\ phase # "propose"
  /\ PrevoteMismatch(v.hash)
  /\ Record(v)
  /\ FailClosed("prevote_precommit_hash_mismatch", None)
  /\ UNCHANGED <<round, proposal, expected, qc, finalVars, blocks>>

VotePrecommit(v) ==
  LET cert == Certificate(votes \cup {v}, "precommit", v.hash)
  IN /\ v.type = "precommit" /\ phase # "propose"
     /\ ~PrevoteMismatch(v.hash)
     /\ Record(v)
     /\ qc' = [qc EXCEPT ![<<round, "precommit">>] = cert]
     /\ \/ /\ cert.reached
           /\ Finalize(v.hash)
        \/ /\ ~cert.reached
           /\ phase' = IF phase = "prevote" THEN "precommit" ELSE phase
           /\ UNCHANGED finalVars
     /\ UNCHANGED <<round, proposal, expected, blocks, securityVars>>

\* An unverified vote stops at the first test after the lock, so that nothing
\* but its validator matters.
SubmitUnverified(id) == VoteLocked \/ VoteFake(id)

\* A vote whose signature was verified, to a round that is not locked: in a locked
\* one VoteLocked is the answer to every vote, as ProposalLocked is to a proposal.
SubmitVote(v) ==
  \/ VoteStale(v)
  \/ VoteUnknown(v)
  \/ VoteDouble(v)
  \/ VoteDuplicate(v)
  \/ VoteOutOfPhase(v)
  \/ VotePrevote(v)
  \/ VotePrecommitMismatch(v)
  \/ VotePrecommit(v)

-----------------------------------------------------------------------------
(* Slashes that do not come out of _fail_closed *)

\* Mutant: the refused attestation does not lock the round.
AttestRefusedUnlocked(id) ==
  /\ FaultsBelowMax \/ attempts[<<id, "double_vote">>] > 0
  /\ round.height > 0
  /\ MarkSlashed(id)
  /\ attempts' = NoteAttempt(attempts, id, "double_vote")
  /\ lockdown' = "consensus_double_sign"
  /\ UNCHANGED <<roundVars, expected, qc, finalVars, blocks, attested>>

\* attest when the slashing engine refuses the attestation: its callback has
\* slashed the validator in the registry, now or earlier, and
\* _fail_closed_double_vote locks the round, opening one of a positive height
\* first.  An id no registry entry has is slashed in the engine only.
AttestRefused(id) ==
  /\ FaultsBelowMax \/ attempts[<<id, "double_vote">>] > 0
  /\ IF round.height > 0 THEN UNCHANGED <<round, proposal, votes, seen>>
     ELSE \E r \in Rounds : r.height > 0 /\ r.n = 0 /\ Reset(r)
  /\ MarkSlashed(id)
  /\ attempts' = NoteAttempt(attempts, id, "double_vote")
  /\ lockdown' = "consensus_double_sign"
  /\ phase' = "locked"
  /\ UNCHANGED <<expected, qc, finalVars, blocks, attested>>

\* slash_validator by hand, and _on_validator_slashed called back by the
\* slashing engine while a block's proposal is recorded: the registry entry
\* changes, the round and the votes counted in it do not.
SlashElsewhere(id) ==
  /\ id \notin slashed
  /\ Cardinality(slashed) < MaxSlashed
  /\ MarkSlashed(id)
  /\ UNCHANGED <<roundVars, expected, qc, finalVars, blocks, attested,
                 attempts, lockdown>>

-----------------------------------------------------------------------------
Init ==
  /\ round = [height |-> 0, n |-> 0]
  /\ phase = "propose"
  /\ proposal = None
  /\ expected = None
  /\ votes = {}
  /\ seen = {}
  /\ qc = [k \in Rounds \X VoteTypes |-> NoCert]
  /\ finalizedHashes = {}
  /\ finalizedHeight = 0
  /\ blocks = [h \in Hashes |-> NoHeight]
  /\ attested = {}
  /\ slashed = {}
  /\ attempts = [p \in (Ids \cup {None}) \X Reasons |-> 0]
  /\ lockdown = None
  /\ completed = {}

Next ==
  \/ \E r \in Rounds, p \in Proposers \cup {None} : OpenRound(r, p)
  \/ \E h \in Hashes : AddBlock(h, BlockHeight[h])
  \/ ProposalLocked
  \/ \E id \in Ids, r \in Rounds, h \in Hashes : SubmitProposal(id, r, h)
  \/ \E id \in Ids : SubmitUnverified(id)
  \/ \E v \in Votes : SubmitVote(v)
  \/ \E id \in Ids : AttestRefused(id)
  \/ \E id \in Validators : SlashElsewhere(id)

Spec == Init /\ [][Next]_vars

-----------------------------------------------------------------------------
(* Properties *)

Certs == [hash : Hashes \cup {None}, reached : BOOLEAN]

\* Every variable keeps the shape the code gives it; in particular a stored
\* vote is always one of the current round and only registered validators
\* are slashed.
TypeOK ==
  /\ round \in Rounds
  /\ phase \in Phases
  /\ proposal \in Hashes \cup {None}
  /\ expected \in Proposers \cup {None}
  /\ votes \subseteq Votes /\ \A v \in votes : v.round = round
  /\ seen \subseteq Votes /\ \A s \in seen : s.round = round
  /\ qc \in [Rounds \X VoteTypes -> Certs]
  /\ finalizedHashes \subseteq Hashes
  /\ finalizedHeight \in Heights
  /\ blocks \in [Hashes -> Heights \cup {NoHeight}]
  /\ attested \subseteq Votes
  /\ slashed \subseteq Validators
  /\ attempts \in [(Ids \cup {None}) \X Reasons -> 0..SpamThreshold]
  /\ lockdown \in Reasons \cup {"consensus_double_sign", None}
  /\ completed \subseteq [round : Rounds, hash : Hashes]

\* Validators whose precommits for two blocks of one round were both counted.
Equivocators(r) ==
  {v \in Validators : \E a, b \in attested :
     /\ a.validator = v /\ a.type = "precommit" /\ a.round = r
     /\ b.validator = v /\ b.type = "precommit" /\ b.round = r
     /\ a.hash # b.hash}

\* Accountable safety of submit_vote and _finalize: two blocks are finalized in
\* the same round only if the validators that precommitted both (which _seen
\* forgets when another round is opened in between) and the validators slashed
\* (which shrinks the total that two thirds are taken of) make up the stake
\* that the intersection of two quorums calls for.
AccountableSafety ==
  \A c, d \in completed :
    c.round = d.round /\ c.hash # d.hash =>
      3 * StakeOf[Equivocators(c.round)] + 2 * StakeOf[slashed]
        >= StakeOf[Validators]

\* Between two openings of a round at most one block has a quorum of each vote
\* type: double votes never reach _votes (lines 241-257).
UniqueQuorum ==
  \A type \in VoteTypes : \A h1, h2 \in Hashes :
    /\ Certificate(votes, type, h1).reached
    /\ Certificate(votes, type, h2).reached
    => h1 = h2

\* A validator against which a malicious attempt is counted has no counted vote
\* in a live round: _fail_closed and _fail_closed_double_vote lock the round,
\* reopening it drops the votes, and the registry keeps the validator out of
\* every later sitting.  A slash from elsewhere gives no such guarantee: there
\* the vote stays in _votes and only stake_for_votes passes over it.
NoConvictedVoteCounts ==
  phase # "locked" =>
    \A v \in votes : \A fault \in Faults : attempts[<<v.validator, fault>>] = 0

\* Finality never regresses: neither the height is_finalized compares with nor
\* the set of final hashes ever shrinks, also when a round of a lower height
\* is finalized later.
FinalityMonotone ==
  [][/\ finalizedHeight' >= finalizedHeight
     /\ finalizedHashes \subseteq finalizedHashes']_vars

-----------------------------------------------------------------------------
(* The inductive invariant behind AccountableSafety and UniqueQuorum *)

\* The precommits counted for a block in a round come from a quorum of the
\* validators that were not in S.
Backed(c, S, counted) ==
  \E Q \in SUBSET (Validators \ S) :
    /\ QuorumReached(StakeOf[Q], StakeOf[Validators \ S])
    /\ \A v \in Q : [validator |-> v, type |-> "precommit",
                     round |-> c.round, hash |-> c.hash] \in counted

\* Any two outcomes were backed when one set of slashed validators contained
\* the other.
CompletedBacked ==
  \A c, d \in completed :
    \E S, T \in SUBSET slashed :
      /\ S \subseteq T \/ T \subseteq S
      /\ Backed(c, S, attested) /\ Backed(d, T, attested)

\* _seen is a dictionary: one hash per validator, type and round.
SeenIsFunction ==
  \A s, t \in seen :
    s.validator = t.validator /\ s.type = t.type => s.hash = t.hash

Bookkeeping == votes \subseteq seen /\ votes \subseteq attested

\* A registered validator with an attempt counted against it is slashed.
ConvictedSlashed ==
  \A v \in Validators \ slashed : \A fault \in Faults : attempts[<<v, fault>>] = 0

IInv ==
  /\ TypeOK /\ SeenIsFunction /\ Bookkeeping
  /\ ConvictedSlashed /\ NoConvictedVoteCounts /\ CompletedBacked

=============================================================================
