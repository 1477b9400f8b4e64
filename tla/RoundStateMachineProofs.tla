----------------------- MODULE RoundStateMachineProofs -----------------------
(* Proofs about RoundStateMachine, for every validator set, stake measure,  *)
(* set of hashes and bound.                                                *)
EXTENDS RoundStateMachine, TLAPS

\* A larger set of validators has no less stake.
LEMMA StakeMonotone ==
  ASSUME NEW S \in SUBSET Validators, NEW T \in SUBSET Validators, S \subseteq T
  PROVE  StakeOf[S] \in Nat /\ StakeOf[T] \in Nat /\ StakeOf[S] <= StakeOf[T]
<1>1. T \ S \in SUBSET Validators /\ S \cap (T \ S) = {} /\ S \cup (T \ S) = T
  OBVIOUS
<1>2. StakeOf[T] = StakeOf[S] + StakeOf[T \ S]
  BY <1>1, StakeAssumption
<1>3. StakeOf[S] \in Nat /\ StakeOf[T \ S] \in Nat /\ StakeOf[T] \in Nat
  BY <1>1, StakeAssumption
<1> QED
  BY <1>2, <1>3

\* Inclusion and exclusion for two sets of validators.
LEMMA StakeUnion ==
  ASSUME NEW S \in SUBSET Validators, NEW T \in SUBSET Validators
  PROVE  StakeOf[S \cup T] + StakeOf[S \cap T] = StakeOf[S] + StakeOf[T]
<1>1. /\ S \cap (T \ S) = {} /\ S \cup (T \ S) = S \cup T
      /\ (S \cap T) \cap (T \ S) = {} /\ (S \cap T) \cup (T \ S) = T
      /\ T \ S \in SUBSET Validators /\ S \cap T \in SUBSET Validators
  OBVIOUS
<1>2. StakeOf[S \cup T] = StakeOf[S] + StakeOf[T \ S]
  BY <1>1, StakeAssumption
<1>3. StakeOf[T] = StakeOf[S \cap T] + StakeOf[T \ S]
  BY <1>1, StakeAssumption
<1>4. StakeOf[S] \in Nat /\ StakeOf[T] \in Nat /\ StakeOf[T \ S] \in Nat
      /\ StakeOf[S \cap T] \in Nat /\ StakeOf[S \cup T] \in Nat
  BY <1>1, StakeAssumption
<1> QED
  BY <1>2, <1>3, <1>4

\* The arithmetic of two quorums, the second taken after more validators were
\* slashed: they meet in a third of the stake less two thirds of the slashed.
LEMMA QuorumIntersection ==
  ASSUME NEW S1 \in SUBSET Validators, NEW S2 \in SUBSET Validators,
         S1 \subseteq S2,
         NEW Q1 \in SUBSET (Validators \ S1), NEW Q2 \in SUBSET (Validators \ S2),
         QuorumReached(StakeOf[Q1], StakeOf[Validators \ S1]),
         QuorumReached(StakeOf[Q2], StakeOf[Validators \ S2])
  PROVE  3 * StakeOf[Q1 \cap Q2] + 2 * StakeOf[S2] >= StakeOf[Validators]
<1> DEFINE A1 == Validators \ S1
           A2 == Validators \ S2
<1>1. StakeOf[Q1 \cup Q2] + StakeOf[Q1 \cap Q2] = StakeOf[Q1] + StakeOf[Q2]
  BY StakeUnion
<1>2. StakeOf[Q1 \cup Q2] <= StakeOf[A1]
  <2>1. Q1 \cup Q2 \subseteq A1 /\ A1 \in SUBSET Validators
    OBVIOUS
  <2> QED BY <2>1, StakeMonotone
<1>3. StakeOf[A1] <= StakeOf[Validators]
  BY StakeMonotone
<1>4. StakeOf[Validators] = StakeOf[A2] + StakeOf[S2]
  <2>1. A2 \cap S2 = {} /\ A2 \cup S2 = Validators /\ A2 \in SUBSET Validators
    OBVIOUS
  <2> QED BY <2>1, StakeAssumption
<1>5. /\ StakeOf[Q1] \in Nat /\ StakeOf[Q2] \in Nat
      /\ StakeOf[Q1 \cup Q2] \in Nat /\ StakeOf[Q1 \cap Q2] \in Nat
      /\ StakeOf[A1] \in Nat /\ StakeOf[A2] \in Nat
      /\ StakeOf[S2] \in Nat /\ StakeOf[Validators] \in Nat
  <2>1. /\ Q1 \in SUBSET Validators /\ Q2 \in SUBSET Validators
        /\ Q1 \cup Q2 \in SUBSET Validators /\ Q1 \cap Q2 \in SUBSET Validators
        /\ A1 \in SUBSET Validators /\ A2 \in SUBSET Validators
        /\ Validators \in SUBSET Validators
    OBVIOUS
  <2> QED BY <2>1, StakeAssumption
<1>6. 3 * StakeOf[Q1] >= 2 * StakeOf[A1] /\ 3 * StakeOf[Q2] >= 2 * StakeOf[A2]
  BY DEF QuorumReached
<1> QED
  <2> HIDE DEF A1, A2
  <2> QED BY <1>1, <1>2, <1>3, <1>4, <1>5, <1>6

-----------------------------------------------------------------------------
(* Type correctness *)

LEMMA InitType == Init => TypeOK
  BY NamesAssumption, BoundsAssumption, BlocksAssumption
  DEF Init, TypeOK, Rounds, Heights, Phases, Certs, NoCert, NoHeight, Reasons,
      Faults

\* A call that fails closed keeps the security variables typed.
LEMMA FailClosedType ==
  ASSUME TypeOK, NEW reason \in Faults, NEW id \in Ids \cup {None},
         FailClosed(reason, id)
  PROVE  /\ phase' = "locked"
         /\ slashed \subseteq slashed' /\ slashed' \subseteq Validators
         /\ attempts' \in [(Ids \cup {None}) \X Reasons -> 0..SpamThreshold]
         /\ lockdown' \in Reasons \cup {"consensus_double_sign", None}
<1> DEFINE noted == NoteAttempt(attempts, id, reason)
           spam  == noted[<<id, reason>>] >= SpamThreshold
           code  == IF spam THEN "consensus_round_spam" ELSE reason
<1>1. reason \in Reasons /\ code \in Reasons
  BY DEF Reasons
<1>2. ASSUME NEW count \in [(Ids \cup {None}) \X Reasons -> 0..SpamThreshold],
             NEW r \in Reasons
      PROVE  NoteAttempt(count, id, r)
               \in [(Ids \cup {None}) \X Reasons -> 0..SpamThreshold]
  BY BoundsAssumption DEF NoteAttempt
<1>3. noted \in [(Ids \cup {None}) \X Reasons -> 0..SpamThreshold]
  BY <1>1, <1>2 DEF TypeOK
<1>4. NoteAttempt(noted, id, code)
        \in [(Ids \cup {None}) \X Reasons -> 0..SpamThreshold]
  <2> HIDE DEF noted, code
  <2> QED BY <1>1, <1>2, <1>3
<1>5. attempts' = IF spam THEN NoteAttempt(noted, id, code) ELSE noted
  BY DEF FailClosed
<1>6. attempts' \in [(Ids \cup {None}) \X Reasons -> 0..SpamThreshold]
  <2> HIDE DEF noted, code, spam
  <2> QED BY <1>3, <1>4, <1>5
<1>7. lockdown' = LockReason(code)
  BY DEF FailClosed
<1>8. lockdown' \in Reasons \cup {"consensus_double_sign", None}
  <2> HIDE DEF code
  <2> QED BY <1>1, <1>7 DEF LockReason
<1> QED
  BY <1>6, <1>8 DEF FailClosed, MarkSlashed, TypeOK

LEMMA OpenRoundType ==
  ASSUME TypeOK, NEW r \in Rounds, NEW p \in Proposers \cup {None},
         OpenRound(r, p)
  PROVE  TypeOK'
  BY DEF TypeOK, OpenRound, BeginRound, Reset, Phases, finalVars, securityVars

LEMMA AddBlockType ==
  ASSUME TypeOK, NEW h \in Hashes, AddBlock(h, BlockHeight[h])
  PROVE  TypeOK'
<1> DEFINE ht == BlockHeight[h]
<1>1. ht \in Heights /\ [height |-> ht, n |-> 0] \in Rounds
  BY BlocksAssumption, BoundsAssumption DEF Heights, Rounds
<1>2. blocks' \in [Hashes -> Heights \cup {NoHeight}]
  BY <1>1 DEF TypeOK, AddBlock, RecordBlock
<1>3. CASE UNCHANGED roundVars
  BY <1>2, <1>3 DEF TypeOK, AddBlock, roundVars, finalVars, securityVars
<1>4. CASE BeginRound([height |-> ht, n |-> 0])
  BY <1>1, <1>2, <1>4
  DEF TypeOK, AddBlock, BeginRound, Reset, Phases, finalVars, securityVars
<1> QED
  BY <1>3, <1>4 DEF AddBlock

\* What a call that fails closed leaves alone besides the security variables.
LEMMA FailClosedStepType ==
  ASSUME TypeOK, NEW reason \in Faults, NEW id \in Ids \cup {None},
         FailClosed(reason, id),
         UNCHANGED <<round, proposal, votes, seen, expected, qc, finalVars,
                     blocks, attested>>
  PROVE  TypeOK'
  BY FailClosedType DEF TypeOK, Phases, finalVars

LEMMA SubmitProposalType ==
  ASSUME TypeOK, NEW id \in Ids, NEW r \in Rounds, NEW h \in Hashes,
         SubmitProposal(id, r, h)
  PROVE  TypeOK'
<1>1. CASE UNCHANGED vars
  BY <1>1 DEF TypeOK, vars, roundVars, finalVars, securityVars
<1>2. CASE ProposalUnknown(id, r)
  BY <1>2, FailClosedStepType DEF ProposalUnknown, Faults
<1>3. CASE ProposalUnexpected(id, r)
  BY <1>3, FailClosedStepType DEF ProposalUnexpected, Faults
<1>4. CASE ProposalAccepted(id, r, h)
  <2>1. round.height \in Heights
    BY DEF TypeOK, Rounds
  <2> QED
    BY <1>4, <2>1
    DEF TypeOK, ProposalAccepted, RecordBlock, Phases, finalVars, securityVars
<1> QED
  BY <1>1, <1>2, <1>3, <1>4
  DEF SubmitProposal, ProposalStale, ProposalOutOfPhase, Refuse

\* The three sets a counted vote enters stay typed.
LEMMA RecordType ==
  ASSUME TypeOK, NEW v \in Votes, Record(v), round' = round
  PROVE  /\ votes' \subseteq Votes /\ \A w \in votes' : w.round = round'
         /\ seen' \subseteq Votes /\ \A w \in seen' : w.round = round'
         /\ attested' \subseteq Votes
  BY DEF TypeOK, Record, Current

LEMMA CertificateType ==
  ASSUME NEW counted, NEW type, NEW h \in Hashes
  PROVE  Certificate(counted, type, h) \in Certs
  BY DEF Certificate, Certs, QuorumReached

LEMMA SubmitUnverifiedType ==
  ASSUME TypeOK, NEW id \in Ids, SubmitUnverified(id)
  PROVE  TypeOK'
<1>1. CASE UNCHANGED vars
  BY <1>1 DEF TypeOK, vars, roundVars, finalVars, securityVars
<1>2. CASE VoteFake(id)
  BY <1>2, FailClosedStepType DEF VoteFake, Faults
<1> QED
  BY <1>1, <1>2 DEF SubmitUnverified, VoteLocked, Refuse

LEMMA AttestRefusedType ==
  ASSUME TypeOK, NEW id \in Ids, AttestRefused(id)
  PROVE  TypeOK'
<1>1. attempts' \in [(Ids \cup {None}) \X Reasons -> 0..SpamThreshold]
  <2>1. "double_vote" \in Reasons
    BY DEF Reasons, Faults
  <2> QED
    BY <2>1, BoundsAssumption DEF TypeOK, AttestRefused, NoteAttempt
<1>2. /\ round' \in Rounds /\ proposal' \in Hashes \cup {None}
      /\ votes' \subseteq Votes /\ \A v \in votes' : v.round = round'
      /\ seen' \subseteq Votes /\ \A s \in seen' : s.round = round'
  BY DEF TypeOK, AttestRefused, Reset
<1> QED
  BY <1>1, <1>2 DEF TypeOK, AttestRefused, MarkSlashed, Phases, finalVars

LEMMA SlashElsewhereType ==
  ASSUME TypeOK, NEW id \in Validators, SlashElsewhere(id)
  PROVE  TypeOK'
  BY DEF TypeOK, SlashElsewhere, MarkSlashed, roundVars, finalVars

LEMMA SubmitVoteType ==
  ASSUME TypeOK, NEW v \in Votes, SubmitVote(v)
  PROVE  TypeOK'
<1>0. v.validator \in Ids /\ v.type \in VoteTypes /\ v.hash \in Hashes
  BY DEF Votes
<1>1. CASE UNCHANGED vars
  BY <1>1 DEF TypeOK, vars, roundVars, finalVars, securityVars
<1>3. CASE VoteUnknown(v)
  BY <1>0, <1>3, FailClosedStepType DEF VoteUnknown, Faults
<1>4. CASE VoteDouble(v)
  BY <1>0, <1>4, FailClosedStepType DEF VoteDouble, Faults
<1>5. CASE VotePrevote(v)
  <2> DEFINE cert == Certificate(votes \cup {v}, "prevote", v.hash)
  <2>1. cert \in Certs
    BY <1>0, CertificateType
  <2>2. qc' \in [Rounds \X VoteTypes -> Certs]
    <3> HIDE DEF cert
    <3>1. qc' = [qc EXCEPT ![<<round, "prevote">>] = cert]
      BY <1>5 DEF VotePrevote, cert
    <3> QED BY <2>1, <3>1 DEF TypeOK
  <2>3. phase' \in Phases
    BY <1>5 DEF VotePrevote, TypeOK, Phases
  <2> QED
    BY <1>5, <2>2, <2>3, RecordType DEF TypeOK, VotePrevote, finalVars, securityVars
<1>6. CASE VotePrecommitMismatch(v)
  BY <1>6, FailClosedType, RecordType
  DEF TypeOK, VotePrecommitMismatch, Faults, Phases, finalVars
<1>7. CASE VotePrecommit(v)
  <2> DEFINE cert == Certificate(votes \cup {v}, "precommit", v.hash)
  <2>1. cert \in Certs
    BY <1>0, CertificateType
  <2>2. qc' \in [Rounds \X VoteTypes -> Certs]
    <3> HIDE DEF cert
    <3>1. qc' = [qc EXCEPT ![<<round, "precommit">>] = cert]
      BY <1>7 DEF VotePrecommit, cert
    <3> QED BY <2>1, <3>1 DEF TypeOK
  <2>3. phase' \in Phases
    BY <1>7 DEF VotePrecommit, TypeOK, Phases, Finalize
  <2>4. /\ finalizedHashes' \subseteq Hashes /\ finalizedHeight' \in Heights
        /\ completed' \subseteq [round : Rounds, hash : Hashes]
    <3>1. CASE UNCHANGED finalVars
      BY <3>1 DEF TypeOK, finalVars
    <3>2. CASE Finalize(v.hash)
      <4>1. round.height \in Heights
        BY DEF TypeOK, Rounds
      <4>2. finalizedHeight' \in Heights
        BY <1>0, <3>2, <4>1 DEF TypeOK, Finalize
      <4>3. [round |-> round, hash |-> v.hash] \in [round : Rounds, hash : Hashes]
        BY <1>0 DEF TypeOK
      <4> QED BY <1>0, <3>2, <4>2, <4>3 DEF TypeOK, Finalize
    <3> QED BY <1>7, <3>1, <3>2 DEF VotePrecommit
  <2> QED
    BY <1>7, <2>2, <2>3, <2>4, RecordType DEF TypeOK, VotePrecommit, securityVars
<1> QED
  BY <1>1, <1>3, <1>4, <1>5, <1>6, <1>7
  DEF SubmitVote, VoteStale, VoteDuplicate, VoteOutOfPhase, Refuse

LEMMA NextType == TypeOK /\ [Next]_vars => TypeOK'
<1> SUFFICES ASSUME TypeOK, [Next]_vars PROVE TypeOK'
  OBVIOUS
<1>1. CASE UNCHANGED vars
  BY <1>1 DEF TypeOK, vars, roundVars, finalVars, securityVars
<1> QED
  BY <1>1, OpenRoundType, AddBlockType, SubmitProposalType, SubmitVoteType,
     SubmitUnverifiedType, AttestRefusedType, SlashElsewhereType
  DEF Next, ProposalLocked, Refuse

\* The state of the round machine keeps its shape in every behaviour.
THEOREM TypeCorrect == Spec => []TypeOK
  BY InitType, NextType, PTL DEF Spec

-----------------------------------------------------------------------------
(* Quorums, double votes and finality *)

\* Backing survives steps that count more votes.
LEMMA BackedStable ==
  ASSUME attested \subseteq attested', NEW c, NEW S,
         Backed(c, S, attested)
  PROVE  Backed(c, S, attested')
  BY DEF Backed

\* Outcomes already returned stay backed when votes and slashed only grow.
LEMMA CompletedStable ==
  ASSUME CompletedBacked, completed' = completed,
         attested \subseteq attested', slashed \subseteq slashed'
  PROVE  CompletedBacked'
<1> SUFFICES ASSUME NEW c \in completed, NEW d \in completed
             PROVE  \E S, T \in SUBSET slashed' :
                      /\ S \subseteq T \/ T \subseteq S
                      /\ Backed(c, S, attested') /\ Backed(d, T, attested')
  BY DEF CompletedBacked
<1>1. PICK S \in SUBSET slashed, T \in SUBSET slashed :
        (S \subseteq T \/ T \subseteq S) /\ Backed(c, S, attested) /\ Backed(d, T, attested)
  BY DEF CompletedBacked
<1>2. S \in SUBSET slashed' /\ T \in SUBSET slashed'
  OBVIOUS
<1>3. Backed(c, S, attested') /\ Backed(d, T, attested')
  BY <1>1, BackedStable
<1> QED
  BY <1>1, <1>2, <1>3

\* A step that changes no vote and convicts only validators it slashes, locking
\* the round; a slash alone convicts nobody.
LEMMA QuietStep ==
  ASSUME IInv, TypeOK', ConvictedSlashed',
         UNCHANGED <<votes, seen, attested, completed>>,
         slashed \subseteq slashed',
         phase' = "locked" \/ (attempts' = attempts /\ phase # "locked")
           \/ UNCHANGED <<attempts, phase>>
  PROVE  IInv'
<1>1. SeenIsFunction' /\ Bookkeeping'
  BY DEF IInv, SeenIsFunction, Bookkeeping
<1>2. NoConvictedVoteCounts'
  BY DEF IInv, NoConvictedVoteCounts
<1>3. CompletedBacked'
  BY CompletedStable DEF IInv
<1> QED
  BY <1>1, <1>2, <1>3 DEF IInv

\* A call that fails closed slashes the validator it counts an attempt against.
LEMMA FailClosedConvicts ==
  ASSUME IInv, NEW reason \in Faults, NEW id \in Ids \cup {None},
         FailClosed(reason, id)
  PROVE  ConvictedSlashed'
<1> SUFFICES ASSUME NEW v \in Validators, v \notin slashed', NEW fault \in Faults
             PROVE  attempts'[<<v, fault>>] = 0
  BY DEF ConvictedSlashed
<1>1. v # id /\ v \notin slashed
  BY DEF FailClosed, MarkSlashed
<1>2. ASSUME NEW count, NEW r, count[<<v, fault>>] = 0,
             count \in [(Ids \cup {None}) \X Reasons -> 0..SpamThreshold]
      PROVE  NoteAttempt(count, id, r)[<<v, fault>>] = 0
  BY <1>1, <1>2 DEF NoteAttempt, Ids, Reasons
<1> DEFINE noted == NoteAttempt(attempts, id, reason)
           spam  == noted[<<id, reason>>] >= SpamThreshold
           code  == IF spam THEN "consensus_round_spam" ELSE reason
<1>3. noted \in [(Ids \cup {None}) \X Reasons -> 0..SpamThreshold]
  BY BoundsAssumption DEF NoteAttempt, IInv, TypeOK, Reasons
<1>4. attempts[<<v, fault>>] = 0
  BY <1>1 DEF IInv, ConvictedSlashed
<1>5. noted[<<v, fault>>] = 0
  BY <1>2, <1>4 DEF IInv, TypeOK
<1>6. NoteAttempt(noted, id, code)[<<v, fault>>] = 0
  <2> HIDE DEF noted, code
  <2> QED BY <1>2, <1>3, <1>5
<1>7. attempts' = IF spam THEN NoteAttempt(noted, id, code) ELSE noted
  BY DEF FailClosed
<1> QED
  <2> HIDE DEF noted, code, spam
  <2> QED BY <1>5, <1>6, <1>7

\* A call that fails closed and otherwise leaves votes and outcomes alone.
LEMMA FailClosedQuiet ==
  ASSUME IInv, TypeOK', NEW reason \in Faults, NEW id \in Ids \cup {None},
         FailClosed(reason, id), UNCHANGED <<votes, seen, attested, completed>>
  PROVE  IInv'
<1>1. ConvictedSlashed'
  BY FailClosedConvicts
<1>2. slashed \subseteq slashed' /\ phase' = "locked"
  BY DEF FailClosed, MarkSlashed
<1> QED
  BY <1>1, <1>2, QuietStep

\* Opening a round drops the votes and restricts _seen.
LEMMA ResetStep ==
  ASSUME IInv, TypeOK', ConvictedSlashed', NEW r, Reset(r),
         UNCHANGED <<attested, completed>>, slashed \subseteq slashed'
  PROVE  IInv'
<1>1. SeenIsFunction' /\ Bookkeeping' /\ NoConvictedVoteCounts'
  BY DEF IInv, Reset, SeenIsFunction, Bookkeeping, NoConvictedVoteCounts
<1>2. CompletedBacked'
  BY CompletedStable DEF IInv
<1> QED
  BY <1>1, <1>2 DEF IInv

LEMMA BeginRoundStep ==
  ASSUME IInv, TypeOK', NEW r, BeginRound(r),
         UNCHANGED <<attested, completed, slashed, attempts>>
  PROVE  IInv'
<1>1. ConvictedSlashed'
  BY DEF IInv, ConvictedSlashed
<1> QED
  BY <1>1, ResetStep DEF BeginRound

\* A counted vote of an active validator without a prior one.
LEMMA RecordStep ==
  ASSUME IInv, NEW v \in Votes, Record(v)
  PROVE  /\ SeenIsFunction' /\ Bookkeeping'
         /\ attempts' = attempts => NoConvictedVoteCounts'
<1>1. \A s \in seen : s.validator = v.validator /\ s.type = v.type => FALSE
  BY DEF Record, Prior, Current, IInv, TypeOK
<1>2. SeenIsFunction'
  BY <1>1 DEF Record, SeenIsFunction, IInv
<1>3. Bookkeeping'
  BY DEF Record, Bookkeeping, IInv
<1>4. ASSUME attempts' = attempts PROVE NoConvictedVoteCounts'
  BY <1>4 DEF Record, Current, IsActive, ConvictedSlashed, NoConvictedVoteCounts, IInv
<1> QED
  BY <1>2, <1>3, <1>4

\* The certificate that finalizes a block shows that it is backed.
LEMMA FinalizeStep ==
  ASSUME IInv, NEW v \in Votes, VotePrecommit(v), Finalize(v.hash),
         Certificate(votes \cup {v}, "precommit", v.hash).reached
  PROVE  CompletedBacked'
<1> DEFINE new == [round |-> round, hash |-> v.hash]
           Q == Voters(votes \cup {v}, "precommit", v.hash)
<1>1. /\ attested' = attested \cup {v} /\ slashed' = slashed
      /\ completed' = completed \cup {new}
  BY DEF VotePrecommit, Record, Finalize, securityVars
<1>2. Backed(new, slashed, attested')
  <2>1. QuorumReached(StakeOf[Q], StakeOf[Validators \ slashed])
    BY DEF Certificate, TotalActiveStake
  <2>2. Q \in SUBSET (Validators \ slashed)
    BY DEF Voters
  <2>3. \A w \in Q : [validator |-> w, type |-> "precommit",
                      round |-> new.round, hash |-> new.hash] \in attested'
    BY <1>1 DEF Voters, IInv, Bookkeeping
  <2> HIDE DEF Q, new
  <2> QED BY <1>1, <2>1, <2>2, <2>3 DEF Backed
<1>3. ASSUME NEW d \in completed
      PROVE  \E T \in SUBSET slashed : Backed(d, T, attested')
  <2>1. \E T \in SUBSET slashed : Backed(d, T, attested)
    BY DEF IInv, CompletedBacked
  <2> QED BY <1>1, <2>1, BackedStable
<1> SUFFICES ASSUME NEW c \in completed', NEW d \in completed'
             PROVE  \E S, T \in SUBSET slashed' :
                      /\ S \subseteq T \/ T \subseteq S
                      /\ Backed(c, S, attested') /\ Backed(d, T, attested')
  BY DEF CompletedBacked
<1> HIDE DEF new
<1>4. CASE c = new /\ d = new
  BY <1>1, <1>2, <1>4
<1>5. CASE c = new /\ d \in completed
  <2>1. PICK T \in SUBSET slashed : Backed(d, T, attested')
    BY <1>3, <1>5
  <2>2. slashed \in SUBSET slashed' /\ T \in SUBSET slashed' /\ T \subseteq slashed
    BY <1>1
  <2> QED BY <1>2, <1>5, <2>1, <2>2
<1>6. CASE c \in completed /\ d = new
  <2>1. PICK T \in SUBSET slashed : Backed(c, T, attested')
    BY <1>3, <1>6
  <2>2. slashed \in SUBSET slashed' /\ T \in SUBSET slashed' /\ T \subseteq slashed
    BY <1>1
  <2> QED BY <1>2, <1>6, <2>1, <2>2
<1>7. CASE c \in completed /\ d \in completed
  <2>1. PICK S \in SUBSET slashed, T \in SUBSET slashed :
          (S \subseteq T \/ T \subseteq S) /\ Backed(c, S, attested) /\ Backed(d, T, attested)
    BY <1>7 DEF IInv, CompletedBacked
  <2>2. Backed(c, S, attested') /\ Backed(d, T, attested')
    BY <1>1, <2>1, BackedStable
  <2> QED BY <1>1, <2>1, <2>2
<1> QED
  BY <1>1, <1>4, <1>5, <1>6, <1>7

LEMMA InitInv == Init => IInv
  BY InitType DEF Init, IInv, SeenIsFunction, Bookkeeping, ConvictedSlashed,
                  NoConvictedVoteCounts, CompletedBacked, Ids, Reasons

LEMMA StutterInv == ASSUME IInv, TypeOK', UNCHANGED vars PROVE IInv'
<1>1. ConvictedSlashed'
  BY DEF IInv, ConvictedSlashed, vars, securityVars
<1> QED
  BY <1>1, QuietStep DEF vars, roundVars, finalVars, securityVars

LEMMA SubmitProposalInv ==
  ASSUME IInv, TypeOK', NEW id \in Ids, NEW r \in Rounds, NEW h \in Hashes,
         SubmitProposal(id, r, h)
  PROVE  IInv'
<1>1. CASE UNCHANGED vars
  BY <1>1, StutterInv
<1>2. CASE ProposalUnknown(id, r)
  BY <1>2, FailClosedQuiet DEF ProposalUnknown, finalVars, Faults
<1>3. CASE ProposalUnexpected(id, r)
  BY <1>3, FailClosedQuiet DEF ProposalUnexpected, finalVars, Faults
<1>4. CASE ProposalAccepted(id, r, h)
  <2>1. ConvictedSlashed'
    BY <1>4 DEF IInv, ConvictedSlashed, ProposalAccepted, securityVars
  <2> QED
    BY <1>4, <2>1, QuietStep DEF ProposalAccepted, finalVars, securityVars
<1> QED
  BY <1>1, <1>2, <1>3, <1>4
  DEF SubmitProposal, ProposalStale, ProposalOutOfPhase, Refuse

LEMMA SubmitUnverifiedInv ==
  ASSUME IInv, TypeOK', NEW id \in Ids, SubmitUnverified(id)
  PROVE  IInv'
<1>1. CASE UNCHANGED vars
  BY <1>1, StutterInv
<1>2. CASE VoteFake(id)
  BY <1>2, FailClosedQuiet DEF VoteFake, finalVars, Faults
<1> QED
  BY <1>1, <1>2 DEF SubmitUnverified, VoteLocked, Refuse

LEMMA SubmitVoteInv ==
  ASSUME IInv, TypeOK', NEW v \in Votes, SubmitVote(v)
  PROVE  IInv'
<1>0. v.validator \in Ids
  BY DEF Votes
<1>1. CASE UNCHANGED vars
  BY <1>1, StutterInv
<1>3. CASE VoteUnknown(v)
  BY <1>0, <1>3, FailClosedQuiet DEF VoteUnknown, finalVars, Faults
<1>4. CASE VoteDouble(v)
  BY <1>0, <1>4, FailClosedQuiet DEF VoteDouble, finalVars, Faults
<1>5. CASE VotePrevote(v)
  <2>1. CompletedBacked'
    BY <1>5, CompletedStable DEF IInv, VotePrevote, Record, finalVars, securityVars
  <2>2. ConvictedSlashed'
    BY <1>5 DEF IInv, ConvictedSlashed, VotePrevote, securityVars
  <2> QED
    BY <1>5, <2>1, <2>2, RecordStep DEF IInv, VotePrevote, securityVars
<1>6. CASE VotePrecommitMismatch(v)
  <2>1. slashed \subseteq slashed' /\ phase' = "locked" /\ Record(v)
    BY <1>6 DEF VotePrecommitMismatch, FailClosed, MarkSlashed
  <2>2. CompletedBacked'
    BY <1>6, <2>1, CompletedStable DEF IInv, VotePrecommitMismatch, Record, finalVars
  <2>3. ConvictedSlashed'
    BY <1>6, FailClosedConvicts DEF VotePrecommitMismatch, Faults
  <2> QED
    BY <2>1, <2>2, <2>3, RecordStep DEF IInv, NoConvictedVoteCounts
<1>7. CASE VotePrecommit(v)
  <2>1. CompletedBacked'
    <3>1. CASE UNCHANGED finalVars
      BY <1>7, <3>1, CompletedStable
      DEF IInv, VotePrecommit, Record, finalVars, securityVars
    <3>2. CASE /\ Certificate(votes \cup {v}, "precommit", v.hash).reached
               /\ Finalize(v.hash)
      BY <1>7, <3>2, FinalizeStep
    <3> QED BY <1>7, <3>1, <3>2 DEF VotePrecommit
  <2>2. ConvictedSlashed'
    BY <1>7 DEF IInv, ConvictedSlashed, VotePrecommit, securityVars
  <2> QED
    BY <1>7, <2>1, <2>2, RecordStep DEF IInv, VotePrecommit, securityVars
<1> QED
  BY <1>1, <1>3, <1>4, <1>5, <1>6, <1>7
  DEF SubmitVote, VoteStale, VoteDuplicate, VoteOutOfPhase, Refuse

LEMMA AttestRefusedInv ==
  ASSUME IInv, TypeOK', NEW id \in Ids, AttestRefused(id)
  PROVE  IInv'
<1>1. ConvictedSlashed'
  <2> SUFFICES ASSUME NEW v \in Validators, v \notin slashed', NEW fault \in Faults
               PROVE  attempts'[<<v, fault>>] = 0
    BY DEF ConvictedSlashed
  <2>1. v # id /\ v \notin slashed
    BY DEF AttestRefused, MarkSlashed
  <2>2. attempts[<<v, fault>>] = 0
    BY <2>1 DEF IInv, ConvictedSlashed
  <2> QED
    BY <2>1, <2>2 DEF AttestRefused, NoteAttempt, IInv, TypeOK, Ids, Reasons
<1>2. /\ slashed \subseteq slashed' /\ phase' = "locked"
      /\ UNCHANGED <<attested, completed>>
  BY DEF AttestRefused, MarkSlashed, finalVars
<1>3. CASE UNCHANGED <<votes, seen>>
  BY <1>1, <1>2, <1>3, QuietStep
<1>4. ASSUME NEW r \in Rounds, Reset(r) PROVE IInv'
  BY <1>1, <1>2, <1>4, ResetStep
<1> QED
  BY <1>3, <1>4 DEF AttestRefused

LEMMA SlashElsewhereInv ==
  ASSUME IInv, TypeOK', NEW id \in Validators, SlashElsewhere(id)
  PROVE  IInv'
<1>1. ConvictedSlashed'
  BY DEF IInv, ConvictedSlashed, SlashElsewhere, MarkSlashed
<1> QED
  BY <1>1, QuietStep DEF SlashElsewhere, MarkSlashed, roundVars, finalVars

LEMMA NextInv == IInv /\ [Next]_vars => IInv'
<1> SUFFICES ASSUME IInv, [Next]_vars PROVE IInv'
  OBVIOUS
<1>0. TypeOK'
  BY NextType DEF IInv
<1>1. CASE UNCHANGED vars
  BY <1>0, <1>1, StutterInv
<1>2. ASSUME NEW r \in Rounds, NEW p \in Proposers \cup {None}, OpenRound(r, p)
      PROVE  IInv'
  BY <1>0, <1>2, BeginRoundStep DEF OpenRound, finalVars, securityVars
<1>3. ASSUME NEW h \in Hashes, AddBlock(h, BlockHeight[h])
      PROVE  IInv'
  <2>1. CASE UNCHANGED roundVars
    <3>1. ConvictedSlashed'
      BY <1>3 DEF IInv, ConvictedSlashed, AddBlock, securityVars
    <3> QED
      BY <1>0, <1>3, <2>1, <3>1, QuietStep DEF AddBlock, roundVars, finalVars, securityVars
  <2>2. CASE BeginRound([height |-> BlockHeight[h], n |-> 0])
    BY <1>0, <1>3, <2>2, BeginRoundStep DEF AddBlock, finalVars, securityVars
  <2> QED BY <1>3, <2>1, <2>2 DEF AddBlock
<1> QED
  BY <1>0, <1>1, <1>2, <1>3, SubmitProposalInv, SubmitVoteInv, SubmitUnverifiedInv,
     AttestRefusedInv, SlashElsewhereInv DEF Next, ProposalLocked, Refuse

\* Two blocks finalized in one round are accounted for by equivocation recorded
\* in _attest_by_block and by slashing.
LEMMA AccountableFromInv == IInv => AccountableSafety
<1> SUFFICES ASSUME IInv, NEW c \in completed, NEW d \in completed,
                    c.round = d.round, c.hash # d.hash
             PROVE  3 * StakeOf[Equivocators(c.round)] + 2 * StakeOf[slashed]
                      >= StakeOf[Validators]
  BY DEF AccountableSafety
<1>1. ASSUME NEW S \in SUBSET slashed, NEW T \in SUBSET slashed, S \subseteq T,
             NEW e \in completed, NEW f \in completed,
             e.round = c.round, f.round = c.round, e.hash # f.hash,
             Backed(e, S, attested), Backed(f, T, attested)
      PROVE  3 * StakeOf[Equivocators(c.round)] + 2 * StakeOf[slashed]
               >= StakeOf[Validators]
  <2>1. PICK Q1 \in SUBSET (Validators \ S) :
          /\ QuorumReached(StakeOf[Q1], StakeOf[Validators \ S])
          /\ \A v \in Q1 : [validator |-> v, type |-> "precommit",
                            round |-> e.round, hash |-> e.hash] \in attested
    BY <1>1 DEF Backed
  <2>2. PICK Q2 \in SUBSET (Validators \ T) :
          /\ QuorumReached(StakeOf[Q2], StakeOf[Validators \ T])
          /\ \A v \in Q2 : [validator |-> v, type |-> "precommit",
                            round |-> f.round, hash |-> f.hash] \in attested
    BY <1>1 DEF Backed
  <2>3. S \in SUBSET Validators /\ T \in SUBSET Validators
        /\ slashed \in SUBSET Validators
    BY DEF IInv, TypeOK
  <2>4. 3 * StakeOf[Q1 \cap Q2] + 2 * StakeOf[T] >= StakeOf[Validators]
    BY <1>1, <2>1, <2>2, <2>3, QuorumIntersection
  <2>5. Q1 \cap Q2 \subseteq Equivocators(c.round)
    <3> SUFFICES ASSUME NEW v \in Q1 \cap Q2 PROVE v \in Equivocators(c.round)
      OBVIOUS
    <3> DEFINE p == [validator |-> v, type |-> "precommit",
                     round |-> e.round, hash |-> e.hash]
               q == [validator |-> v, type |-> "precommit",
                     round |-> f.round, hash |-> f.hash]
    <3>1. p \in attested /\ q \in attested /\ v \in Validators
      BY <2>1, <2>2
    <3>2. /\ p.validator = v /\ p.type = "precommit" /\ p.round = c.round
          /\ q.validator = v /\ q.type = "precommit" /\ q.round = c.round
          /\ p.hash # q.hash
      BY <1>1
    <3> HIDE DEF p, q
    <3> QED BY <3>1, <3>2 DEF Equivocators
  <2>6. Equivocators(c.round) \in SUBSET Validators
    BY DEF Equivocators
  <2>7. /\ StakeOf[Q1 \cap Q2] \in Nat /\ StakeOf[Equivocators(c.round)] \in Nat
        /\ StakeOf[Q1 \cap Q2] <= StakeOf[Equivocators(c.round)]
    BY <2>5, <2>6, StakeMonotone
  <2>8. /\ StakeOf[T] \in Nat /\ StakeOf[slashed] \in Nat
        /\ StakeOf[T] <= StakeOf[slashed]
    BY <2>3, StakeMonotone
  <2>9. StakeOf[Validators] \in Nat
    BY StakeAssumption
  <2> QED
    BY <2>4, <2>7, <2>8, <2>9
<1>2. PICK S \in SUBSET slashed, T \in SUBSET slashed :
        (S \subseteq T \/ T \subseteq S) /\ Backed(c, S, attested) /\ Backed(d, T, attested)
  BY DEF IInv, CompletedBacked
<1>3. CASE S \subseteq T
  BY <1>1, <1>2, <1>3
<1>4. CASE T \subseteq S
  BY <1>1, <1>2, <1>4
<1> QED
  BY <1>2, <1>3, <1>4

\* Within one sitting two quorums of one type are for the same block.
LEMMA UniqueFromInv == IInv => UniqueQuorum
<1> SUFFICES ASSUME IInv, NEW type \in VoteTypes,
                    NEW h1 \in Hashes, NEW h2 \in Hashes,
                    Certificate(votes, type, h1).reached,
                    Certificate(votes, type, h2).reached, h1 # h2
             PROVE  FALSE
  BY DEF UniqueQuorum
<1> DEFINE Q1 == Voters(votes, type, h1)
           Q2 == Voters(votes, type, h2)
           A  == Validators \ slashed
<1>1. QuorumReached(StakeOf[Q1], StakeOf[A]) /\ QuorumReached(StakeOf[Q2], StakeOf[A])
  BY DEF Certificate, TotalActiveStake
<1>2. Q1 \in SUBSET A /\ Q2 \in SUBSET A
  BY DEF Voters
<1>3. Q1 \cap Q2 = {}
  <2> SUFFICES ASSUME NEW v \in Q1 \cap Q2 PROVE FALSE
    OBVIOUS
  <2> DEFINE p == [validator |-> v, type |-> type, round |-> round, hash |-> h1]
             q == [validator |-> v, type |-> type, round |-> round, hash |-> h2]
  <2>1. p \in seen /\ q \in seen
    BY DEF Voters, IInv, Bookkeeping
  <2>2. p.validator = q.validator /\ p.type = q.type /\ p.hash # q.hash
    OBVIOUS
  <2> HIDE DEF p, q
  <2> QED BY <2>1, <2>2 DEF IInv, SeenIsFunction
<1> HIDE DEF Q1, Q2
<1>4. StakeOf[Q1 \cup Q2] = StakeOf[Q1] + StakeOf[Q2]
  BY <1>2, <1>3, StakeAssumption
<1>5. /\ StakeOf[Q1 \cup Q2] \in Nat /\ StakeOf[A] \in Nat
      /\ StakeOf[Q1 \cup Q2] <= StakeOf[A]
  <2>1. Q1 \cup Q2 \subseteq A /\ A \in SUBSET Validators
    BY <1>2
  <2> QED BY <2>1, StakeMonotone
<1>6. StakeOf[Q1] \in Nat /\ StakeOf[Q2] \in Nat
  BY <1>2, StakeAssumption
<1> HIDE DEF A
<1> QED
  BY <1>1, <1>4, <1>5, <1>6 DEF QuorumReached

LEMMA Inductive == Spec => []IInv
  BY InitInv, NextInv, PTL DEF Spec

\* Accountable safety of the round machine for every stake distribution.
THEOREM Accountable == Spec => []AccountableSafety
  BY Inductive, AccountableFromInv, PTL

\* One block per vote type can have a quorum in a sitting of a round.
THEOREM QuorumUnique == Spec => []UniqueQuorum
  BY Inductive, UniqueFromInv, PTL

\* No vote of a validator with an attempt against it is counted in a live round.
THEOREM ConvictedDoNotCount == Spec => []NoConvictedVoteCounts
<1>1. IInv => NoConvictedVoteCounts
  BY DEF IInv
<1> QED
  BY Inductive, <1>1, PTL

\* The final height and the final hashes only grow.
THEOREM FinalityGrows == Spec => FinalityMonotone
<1>1. ASSUME TypeOK, [Next]_vars
      PROVE  [/\ finalizedHeight' >= finalizedHeight
              /\ finalizedHashes \subseteq finalizedHashes']_vars
  <2>1. CASE UNCHANGED vars
    BY <2>1
  <2>2. CASE UNCHANGED finalVars
    BY <1>1, <2>2, BoundsAssumption DEF TypeOK, Heights, finalVars
  <2>3. ASSUME NEW v \in Votes, VotePrecommit(v)
        PROVE  /\ finalizedHeight' >= finalizedHeight
               /\ finalizedHashes \subseteq finalizedHashes'
    <3>1. finalizedHeight \in Nat /\ round.height \in Int
      BY <1>1, BoundsAssumption DEF TypeOK, Heights, Rounds
    <3>2. blocks[v.hash] \in Int
      BY <1>1, BoundsAssumption DEF TypeOK, Heights, NoHeight, Votes
    <3> QED
      BY <2>3, <3>1, <3>2 DEF VotePrecommit, Finalize, finalVars
  <2>4. ASSUME NEW r \in Rounds, NEW p \in Proposers \cup {None}, OpenRound(r, p)
        PROVE  UNCHANGED finalVars
    BY <2>4 DEF OpenRound
  <2>5. ASSUME NEW h \in Hashes, AddBlock(h, BlockHeight[h])
        PROVE  UNCHANGED finalVars
    BY <2>5 DEF AddBlock
  <2>6. ASSUME NEW id \in Ids, NEW r \in Rounds, NEW h \in Hashes,
               SubmitProposal(id, r, h)
        PROVE  UNCHANGED finalVars
    BY <2>6 DEF SubmitProposal, ProposalStale, ProposalOutOfPhase,
                ProposalUnknown, ProposalUnexpected, ProposalAccepted, Refuse, vars
  <2>7. ASSUME NEW v \in Votes, SubmitVote(v)
        PROVE  UNCHANGED finalVars \/ VotePrecommit(v)
    BY <2>7 DEF SubmitVote, VoteStale, VoteUnknown,
                VoteDouble, VoteDuplicate, VoteOutOfPhase, VotePrevote,
                VotePrecommitMismatch, Refuse, vars
  <2>8. ASSUME NEW id \in Ids, SubmitUnverified(id) \/ AttestRefused(id)
        PROVE  UNCHANGED finalVars
    BY <2>8 DEF SubmitUnverified, VoteLocked, VoteFake, AttestRefused, Refuse, vars
  <2>9. ASSUME NEW id \in Validators, SlashElsewhere(id)
        PROVE  UNCHANGED finalVars
    BY <2>9 DEF SlashElsewhere
  <2> QED
    BY <1>1, <2>1, <2>2, <2>3, <2>4, <2>5, <2>6, <2>7, <2>8, <2>9
    DEF Next, ProposalLocked, Refuse, vars
<1> QED
  BY <1>1, TypeCorrect, PTL DEF Spec, FinalityMonotone

=============================================================================
