------------------------------ MODULE TipSafety ------------------------------
(***************************************************************************)
(* TipSafetyService: the tip, the finalized checkpoint and the ancestry    *)
(* window, changed by applying candidates and by advancing finality.       *)
(***************************************************************************)
EXTENDS TipPolicy

CONSTANTS Root,                \* the tip the service is created with
          CheckpointsOnChain   \* callers finalize only blocks below the head

ASSUME ServiceAssumption == Root \in Blocks /\ CheckpointsOnChain \in BOOLEAN

VARIABLES head,        \* TipState.head
          finalized,   \* TipState.finalized, or None
          window       \* AncestryWindow._by_hash

vars == <<head, finalized, window>>

\* evaluate_candidate: the state stays, the window's order may change.
EvaluateCandidate(c) ==
  /\ window' = WindowAfterEvaluate(head, finalized, window, c)
  /\ UNCHANGED <<head, finalized>>

\* apply_candidate: a candidate the policy accepts becomes the head, unless
\* TipState refuses it.
ApplyCandidate(c) ==
  LET w == WindowAfterEvaluate(head, finalized, window, c)
  IN /\ Accepts(head, finalized, window, c) /\ HeadAllowed(finalized, c)
     /\ head' = c
     /\ window' = Record(w, c)
     /\ UNCHANGED finalized

\* A candidate that is not applied leaves the effect of its evaluation.
RejectCandidate(c) ==
  /\ ~(Accepts(head, finalized, window, c) /\ HeadAllowed(finalized, c))
  /\ EvaluateCandidate(c)

\* choose_and_apply
ChooseAndApply(S) ==
  \E b \in S : IsBest(b, S) /\ (ApplyCandidate(b) \/ RejectCandidate(b))

\* advance_finalized.  The code compares heights and not ancestry, and nothing
\* under src calls it yet: that the checkpoint is on the head's chain is left
\* to the caller, which CheckpointsOnChain states.
AdvanceFinalized(c) ==
  /\ CheckpointsOnChain => c \in Ancestors[head]
  /\ FinalAllowed(head, finalized, c)
  /\ finalized' = c
  /\ window' = Record(window, c)
  /\ UNCHANGED head

Init ==
  /\ head = Root
  /\ finalized = None
  /\ window = <<Root>>

Next ==
  \/ \E c \in Blocks : \/ EvaluateCandidate(c)
                       \/ ApplyCandidate(c)
                       \/ RejectCandidate(c)
                       \/ AdvanceFinalized(c)
  \/ \E S \in SUBSET Blocks \ {{}} : ChooseAndApply(S)

Spec == Init /\ [][Next]_vars

-----------------------------------------------------------------------------
(* Properties *)

\* The window never holds a block twice nor more than max_blocks of them.
TypeOK ==
  /\ head \in Blocks
  /\ finalized \in Blocks \cup {None}
  /\ window \in Seq(Blocks)
  /\ Len(window) \in 1..MaxWindow
  /\ \A i, j \in 1..Len(window) : window[i] = window[j] => i = j

\* No sequence of extensions, same-height reorgs and window rollbacks takes the
\* head off the chain of the finalized checkpoint (reorg_policy.py:87-181).
FinalizedOnChain == finalized # None => finalized \in Ancestors[head]

\* Finality only extends: each checkpoint is below the next one, whatever
\* reorganisations happened in between (tip_state.py:178-233).
FinalizedExtends ==
  [][finalized # None => finalized \in Ancestors[finalized']]_vars

\* tip_state.py:25-26 "If finalized is set, finalized.height <= head.height.
\* Updates never lower the tip or finality below the finalized floor": rollbacks
\* and checkpoints in any order, the ones off the head's chain included.
FloorHolds == finalized # None => Height[finalized] <= Height[head]

\* A candidate that the policy accepts is never refused by TipState, so the
\* error path of apply_candidate (service.py:124-135) is not taken.
PolicyAgreesWithState ==
  \A c \in Blocks :
    Accepts(head, finalized, window, c) => HeadAllowed(finalized, c)

\* The walk of walk_parents, which reorders the window as it goes, finds
\* exactly the blocks that the window connects to the head.
WalkFindsAncestors ==
  \A c \in InWindow(window) :
    Height[c] < Height[head] =>
      Walk(Get(window, c), head, c).found = Connects(window, head, c)

=============================================================================
