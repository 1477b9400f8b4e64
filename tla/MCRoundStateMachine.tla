------------------------- MODULE MCRoundStateMachine -------------------------
(* Small instances of RoundStateMachine. *)
EXTENDS RoundStateMachine, TLC

CONSTANTS v1, v2, x1, a, b, none

MCHashes  == {a, b}
Outsider  == {x1}
Nobody    == {}
Smaller   == {v2}
AllAtZero == [h \in MCHashes |-> 0]
AllAtOne  == [h \in MCHashes |-> 1]

\* Two validators of which one holds two thirds: it is a quorum by itself, the
\* other becomes one when the first is slashed.
Pair      == {v1, v2}
PairStake == [S \in SUBSET Pair |->
                (IF v1 \in S THEN 2 ELSE 0) + (IF v2 \in S THEN 1 ELSE 0)]

PairSymmetry == Permutations(MCHashes)
=============================================================================
