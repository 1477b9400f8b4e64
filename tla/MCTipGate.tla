------------------------------ MODULE MCTipGate ------------------------------
(* Two branches, and a block that fails to execute:
      g0 - a1 - a2 - a3
       \   \- x2
        \- b1 - b2                                                         *)
EXTENDS TipGate, TLC

CONSTANTS g0, a1, a2, a3, b1, b2, x2, none

MCBlocks == {g0, a1, a2, a3, b1, b2, x2}
MCValid  == MCBlocks \ {x2}
MCParent == g0 :> none @@ a1 :> g0 @@ b1 :> g0 @@ a2 :> a1 @@ x2 :> a1
            @@ b2 :> b1 @@ a3 :> a2
MCHeight == g0 :> 0 @@ a1 :> 1 @@ b1 :> 1 @@ a2 :> 2 @@ x2 :> 2 @@ b2 :> 2 @@ a3 :> 3
MCRank   == g0 :> 0 @@ a1 :> 1 @@ b1 :> 2 @@ a2 :> 3 @@ x2 :> 4 @@ b2 :> 5 @@ a3 :> 6

MCAncestors ==
  LET chain[b \in MCBlocks] ==
        {b} \cup IF MCParent[b] = none THEN {} ELSE chain[MCParent[b]]
  IN chain
=============================================================================
