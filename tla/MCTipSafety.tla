----------------------------- MODULE MCTipSafety -----------------------------
(* Two branches that leave the trunk at heights 1 and 2:
      g - a1 - a2 - a3 - a4
       \    \- b2 - b3
        \- c1                                                             *)
EXTENDS TipSafety, TLC

CONSTANTS g, a1, a2, a3, a4, b2, b3, c1, none

MCBlocks == {g, a1, a2, a3, a4, b2, b3, c1}
MCParent == g :> none @@ a1 :> g @@ c1 :> g @@ a2 :> a1 @@ b2 :> a1
            @@ a3 :> a2 @@ a4 :> a3 @@ b3 :> b2
MCHeight == g :> 0 @@ a1 :> 1 @@ c1 :> 1 @@ a2 :> 2 @@ b2 :> 2
            @@ a3 :> 3 @@ a4 :> 4 @@ b3 :> 3
MCRank   == g :> 0 @@ a1 :> 5 @@ c1 :> 2 @@ a2 :> 1 @@ b2 :> 6
            @@ a3 :> 4 @@ a4 :> 7 @@ b3 :> 3

MCAncestors ==
  LET chain[b \in MCBlocks] ==
        {b} \cup IF MCParent[b] = none THEN {} ELSE chain[MCParent[b]]
  IN chain
=============================================================================
