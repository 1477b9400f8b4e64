---------------------------- MODULE MCChainCommit ----------------------------
(* "genesis" (gen) proposes the block of height 1, w two of height 2; W is w in
   another spelling.
      g - a1 - a2                  a1: gen, a2: w
            \- b2                  b2: w
            \- c2                  c2: W                                   *)
EXTENDS ChainCommit, TLC

CONSTANTS g, a1, a2, b2, c2, none, gen, v, w, W

MCBlocks == {g, a1, a2, b2, c2}
MCParent == g :> none @@ a1 :> g @@ a2 :> a1 @@ b2 :> a1 @@ c2 :> a1
MCHeight == g :> 0 @@ a1 :> 1 @@ a2 :> 2 @@ b2 :> 2 @@ c2 :> 2
MCNames  == {gen, v, w, W}
MCMiner  == g :> gen @@ a1 :> gen @@ a2 :> w @@ b2 :> w @@ c2 :> W
MCFold   == gen :> gen @@ v :> v @@ w :> w @@ W :> w

MCAncestors ==
  LET chain[b \in MCBlocks] ==
        {b} \cup IF MCParent[b] = none THEN {} ELSE chain[MCParent[b]]
  IN chain
=============================================================================
