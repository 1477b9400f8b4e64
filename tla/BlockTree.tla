------------------------------ MODULE BlockTree ------------------------------
(***************************************************************************)
(* The blocks that a node may meet, as a tree.  A block stands for its     *)
(* hash, which commits to its height and its parent, so both are functions *)
(* of it.  Ancestors[b] is b and everything below it: the chain that ends  *)
(* in b.                                                                   *)
(***************************************************************************)
EXTENDS Integers

CONSTANTS Blocks,      \* the block tree
          None,        \* no block
          Parent,      \* the parent of a block, None for a root
          Height,      \* the height of a block
          Ancestors    \* a block and all blocks below it

ASSUME TreeAssumption ==
  /\ None \notin Blocks
  /\ Parent \in [Blocks -> Blocks \cup {None}]
  /\ Height \in [Blocks -> Nat]
  /\ \A b \in Blocks : Parent[b] # None => Height[b] = Height[Parent[b]] + 1

\* What follows from the tree by induction on the height.
ASSUME AncestorsAssumption ==
  /\ Ancestors \in [Blocks -> SUBSET Blocks]
  /\ \A b \in Blocks :
       /\ Ancestors[b] = {b} \cup IF Parent[b] = None THEN {}
                                  ELSE Ancestors[Parent[b]]
       /\ \A x \in Ancestors[b] :
            /\ Height[x] <= Height[b]
            /\ Height[x] = Height[b] => x = b
            /\ Ancestors[x] \subseteq Ancestors[b]
       /\ \A x, y \in Ancestors[b] : Height[x] <= Height[y] => x \in Ancestors[y]

=============================================================================
