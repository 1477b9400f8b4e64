SPECIFICATION Spec
CONSTANTS
  g = g
  a1 = a1
  a2 = a2
  a3 = a3
  a4 = a4
  b2 = b2
  b3 = b3
  c1 = c1
  none = none
  None = none
  Blocks <- MCBlocks
  Parent <- MCParent
  Height <- MCHeight
  Ancestors <- MCAncestors
  HashRank <- MCRank
  Root = g
  MaxWindow = 3
  CheckpointsOnChain = TRUE
INVARIANTS TypeOK FinalizedOnChain PolicyAgreesWithState WalkFindsAncestors
PROPERTY FinalizedExtends
