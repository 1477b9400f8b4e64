SPECIFICATION Spec
CONSTANTS
  g = g
  a1 = a1
  a2 = a2
  b2 = b2
  c2 = c2
  none = none
  v = v
  w = w
  W = W
  gen = gen
  None = none
  Blocks <- MCBlocks
  Parent <- MCParent
  Height <- MCHeight
  Ancestors <- MCAncestors
  Names <- MCNames
  Exempt = {gen}
  Members = {v, w, W}
  Offenders = {v, w}
  Fold <- MCFold
  Miner <- MCMiner
  Executes <- MCBlocks
  Genesis = g
  Own = {v}
  EpochLength = 2
INVARIANTS StateMatchesChain NoEquivocationAccepted FinalizedKept
PROPERTY ImplementsLedger
