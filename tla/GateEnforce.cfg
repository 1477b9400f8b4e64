SPECIFICATION GateFairSpec
CONSTANTS
  g0 = g0
  a1 = a1
  a2 = a2
  a3 = a3
  b1 = b1
  b2 = b2
  x2 = x2
  none = none
  None = none
  Blocks <- MCBlocks
  Parent <- MCParent
  Height <- MCHeight
  Ancestors <- MCAncestors
  HashRank <- MCRank
  Valid <- MCValid
  BootTip = g0
  MaxWindow = 1
  Importers = {i1, i2}
  Env = {"queue_fails", "late_apply", "sync_fails", "forge", "reorg", "reorg_and_import"}
INVARIANT GateInSync
PROPERTY FollowerCatchesUp
