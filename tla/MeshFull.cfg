SPECIFICATION Spec
CONSTANTS
  n1 = n1
  n2 = n2
  n3 = n3
  None = none
  Nodes = {n1, n2, n3}
  Rank <- FullRank
  Seeds <- FullSeeds
  MaxPeers <- FullMaxPeers
  Reserved = 1
  MaxPerIp = 2
  Slots <- FullSlots
  MaxFaults = 0
INVARIANT DialsKeepASession
CHECK_DEADLOCK FALSE
