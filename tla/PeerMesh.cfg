SPECIFICATION Spec
CONSTANTS
  n1 = n1
  n2 = n2
  n3 = n3
  None = none
  Nodes = {n1, n2}
  Rank <- MCRank
  Seeds <- MCSeeds
  MaxPeers <- MCMaxPeers
  Reserved = 1
  MaxPerIp = 2
  Slots <- MCSlots
  MaxFaults = 2
INVARIANTS TypeOK NoMutualTearDown
PROPERTY Converges
CHECK_DEADLOCK FALSE
