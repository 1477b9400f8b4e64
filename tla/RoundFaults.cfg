SPECIFICATION Spec
CONSTANTS
  v1 = v1
  v2 = v2
  x1 = x1
  a = a
  b = b
  none = none
  Validators <- Pair
  StakeOf <- PairStake
  Outsiders <- Nobody
  Proposers <- Smaller
  Hashes <- MCHashes
  BlockHeight <- AllAtZero
  None = none
  SpamThreshold = 2
  MaxHeight = 1
  MaxRoundN = 0
  MaxAccepted = 2
  MaxSlashed = 1
  MaxFaults = 1
SYMMETRY PairSymmetry
INVARIANT NoConvictedVoteCounts
