SPECIFICATION Spec
CONSTANTS
  v1 = v1
  v2 = v2
  x1 = x1
  a = a
  b = b
  none = none
  Validators <- Pair
  StakeOf <- PairStake
  Outsiders <- Nobody
  Proposers <- Nobody
  Hashes <- MCHashes
  BlockHeight <- AllAtOne
  None = none
  SpamThreshold = 3
  MaxHeight = 1
  MaxRoundN = 0
  MaxAccepted = 3
  MaxSlashed = 1
  MaxFaults = 0
SYMMETRY PairSymmetry
INVARIANTS TypeOK AccountableSafety UniqueQuorum
PROPERTY FinalityMonotone
