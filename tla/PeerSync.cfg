SPECIFICATION Spec
CONSTANTS
  Blocks    <- MCBlocks
  None      = "none"
  Parent    <- MCParent
  Height    <- MCHeight
  Ancestors <- MCAncestors
  Own       <- MCOwn
  Starts    <- MCStarts
  Probers   = {"prober"}
  BatchSize = 2
  MaxLate   = 1
  MaxWire   = 1
  MaxProbes = 1
INVARIANTS TypeOK TrustIsEarned HandlerUnanswered
PROPERTIES ReaderReturns CatchesUp
CHECK_DEADLOCK FALSE
