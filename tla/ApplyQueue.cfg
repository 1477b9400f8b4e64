SPECIFICATION FairSpec
CONSTANTS
  forge = forge
  empty = empty
  reorg = reorg
  none = none
  NoJob = none
  Stop = stop
  Jobs <- MCJobs
  Kind <- MCKind
  Follow <- MCFollow
  Bridged = {reorg}
  MaxSize = 2
INVARIANTS TypeOK HonestAnswers RejectedTxsKept BoundedBypass
PROPERTIES NoLateStart EveryCallAnswered WorkerExits
CHECK_DEADLOCK FALSE
