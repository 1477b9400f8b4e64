SPECIFICATION Spec
CONSTANTS
  h1 = h1
  h2 = h2
  k1 = k1
  k2 = k2
  Users = {u}
  Txs = {h1, h2}
  Hashes = {h1, h2}
  KeyOrder <- MCKeyOrder
  Times = {1, 2}
  Keys = {k1, k2}
  TxOf <- MCTxOf
  Threads = {s, t, r}
  Relayer = r
  Nobody = nobody
  Stake = 2
  Amount = 2
  Fee = 1
  Burn = 1
  Credits = {3}
  QueueLimit = 1
  LockLimit = 1
  Budget = 2
INVARIANTS TypeOK PendingIsBacked AccountsAddUp
PROPERTY QueuedSettled
CHECK_DEADLOCK FALSE
