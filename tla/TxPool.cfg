SPECIFICATION Spec
CONSTANTS
  alice = alice
  bob = bob
  t1 = t1
  t2 = t2
  t3 = t3
  t4 = t4
  t5 = t5
  Users = {alice, bob}
  Miners = {m}
  Burner = burner
  Txs = {t1, t2, t3, t4, t5}
  Batches = {{t2}, {t1, t4}, {t3, t5}}
  Faulty <- MCFaulty
  NoGas = {t5}
  From <- MCFrom
  To <- MCTo
  Nonce <- MCNonce
  Value <- MCValue
  Price <- MCPrice
  Dust <- MCDust
  MinerFee = 1
  Burned = 1
  Stake = 5
  Reward = 2
  MaxSupply = 13
  PoolSize = 2
  CleanupShare = 2
  BlockLimit = 2
  MaxHeight = 2
  MaxHandlers = 2
INVARIANTS TypeOK   BuiltBlockExecutes 
CHECK_DEADLOCK FALSE
