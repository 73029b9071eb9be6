SPECIFICATION Spec
CONSTANTS
  Account = {"Alice", "Bob", "Val"}
  Tx <- MCTx
  from <- MCfrom
  to <- MCto
  value <- MCvalue
  fee <- MCfee
  nonceOf <- MCnonce
  price <- MCprice
  InitBalance <- MCInitBalance
  Reward = 5
  Cycle = {c1, c2}
  c1 = c1
  c2 = c2
  Producer = "Val"
  Limit = 4
  NonceWindow = 1
  MaxFailures = 2
  Faulty = TRUE
  MaxLostWrites = 0
  MaxIdleCycles = 1
  MaxPeerBlocks = 1
  MaxCrashes = 2
SYMMETRY Cycles
CHECK_DEADLOCK FALSE
INVARIANTS
  TypeOK
  ConfirmedIsDurable
  BlocksNonceOrdered
  NoMoneyFromCrash
  MemoryMatchesRows
  AddsOnHead
