SPECIFICATION FairSpec
CONSTANTS
  Account = {"Alice", "Bob", "Val"}
  Tx <- LiveTx
  from <- LiveFrom
  to <- LiveTo
  value <- LiveValue
  fee <- LiveFee
  nonceOf <- LiveNonce
  price <- LivePrice
  InitBalance <- LiveInitBalance
  Reward = 5
  Cycle = {c1}
  c1 = c1
  c2 = c2
  Producer = "Val"
  Limit = 4
  NonceWindow = 1
  MaxFailures = 2
  Faulty = TRUE
  MaxLostWrites = 1
  MaxIdleCycles = 1
  MaxPeerBlocks = 0
  MaxCrashes = 1
CHECK_DEADLOCK FALSE
PROPERTIES
  ApplicableIsApplied
