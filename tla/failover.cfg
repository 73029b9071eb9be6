SPECIFICATION Spec
CONSTANTS
  Account = {"Alice", "Bob", "Val"}
  Tx <- MCTx
  from <- MCfrom
  to <- MCto
  value <- MCvalue
  fee <- MCfee
  nonceOf <- MCnonce
  Reward = 5
  Process = {w1, w2}
  Producer = "Val"
  InitBalance <- MCInitBalance
  MaxBlocks = 3
PROPERTIES
  BlocksAppendOnly
CHECK_DEADLOCK FALSE
