SPECIFICATION Spec
CONSTANTS
  Block <- Tree
  parentOf <- TreeParent
  heightOf <- TreeHeight
  timeOf <- TreeTime
  NoParent = "none"
  Genesis = "g"
  MaxReorgDepth = 3
  MinDelta = 1
  MaxSkew = 2
  DbFaults = TRUE
  MaxCopies = 2
  MaxClock = 1
  MaxDeliveries = 6
  MaxRestarts = 1
CHECK_DEADLOCK FALSE
INVARIANTS
  HeightsIncrease
  RowsFromChain
  LinkedSinceBoot
  AcceptedIsTracked
PROPERTIES
  AppendOnly
  SavedStays
  MainNeverShortens
