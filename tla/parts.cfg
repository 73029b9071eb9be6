SPECIFICATION MCSpec
CONSTANTS
  Claims = {c1, c2, c3}
  Addresses = {a, b}
  Window = 1
  MaxRestarts = 1
  MaxLost = 1
  HourCap = 2
  DayCap = 3
  TaskCap = 1
  HourLength = 1
  DayLength = 2
  SideCalls = 1
  MaxQueue = 2
  MaxFailed = 1
  GasLimits = {2, 4}
  BlockGas = 7
  FailedGas = 1
  OpCosts = {1}
  StorageCosts = {2}
  LogCosts = {2, 3}
  MaxReceipts = 3
  Server = {s1, s2, s3}
  Files = 3
  Once = {2}
  MaxFaults = 1
  MaxDeaths = 2
  MaxFailures = 2
  MaxTerms = 2
INVARIANTS
  NoGap
  SequentialNonces
  OverdrawnByCallsInFlight
  RestartForgetsUnwritten
  ReceiptsAddUp
  RefusedOnlyIfInterrupted
  RecordedInOrder
  OneInterval
  LossStopsProduction
  RunningHasLoop
PROPERTIES
  GrantedIsPaid
  PauseLifts
  BootEnds
  LeaderWorks
CHECK_DEADLOCK FALSE
