SPECIFICATION MCSpec
CONSTANTS
  p1 = p1
  p2 = p2
  a1 = a1
  a2 = a2
  Proc = {p1, p2}
  None = None
  Ttl = 3
  RenewTicks = 1
  PollTicks = 3
  Clone = {p1, p2}
  Author = {a1, a2}
  Homes <- OneOrTwo
  File = {1, 2, 3}
  Old = {1}
  Dir <- NewDirectory
  Scopes <- WithNewDirectory
  MaxReplay = 2
  MaxRuns = 3
  MaxErrors = 1
  MaxEnds = 1
INVARIANTS
  FreshLeaderHolds
  StaleLeaderYields
  TakeoverBounded
  RunsIsolated
  CommittedIsKept
