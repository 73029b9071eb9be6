SPECIFICATION Spec
CONSTANTS
  w1 = w1
  w2 = w2
  l1 = l1
  l2 = l2
  t1 = t1
  t2 = t2
  Process = {w1, w2}
  Loop = {l1}
  Task = {t1, t2}
  NoTask = NoTask
  MaxUnscoped = 1
  MaxFailures = 2
  MaxRuns = 5
  MaxHours = 1
  MaxCrashes = 1
  MaxTerms = 2
  MaxLostWrites = 1
  MaxFailedLoads = 1
SYMMETRY Alike
CONSTRAINTS FewRuns FewFaults
INVARIANTS
  SuccessIsOwn
  NotGivenUpEarly
  RetriesBounded
CHECK_DEADLOCK FALSE
