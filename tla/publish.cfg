SPECIFICATION FairSpec
CONSTANTS
  p1 = p1
  p2 = p2
  h1 = h1
  h2 = h2
  Process = {h1, h2}
  Pacer = {p1, p2}
  Hosts <- OneOrTwo
  treeOf <- Queue
  good <- Verdicts
  Interval = 1
  Batch = 2
  MaxFaults = 1
INVARIANTS
  NothingDropped
PROPERTIES
  PublishesLog
  Paced
  GoodIsPublished
CHECK_DEADLOCK FALSE
