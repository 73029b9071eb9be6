SPECIFICATION FairSpec
CONSTANTS
  MaxFailures = 2
  MaxTerms = 1
PROPERTIES
  LossStopsLoops
CHECK_DEADLOCK FALSE
