SPECIFICATION AuthoringSpec
CONSTANTS
  p1 = p1
  p2 = p2
  a1 = a1
  a2 = a2
  Clone = {p1}
  Author = {a1}
  Homes <- OneAlone
  File = {1, 2, 3}
  Old = {1}
  Dir <- NewDirectory
  Scopes <- Whole
  MaxReplay = 2
  MaxRuns = 1
  MaxErrors = 0
  MaxEnds = 0
INVARIANTS
  VerifiedIsCommitted
CHECK_DEADLOCK FALSE
