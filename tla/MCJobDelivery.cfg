SPECIFICATION FairSpec
CONSTANTS
  MaxJobs = 2
  Polls = {p1, p2}
  MaxThrows = 1
INVARIANTS
  NothingLost
PROPERTIES
  NoEcho
  ResultsArrive
CHECK_DEADLOCK FALSE
