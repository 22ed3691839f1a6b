SPECIFICATION FairSpec
CONSTANTS
  Nodes <- MCNodes
  None = None
  Graphs <- MCGraphs
  MaxStarts = 3
INVARIANT FailureStops
CHECK_DEADLOCK FALSE
