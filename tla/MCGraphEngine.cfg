SPECIFICATION FairSpec
CONSTANTS
  Nodes <- MCNodes
  None = None
  Graphs <- MCGraphs
  MaxStarts = 2
INVARIANTS
  UpstreamAvailable
  FailureStops
  CheckpointTruthful
PROPERTIES
  ImplementsDagRun
  RunEnds
CHECK_DEADLOCK FALSE
