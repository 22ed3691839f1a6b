SPECIFICATION FairSpec
CONSTANTS
  Nodes <- MCNodes
  None = None
  Graphs <- MCHardFailure
  Quick <- MCNoneQuick
  MaxConcurrency = 4
PROPERTY AbortedRunEnds
CHECK_DEADLOCK FALSE
