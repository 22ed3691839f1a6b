SPECIFICATION FairSpec
CONSTANTS
  Nodes <- MCNodes
  None = None
  Graphs <- MCAllGraphs
  Quick <- MCAllQuick
  MaxConcurrency = 2
INVARIANTS
  RoutingHonoured
  CountersExact
  StopsOnlyWhenDone
PROPERTIES
  ImplementsDagRun
  NoStartAfterAbort
CHECK_DEADLOCK FALSE
