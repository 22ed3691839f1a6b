SPECIFICATION Spec
CONSTANTS
  Nodes <- MCNodes
  Names <- MCNames
  Inputs <- MCInputs
INVARIANTS
  VerdictExact
  NeverDeadlocks
  EarliestWave
CHECK_DEADLOCK FALSE
