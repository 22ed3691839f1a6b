SPECIFICATION FairSpec
CONSTANTS
  Callers = {c1, c2}
  MaxRegs = 3
INVARIANTS
  OneWriter
  TimerFollowsStatus
  RegistryTruthful
PROPERTY CallersAnswered
CHECK_DEADLOCK FALSE
