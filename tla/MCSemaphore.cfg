SPECIFICATION FairSpec
CONSTANTS
  Callers = {c1, c2, c3, c4, c5}
  Limits <- MCLimits
INVARIANTS
  SlotsAreHolders
  NoIdleSlot
PROPERTIES
  ArrivalOrder
  EveryWaiterServed
  ImplementsLimiter
