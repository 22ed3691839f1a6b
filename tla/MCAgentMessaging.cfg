SPECIFICATION FairSpec
CONSTANTS
  parent = parent
  child = child
  None = None
  Agents <- MCAgents
  Parent <- MCParent
  MaxMessages = 2
  MailboxCap = 1
  AsyncEnabled = FALSE
  Parkable = {child}
  MaxParks = 1
INVARIANTS
  NothingLost
  ShownOnce
  NobodyWaitsInVain
PROPERTIES
  CallsReturn
  AsidesArrive
CHECK_DEADLOCK FALSE
