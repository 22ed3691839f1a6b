SPECIFICATION FairTreeSpec
CONSTANTS
  root = root
  a1 = a1
  a2 = a2
  b1 = b1
  b2 = b2
  b3 = b3
  Agents <- MCAgents
  Root = root
  Children <- MCChildren
  ProviderLimit = 1
  SpawnLimit = 2
INVARIANTS
  SlotAccounting
  NoOrphans
PROPERTY
  TreeFinishes
