SPECIFICATION QueueSpec
CONSTANTS
  a = a
  b = b
  c = c
  Tasks = {a, b, c}
  Agents = {x, y}
  NoAgent = NoAgent
  Plans <- MCPlans
  Rank <- MCRank
  MaxCompletions = 4
INVARIANTS
  ReadyExact
  HeldByAssignee
  NoStall
