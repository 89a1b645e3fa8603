SPECIFICATION Spec
CONSTANTS
  Policies = 1
  PolicyIds <- MCPolicyIds
  Values = {40, 100}
  Triggers = {60}
  MaxTransactions = 2
  MaxMoves = 1
  Droppable = FALSE
  MayClose = FALSE
  BatchSize = 2
  SlippageBps = 200
  MaxCrashes = 1
  MaxFaults = 0
  AnswersMayBeLost = FALSE
INVARIANTS OneInFlight
