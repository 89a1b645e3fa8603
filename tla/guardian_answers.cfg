SPECIFICATION FairSpec
CONSTANTS
  Policies = 1
  PolicyIds <- MCPolicyIds
  Values = {40, 60, 100}
  Triggers = {60}
  MaxTransactions = 4
  MaxMoves = 2
  Droppable = FALSE
  MayClose = TRUE
  BatchSize = 2
  SlippageBps = 200
  MaxCrashes = 1
  MaxFaults = 1
  AnswersMayBeLost = TRUE
INVARIANTS IndexIsReplay RecordsTruthful RecordsAreHeeded NoUnprotectedExit
PROPERTIES EveryBreachIsAnswered ReconciledUnlessClosed
