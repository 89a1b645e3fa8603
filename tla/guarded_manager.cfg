SPECIFICATION GuardedSpec
CONSTANTS
  Users = {alice}
  Vaults = {v1}
  Manager = manager
  LossSink = sink
  ZeroAddress = zero
  DepositCap = 12
  UserFunds = 12
  InitialUsdc <- MCInitialUsdc
  Amounts = {8}
  ProtectionFee = 0
  MaxPrincipal = 6
  MinDuration = 1
  MaxDuration = 1
  MinLossLimit = 2500
  MaxLossLimit = 5000
  FirstTreasury = sink
  MaxPolicies = 2
  Horizon = 1
  Principals = {6}
  LossLimits = {5000}
  Durations = {1}
  Minimums = {1, 3}
  Beneficiaries = {alice}
  Treasuries = {sink}
  MaxTransactions = 2
  MaxMoves = 1
  Droppable = TRUE
  BatchSize = 2
  SlippageBps = 100
  MaxCrashes = 0
  MaxFaults = 0
  AnswersMayBeLost = FALSE
INVARIANTS QuoteDecidesExecution SuccessesArePaid GuardianHolds
PROPERTIES ImplementsGuardian
