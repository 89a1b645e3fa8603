SPECIFICATION IntentSpec
CONSTANTS
  Users = {wallet, other}
  Wallet = wallet
  Vaults = {vault}
  DemoVault = vault
  Manager = manager
  LossSink = sink
  ZeroAddress = zero
  DepositCap = 6
  UserFunds = 8
  InitialUsdc <- MCInitialUsdc
  Amounts = {1}
  ProtectionFee = 1
  MaxPrincipal = 4
  MinDuration = 1
  MaxDuration = 1
  MinLossLimit = 100
  MaxLossLimit = 5000
  FirstTreasury = sink
  MaxPolicies = 2
  Horizon = 1
  Principals = {0, 2, 3}
  LossLimits = {5000}
  Durations = {1}
  Minimums = {1}
  Beneficiaries = {other}
  Treasuries = {}
  MinIntentDuration = 1
  MaxIntentDuration = 1
  PageCap = 3
  MaxRequests = 2
  MaxHandoffs = 2
  MaxMoves = 1
INVARIANTS PlanIsOfDraft VerifiedPlanOpens OpenedAsVerified SpendIsAuthorized
