SPECIFICATION FairRunnerSpec
CONSTANTS
  Users = {wallet, keeper, stranger, treasurer}
  Wallet = wallet
  Keeper = keeper
  Stranger = stranger
  Vaults = {vault}
  DemoVault = vault
  Manager = manager
  LossSink = sink
  ZeroAddress = zero
  DepositCap = 6
  WalletFunds = 8
  StrangerFunds = 0
  InitialUsdc <- MCInitialUsdc
  Amounts = {1, 2}
  ProtectionFee = 1
  MaxPrincipal = 6
  MinDuration = 1
  MaxDuration = 1
  MinLossLimit = 100
  MaxLossLimit = 5000
  FirstTreasury = treasurer
  MaxPolicies = 2
  Horizon = 1
  Principals = {6}
  LossLimits = {3000}
  Durations = {1}
  Minimums = {0, 6}
  Beneficiaries = {}
  Treasuries = {}
  Principal = 6
  LossLimit = 3000
  Duration = 1
  MinimumShares = 6
  LossAssets = 2
  Fragile = {"waiting"}
  MaxFaults = 1
  MaxTransactions = 6
  Interference = {}
PROPERTIES LifecycleCompletes
CHECK_DEADLOCK FALSE
