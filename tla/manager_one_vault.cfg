SPECIFICATION FairSpec
CONSTANTS
  Users = {alice}
  Vaults = {v1}
  Manager = manager
  LossSink = sink
  ZeroAddress = zero
  DepositCap = 5
  UserFunds = 6
  InitialUsdc <- MCInitialUsdc
  Amounts = {1, 2}
  ProtectionFee = 1
  MaxPrincipal = 3
  MinDuration = 1
  MaxDuration = 2
  MinLossLimit = 3000
  MaxLossLimit = 5000
  FirstTreasury = sink
  MaxPolicies = 2
  Horizon = 1
  Principals = {2, 4}
  LossLimits = {2000, 4000}
  Durations = {1}
  Minimums = {0, 1}
  Beneficiaries = {alice, v1, manager}
  Treasuries = {v1, manager}
INVARIANTS TypeOK ShareCustody ActivePoliciesPayable
PROPERTIES ManagerKeepsNoUsdc OnlyLossLowersValue ImplementsLifecycle EveryPolicyCloses
