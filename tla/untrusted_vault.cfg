SPECIFICATION UntrustedSpec
CONSTANTS
  Owner = owner
  Beneficiary = beneficiary
  Treasury = treasury
  Manager = manager
  Honest = honest
  Untrusted = untrusted
  Funds = 7
  Fee = 1
  Principals = {2}
  Minimums = {0, 1}
  Reports = {0, 1, 2, 3}
  MaxPolicies = 2
  MaxDepth = 2
INVARIANTS PaidOnce HonestPoliciesWhole
PROPERTIES GiftsStay HonestPoliciesClose
CHECK_DEADLOCK FALSE
