SPECIFICATION FairSpec
CONSTANTS
  r1 = r1
  r2 = r2
  Requests = {r1, r2}
  KindsOf <- AnyBesideClaude
  Quota0 = 4
  Estimates = {1, 3}
  Usages = {0, 2}
  Ids = {1}
  NoId = 0
  MaxEvents = 1
  TrustFactor = 3
  MaxAttempts = 2
INVARIANTS SettledExactly CostBounded
PROPERTIES EventuallySettled
