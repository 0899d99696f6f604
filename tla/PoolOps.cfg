SPECIFICATION Spec
CONSTANTS
  u1 = u1
  u2 = u2
  a1 = a1
  a2 = a2
  Ids = {u1, u2}
  Users = {u1}
  Admins = {a1, a2}
  Amounts = {1, 2}
  Spends = {1}
  MaxPools = 2
  MaxAllocs = 2
  MaxBought = 3
INVARIANTS
  WithinBudget
  RecalledBounded
  Reconciled
  Conservation
PROPERTIES
  ClosedPoolFrozen
