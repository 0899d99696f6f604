SPECIFICATION Spec
CONSTANTS
  w1 = w1
  w2 = w2
  u1 = u1
  u2 = u2
  BatchUpdateTypeCount = 2
  Ids = {u1}
  Amounts = {1}
  Workers = {w1, w2}
  MaxRecords = 2
INVARIANTS
  PersistedAtExit
