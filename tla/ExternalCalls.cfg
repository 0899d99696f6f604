SPECIFICATION Spec
CONSTANTS
  t1 = t1
  t2 = t2
  c1 = c1
  c2 = c2
  None = None
  Txns = {t1, t2}
  Calls = {c1, c2}
  Amounts = {2}
  Finals = {0, 3}
  UserQuota0 = 4
  TokenQuota0 = 5
  MaxFailures = 1
SYMMETRY Symmetry
INVARIANTS BooksBalance NoLateSettlement
PROPERTIES TerminalIsFinal
