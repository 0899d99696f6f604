SPECIFICATION Spec
CONSTANTS
  Users = {u1}
  Codes = {c1}
  Requests = {r1}
  Handlers = {h1, h2}
  OwnerOf <- MCOwnerOf
  Ops = {"profile", "self", "manage", "admin", "delete", "topup", "bill", "redeem", "code", "recharge", "review", "auth", "restart"}
  Quota0 = 1
  Amount = 1
  Serial = TRUE
  UseRedis = TRUE
  MaxOps = 4
INVARIANTS LedgerExact CreditsPaid BlacklistAgrees
PROPERTIES CacheCatchesUp
CHECK_DEADLOCK FALSE
