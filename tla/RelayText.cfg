SPECIFICATION FairSpec
CONSTANTS
  r1 = r1
  r2 = r2
  c1 = c1
  c2 = c2
  Requests = {r1, r2}
  Contexts = {c1, c2}
  CtxOf <- OwnContext
  Handlers = {"text", "response", "rerank"}
  Transports = {"http"}
  UserQuota0 = 5
  TokenQuota0 = 4
  Unlimited = FALSE
  Estimates = {1, 3}
  Usages = {0, 4}
  TrustFactor = 3
  MaxAttempts = 1
INVARIANTS
  Solvent
  NeverOverRefunded
  ExactSettlement
  TokenFollowsUser
PROPERTIES
  EventuallyRefunded
