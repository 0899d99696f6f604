SPECIFICATION FairSpec
CONSTANTS
  r1 = r1
  r2 = r2
  c1 = c1
  c2 = c2
  Requests = {r1}
  Contexts = {c1}
  CtxOf <- OneContext
  Handlers = {"text", "response", "rerank"}
  Transports = {"http", "sdk"}
  UserQuota0 = 7
  TokenQuota0 = 6
  Unlimited = TRUE
  Estimates = {1, 2}
  Usages = {0, 2, 4}
  TrustFactor = 5
  MaxAttempts = 3
INVARIANTS
  RetryCostBounded
PROPERTIES
  EventuallySettled
