SPECIFICATION LoopSpec
CONSTANTS
  s1 = s1
  s2 = s2
  s3 = s3
  Servers = {s1, s2, s3}
  Policy <- MCPolicy
  Helpers = {"text", "response", "claude", "search"}
  CallIds = {c1, none}
  NoCallId = none
  MaxCalls = 2
  Quota0 = 9
  PreQuota = 2
  RoundQuota = 2
  Prices = {1, 3}
  MaxRounds = 3
  MaxAttempts = 2
  MaxSpend = 1
INVARIANTS PaidExactly CallsSettled
PROPERTIES EventuallyReturns
CHECK_DEADLOCK FALSE
