SPECIFICATION Spec
CONSTANTS
  r1 = r1
  c1 = c1
  c2 = c2
  c3 = c3
  r2 = r2
  w1 = w1
  w2 = w2
  Workers = {w1}
  NoChannel = NoChannel
  Requests = {r1}
  Channels = {c1, c3}
  Priority <- TwoTiers
  MaxTokens <- TokenSizes
  Serves = {c1, c3}
  Limited = {c3}
  RetryTimes = 1
  MaxChanges = 1
  AutoDisable = TRUE
  Suspension <- Pauses
  WaitMax = 1
  StickyTTL = 1
  Pins = {"none", "specific", "bound"}
  Errors = {"rate", "large", "server", "busy", "auth", "client", "reparse", "cancel"}
INVARIANTS AttemptsOnce BlamedFailed
PROPERTY NeverToDisabled
CHECK_DEADLOCK FALSE
