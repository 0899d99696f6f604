SPECIFICATION Spec
CONSTANTS
  j1 = j1
  j2 = j2
  sw = sw
  tk = tk
  Channels = {1}
  Present = {1}
  Jobs = {j1}
  MaxAsked = 2
  Requests <- Asked
  Sweep = sw
  Ticker = tk
  AutoDisable = TRUE
  AutoEnable = TRUE
  MaxFailures = 1
  MaxSuspends = 1
  MaxSweeps = 1
INVARIANTS AbilitiesAgree
PROPERTIES EventuallyFresh
