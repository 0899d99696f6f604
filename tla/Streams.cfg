SPECIFICATION StreamSpec
CONSTANTS
  Handlers <- MCHandlers
  Dialects = {"openai", "repeated", "late", "bare"}
  Calls = {0, 1}
  MaxLines = 4
INVARIANTS WellFormed CallsIntact UsageReturned
PROPERTIES ReturnsWhenClientLeaves
CHECK_DEADLOCK FALSE
