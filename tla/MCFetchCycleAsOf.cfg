CONSTANTS
  Endpoints <- MCEndpoints
  Critical = {"underlying", "depth"}
  Extracted = {"underlying"}
  Tolerance <- MCTolerance
  NoStamp = NoStamp
  DayLength = 4
  Underlyings = 2
  Attempts = 2
  Timeout = 1
  MaxBackoff = 1
  Window <- MCWindow
  Past = 1
  Skew = 0
  Answers = {"whole", "hollow", "badjson"}
  Horizon = 1
SPECIFICATION Spec
INVARIANT FetchedByAsOf
