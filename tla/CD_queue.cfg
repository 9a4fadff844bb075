SPECIFICATION HSpec
CONSTANTS
  Calls = {c1}
  Connects = {k1}
  MaxRetries = 2
  MaxInner = 4
  Timer = Timer
INVARIANT DrainedCallsAreMade
CHECK_DEADLOCK FALSE
