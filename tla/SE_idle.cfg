SPECIFICATION Spec
CONSTANTS
  Starts = {c1}
  Commits = {}
  Reports = {}
  None = None
INVARIANT StoppedIsIdle
CHECK_DEADLOCK FALSE
