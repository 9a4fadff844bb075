SPECIFICATION OSpec
CONSTANTS
  Starts = {c1, c2, c3}
  Commits = {k1, k2}
  Reports = {"Synced"}
  None = None
  MaxMarks = 5
  Calls = {d1, d2}
  Connects = {e1, e2}
  MaxRetries = 2
  MaxInner = 7
  Timer = Timer
  Uuids = {u1}
  Links = {l1}
  Saves = {s1}
  Callers = {1, 2, 3}
  Registrations = {1, 2}
  Nicks = {n1, n2}
INVARIANTS TimersOfEngine RestIsWritten NothingWaitsConnected NoRetryUnwanted RestIsSaved SavedSurvives CallsAuthorised
PROPERTIES TimedChangeIsWritten QueuedCallsSettle AllRetriesMade LiveConductorStays DueIsSaved CallsSettle
CHECK_DEADLOCK FALSE
