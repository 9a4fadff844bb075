SPECIFICATION MSpec
CONSTANTS
  Addresses = {a1, a2}
  Calls = {1, 2, 3}
  Bootstrap = {a1}
  Uuids = {1, 2}
  Shares = {1, 2}
  Happs = {a1, a2}
  FewAddresses = {a1}
  FewCalls = {1, 2}
  None = None
  Direct = Direct
INVARIANTS NoOrphan ShutdownUnloads SharedCanBeJoined SyncedAfterStart
CHECK_DEADLOCK FALSE
