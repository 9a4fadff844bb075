SPECIFICATION HSpec
CONSTANTS
  Objects = {o1, o2}
  Ops = {1, 2, 3}
  Required <- MCRequired
  Optional <- MCOptional
  ReadOnly <- MCReadOnly
  NewData <- MCNewData
  Changes <- MCChanges
  Initial = Initial
  Absent = Absent
INVARIANT UpdateSaves
CHECK_DEADLOCK FALSE
