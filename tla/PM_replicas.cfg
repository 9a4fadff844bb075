SPECIFICATION LifeSpec
CONSTANTS
  l1 = l1
  l2 = l2
  l3 = l3
  t1 = t1
  t2 = t2
  t3 = t3
  None = None
  Uuids = {u1, u2}
  Engines = {e1, e2}
  Links = {l1, l2}
  Triples = {t1, t2}
  Triple <- Twins
  Bad = {}
  Split = TRUE
  Faulty = FALSE
  MaxOpen = 2
SYMMETRY LinkSymmetry
INVARIANTS TypeOK OneLiveEngine NoMissedAddition
PROPERTIES NoWriteAfterRemoval
CHECK_DEADLOCK FALSE
