SPECIFICATION ConvergenceSpec
CONSTANTS
  l1 = l1
  l2 = l2
  l3 = l3
  t1 = t1
  t2 = t2
  t3 = t3
  None = None
  Uuids = {u1, u2}
  Engines = {e1, e2, e3}
  Links = {l1, l2, l3}
  Triples = {t1, t2, t3}
  Triple <- ThreeTriples
  Bad = {}
  Split = TRUE
  Faulty = FALSE
  MaxOpen = 1
SYMMETRY LinkSymmetry
INVARIANT Agreement
CHECK_DEADLOCK FALSE
