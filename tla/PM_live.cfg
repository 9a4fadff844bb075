SPECIFICATION FairLifeSpec
CONSTANTS
  l1 = l1
  l2 = l2
  l3 = l3
  t1 = t1
  t2 = t2
  t3 = t3
  None = None
  Uuids = {u1, u2}
  Engines = {e1, e2}
  Links = {l1}
  Triples = {t1, t2}
  Triple <- OneLink
  Bad = {}
  Split = TRUE
  Faulty = TRUE
  MaxOpen = 2
PROPERTIES EventuallyReplicated
CHECK_DEADLOCK FALSE
