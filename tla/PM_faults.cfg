SPECIFICATION AllSpec
CONSTANTS
  l1 = l1
  l2 = l2
  l3 = l3
  t1 = t1
  t2 = t2
  t3 = t3
  None = None
  Uuids = {u1}
  Engines = {e1, e2}
  Links = {l1, l2}
  Triples = {t1, t2}
  Triple <- TwoTriples
  Bad = {l2}
  Split = FALSE
  Faulty = TRUE
  MaxOpen = 2
SYMMETRY Symmetry
INVARIANTS OnlyValidLinks NoSilentLink
PROPERTIES AnnouncedWhenAccepted EnginesConform
CHECK_DEADLOCK FALSE
