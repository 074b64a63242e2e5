SPECIFICATION Spec
CONSTANTS
  c1 = c1
  c2 = c2
  p1 = p1
  t1 = t1
  w1 = w1
  w2 = w2
  Purger = Purger
  None = None
  Consumers = {c1, c2}
  Admins = {}
  Phashes = {p1}
  Triples = {t1}
  Workers = {w1, w2}
  AutoHideThreshold = 2
  Ops = {"contribute", "flag", "delete"}
  Refusable = {}
  SerialContribute = FALSE
  MaxCalls = 6
  MaxFaults = 0
SYMMETRY WorkerSymmetry
INVARIANT AutoHide
