SPECIFICATION Spec
CONSTANTS
  c1 = c1
  p1 = p1
  t1 = t1
  w1 = w1
  w2 = w2
  Purger = Purger
  None = None
  Consumers = {c1}
  Admins = {}
  Phashes = {p1}
  Triples = {t1}
  Workers = {w1, w2}
  AutoHideThreshold = 2
  Ops = {"contribute", "delete", "retention"}
  Refusable = {}
  SerialContribute = TRUE
  MaxCalls = 4
  MaxFaults = 0
SYMMETRY WorkerSymmetry
INVARIANT NoInternalError
