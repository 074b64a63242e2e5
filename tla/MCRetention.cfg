SPECIFICATION Spec
CONSTANTS
  c1 = c1
  p1 = p1
  t1 = t1
  t2 = t2
  w1 = w1
  w2 = w2
  Purger = Purger
  None = None
  Consumers = {c1}
  Admins = {}
  Phashes = {p1}
  Triples = {t1, t2}
  Workers = {w1, w2}
  AutoHideThreshold = 1
  Ops = {"contribute", "flag", "hit", "delete", "retention", "preview"}
  Refusable = {"contribute"}
  SerialContribute = FALSE
  MaxCalls = 5
  MaxFaults = 1
SYMMETRY WorkerSymmetry
INVARIANT CyclesNeedResurrect
PROPERTY CursorMoves
PROPERTY RetentionScope
PROPERTY ImplementsCatalog
