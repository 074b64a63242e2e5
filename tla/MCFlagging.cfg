SPECIFICATION Spec
CONSTANTS
  c1 = c1
  c2 = c2
  p1 = p1
  t1 = t1
  w1 = w1
  w2 = w2
  Purger = Purger
  None = None
  Consumers = {c1, c2}
  Admins = {c2}
  Phashes = {p1}
  Triples = {t1}
  Workers = {w1, w2}
  AutoHideThreshold = 2
  Ops = {"contribute", "flag", "hit", "delete"}
  Refusable = {"contribute", "flag", "hit"}
  SerialContribute = TRUE
  MaxCalls = 6
  MaxFaults = 1
SYMMETRY WorkerSymmetry
INVARIANT TypeOK
INVARIANT AutoHide
INVARIANT FlagCountExact
INVARIANT SeqUnique
PROPERTY StatusMachine
INVARIANT HitsAudited
PROPERTY DeleteAuthority
PROPERTY RefusedLeaveNoTrace
