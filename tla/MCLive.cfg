SPECIFICATION FairSpec
CONSTANTS
  c1 = c1
  p1 = p1
  t1 = t1
  w1 = w1
  w2 = w2
  Purger = Purger
  None = None
  Consumers = {c1}
  Admins = {}
  Phashes = {p1}
  Triples = {t1}
  Workers = {w1, w2}
  AutoHideThreshold = 1
  Ops = {"contribute", "flag", "delete", "retention", "preview"}
  Refusable = {}
  SerialContribute = FALSE
  MaxCalls = 5
  MaxFaults = 0
PROPERTY EveryCallEnds
