SPECIFICATION Spec
CONSTANTS
  a = a
  b = b
  t1 = t1
  None = None
  Consumers = {a, b}
  Clients = {b}
  Triples = {t1}
  StaleRevive = FALSE
  Wants <- WantsAll
  MaxSyncLimit = 2
  MaxSeq = 4
  MaxOpen = 2
  MaxCrashes = 0
INVARIANT TombstonesReachPeers
