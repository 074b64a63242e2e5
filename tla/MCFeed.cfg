SPECIFICATION FairSpec
CONSTANTS
  a = a
  b = b
  t1 = t1
  t2 = t2
  None = None
  Consumers = {a, b}
  Clients = {b}
  Triples = {t1, t2}
  StaleRevive = TRUE
  Wants <- WantsOneTriple
  MaxSyncLimit = 2
  MaxSeq = 4
  MaxOpen = 3
  MaxCrashes = 1
INVARIANT FeedTypeOK
INVARIANT OnlyOvertakenMissed
PROPERTY PagesExact
PROPERTY EventuallyCaughtUp
