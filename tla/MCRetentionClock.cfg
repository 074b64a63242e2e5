\* Two fingerprints, so that one change can overtake another; the tombstone
\* window is exactly as long as the client may be offline and a call may last.
SPECIFICATION Spec
CONSTANTS
  f1 = f1
  f2 = f2
  t1 = t1
  t2 = t2
  Ids = {f1, f2}
  Triples = {t1, t2}
  Wanted = t1
  HitDays = 2
  FlagReasonDays = 1
  TombstoneMetadataDays = 1
  TombstoneDays = 3
  Every = 1
  Offline = 2
  MaxDelay = 1
  MaxPending = 2
  MaxAudit = 1
  MaxSeq = 3
  MaxTime = 6
SYMMETRY Alike
INVARIANT RetentionTypeOK
INVARIANT RetiredCopiesGone
INVARIANT Minimised
