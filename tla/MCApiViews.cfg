\* One admin, one peer, three ids, pages of one and two records.
CONSTANTS
  Consumers = {c1, c2}
  Admins = {c2}
  Categories = {nsfw, scam}
  Provenances = {manual_staff}
  Limits = {0, 5}
  MaxListLimit = 2
  None = none
  MaxId = 3
  MaxCommits = 2

SPECIFICATION Spec
INVARIANTS
  ViewsTypeOK
  PagingSkipsExplained
  StatsDriftBounded
  PeersLearnLittle
