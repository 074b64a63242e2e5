SPECIFICATION Spec
CONSTANTS
  q1 = q1
  q2 = q2
  q3 = q3
  q4 = q4
  k1 = k1
  Nobody = Nobody
  Requests = {q1, q2, q3, q4}
  Consumers = {k1}
  Scopes = {{"read"}, {"read", "write"}}
  Needs = {"write"}
  RateLimit = 2
  Minute = 2
  MaxTime = 4
  MaxFaults = 1
SYMMETRY RequestSymmetry
INVARIANT AuthTypeOK
INVARIANT NoBurst
INVARIANT TouchesSpaced
PROPERTY NoEarlyRefusal
INVARIANT TouchesKeepUp
INVARIANT AccessFollowsAccount
