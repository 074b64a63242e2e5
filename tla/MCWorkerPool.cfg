\* More requests than threads, more threads than connections, two restarts of the database.
CONSTANTS
  Requests = {q1, q2, q3}
  Kinds = {"health", "first_delete"}
  MaxWorkers = 2
  MaxConns = 1
  MinConns = 1
  MaxOutages = 2

SPECIFICATION Spec
INVARIANTS
  PoolTypeOK
  ConnectionsAccounted
  DeadConnectionsSpent
  TouchNeverDecides
PROPERTY EveryRequestAnswered
