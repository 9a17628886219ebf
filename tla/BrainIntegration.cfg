SPECIFICATION IntegrationSpec
CONSTANTS
  Requests = {r1, r2, r3}
  Keys = {k1, k2, k3}
  NoKey = NoKey
  CacheSize = 2
  TTL = 1
  Retries = {0, 2}
  MaxTime = 3
  Executions = {e1, e2}
  Benchmarks = {b1}
  Iterations = 2
  Times = {0, 1}
  Hosts <- MCHosts
SYMMETRY Symmetric
\* Every request and every execution ends.
CHECK_DEADLOCK FALSE
INVARIANTS CacheSound MetricsExact 
PROPERTIES NothingStaleServed EvictsLeastRecent
