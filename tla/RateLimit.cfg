\* Half-second ticks and a window of two seconds, so that Retry-After has
\* something to round.
SPECIFICATION Spec
CONSTANTS
  ann = ann
  nat = nat
  proxy = proxy
  Nobody = Nobody
  Users = {ann}
  Hosts = {nat, proxy}
  Requests <- Calls
  TrustProxy = TRUE
  LimitOf <- Limits
  Window = 3
  SweepEvery = 2
  Grain = 2
  MaxTime = 4
INVARIANTS WindowBound
PROPERTIES OwnBudget RetryAfterSuffices
