CONSTANTS
  Request = {r1, r2}
  Calm = {TRUE, FALSE}
  RpcMayFail = TRUE
  MaxShutdowns = 1
  MaxRestarts = 1
  Backoff = 30
  MaxSleep = 60
SPECIFICATION CalmSpec
CHECK_DEADLOCK FALSE
INVARIANTS
  TypeOK
  BootedOncePerShutdown
  CheckedVMIsReady
  CacheHasAddress
  NoErrorUnprovoked
  StaleOnlyByShutdown
PROPERTIES
  ReachesHealthCheck
  GetsServed
