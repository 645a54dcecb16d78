CONSTANTS
  Request = {r1, r2}
  Calm = {FALSE}
  RpcMayFail = FALSE
  MaxShutdowns = 0
  MaxRestarts = 0
  Backoff = 30
  MaxSleep = 60
SPECIFICATION Spec
CHECK_DEADLOCK FALSE
SYMMETRY Symmetry
INVARIANT AddressIsCached
