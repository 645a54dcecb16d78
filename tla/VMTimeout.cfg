CONSTANTS
  Request = {r1}
  Calm = {FALSE}
  RpcMayFail = FALSE
  MaxShutdowns = 0
  MaxRestarts = 0
  Backoff = 3
  MaxSleep = 60
SPECIFICATION Spec
CHECK_DEADLOCK FALSE
PROPERTY StartTimesOut
