CONSTANTS
  Request = {r1}
  Calm = {FALSE}
  RpcMayFail = FALSE
  MaxShutdowns = 1
  MaxRestarts = 0
  Backoff = 30
  MaxSleep = 60
SPECIFICATION HealthySpec
CHECK_DEADLOCK FALSE
PROPERTY StoppedVMIsNoticed
