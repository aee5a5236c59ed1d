SPECIFICATION FairSpec
CONSTANTS
  Devices = {d1}
  Threads = {t1, t2}
  Limiter = limiter
  NoDevice = NoDevice
  MaxRequests = 2
  Unhurried = {}
  MaxFaults = 1
  MaxFailures = 1
  MaxRestarts = 1
PROPERTIES LimitStops
CHECK_DEADLOCK FALSE
