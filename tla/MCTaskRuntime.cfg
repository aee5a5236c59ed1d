SPECIFICATION Spec
CONSTANTS
  Devices = {d1, d2}
  Threads = {t1, t2}
  Limiter = limiter
  NoDevice = NoDevice
  MaxRequests = 3
  Unhurried = {1}
  MaxFaults = 0
  MaxFailures = 0
  MaxRestarts = 0
INVARIANTS CalmAgrees
PROPERTIES StopHolds LimitHolds
SYMMETRY Symmetry
CHECK_DEADLOCK FALSE
