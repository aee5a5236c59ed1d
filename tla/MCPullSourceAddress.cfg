SPECIFICATION Spec
CONSTANTS
  Urls = {a, b}
  NoUrl = NoUrl
  Threads = {t1}
  Healer = healer
  Recoverer = recoverer
  Free = Free
  MaxAttempts = 1
  MaxRequests = 2
  Unhurried = {0, 1}
  MaxBreaks = 0
  MaxFaults = 0
INVARIANTS SavedIsBuilt
CHECK_DEADLOCK FALSE
