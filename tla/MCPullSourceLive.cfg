SPECIFICATION FairSpec
CONSTANTS
  Urls = {a}
  NoUrl = NoUrl
  Threads = {t1}
  Healer = healer
  Recoverer = recoverer
  Free = Free
  MaxAttempts = 2
  MaxRequests = 2
  Unhurried = {}
  MaxBreaks = 2
  MaxFaults = 1
PROPERTIES EveryCallReturns RestartRepaired
CHECK_DEADLOCK FALSE
