SPECIFICATION Spec
CONSTANTS
  Urls = {a, b}
  NoUrl = NoUrl
  Threads = {t1, t2}
  Healer = healer
  Recoverer = recoverer
  Free = Free
  MaxAttempts = 2
  MaxRequests = 4
  Unhurried = {}
  MaxBreaks = 1
  MaxFaults = 1
INVARIANTS RowsFollow DeletedIsGone
PROPERTIES OneAdds EditKeepsAnalysis
SYMMETRY Symmetry
CHECK_DEADLOCK FALSE
