SPECIFICATION ServicesSpec
CONSTANTS
  Keys = {k1, k2}
  Workers = {w1, w2}
  MaxAttempts = 3
  MaxRequests = 3
  JobItems = {1, 2, 3}
  Media <- MCMedia
  TotalSlots = 2
  VideoSlots = 1
  RetryLimit = 1
  MaxJobFaults = 1
  MemJobs = {1}
  MemItems = {1, 2, 3}
  MemMedia <- MCMemMedia
  MemRetryLimit = 1
  Broadcasters = {1, 2}
  HubClients = {1, 2}
  RecTasks = {k1}
  MaxRecRounds = 2
  MaxRecRestarts = 1
  MaxRecRequests = 1
  MaxRecFaults = 1
  BufGoroutines = {h1, h2}
  BufPre = 1
  BufPost = 1
  BufMax = 2
  BufKeep = 2
  JanitorKeep = 2
  MaxBufEvents = 3
INVARIANTS OneWorker NothingForgotten JobEndedIsTrue MemEndedIsTrue WindowKept RecorderIsKnown
PROPERTIES JobSettles HubDelivers OwedIsTaken BufferingRecords
CHECK_DEADLOCK FALSE
