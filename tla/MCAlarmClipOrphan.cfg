SPECIFICATION SerialSpec
CONSTANTS
  Sources = {cam}
  Sessions = {s1, s2, s3}
  Events = {e1, e2, e3}
  EventSource <- OneSource
  Threads = {main, t1}
  Main = main
  NoSession = NoSession
  Free = Free
  PostSeconds = 1
  MaxSessionSeconds = 2
  SettleSeconds = 1
  RecoverOnStartup = TRUE
  MaxTime = 4
  MaxRestarts = 0
  MaxFaults = 0
PROPERTIES EverySessionSealed
CHECK_DEADLOCK FALSE
