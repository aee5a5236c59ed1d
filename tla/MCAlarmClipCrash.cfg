SPECIFICATION Spec
CONSTANTS
  Sources = {cam}
  Sessions = {s1, s2}
  Events = {e1, e2}
  EventSource <- OneSource
  Threads = {main, t1}
  Main = main
  NoSession = NoSession
  Free = Free
  PostSeconds = 1
  MaxSessionSeconds = 2
  SettleSeconds = 1
  RecoverOnStartup = TRUE
  MaxTime = 3
  MaxRestarts = 1
  MaxFaults = 1
PROPERTIES ImplementsPromise
SYMMETRY Symmetry
