SPECIFICATION DevicesSpec
CONSTANTS
  GBSignals = {s1}
  GBAdmins = {a1, a2}
  MaxGBPackets = 2
  MaxGBEvents = 3
  MaxGBRequests = 2
  MaxGBOpens = 1
  MaxGBFaults = 1
  PushAdmins = {b1, b2}
  MaxPublishes = 2
  MaxPushRequests = 3
  MaxPushFaults = 1
  Callbacks = {1, 2}
  TaskAlgorithms = {"a"}
  Payloads <- MCPayloads
  Cycle = 1
  MaxTime = 2
  MaxIntakeFaults = 1
  MaxReviews = 1
  PlanAreas = {x1, x2}
  PlanDevices = {d1, d2}
  PlanGB = {d2}
  PlanTasks = {t1, t2}
  PlanAlgorithms = {g1, g2}
  PlanRequests = {q1, q2}
  MaxPlanRequests = 3
  StoreNames = {n1, n2}
  StoreCodes = {c1, c2}
  StoreVersions = {v1, v2}
  StoreProviders = {m1}
  StoreRequests = {r1, r2}
  MaxStoreRequests = 3
INVARIANTS KeptOut  PushKeptOut PushShown QuietPeriod EventsJustified LegacyAgrees ReferencesKept OneActivePrompt
PROPERTIES OnlineIsHeard ReviewKeepsRow ActiveKept
CHECK_DEADLOCK FALSE
