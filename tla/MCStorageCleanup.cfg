SPECIFICATION Spec
CONSTANTS
  Files = {1, 2, 3, 4}
  Kind <- MCKind
  Hour <- MCHour
  Soft = 1
  Hard = 2
  Critical = 3
  Capacity = 5
  MinFree = 1
  BreakGlass = TRUE
  MaxFaults = 1
INVARIANTS NoDangling MediaKept
PROPERTIES LastResort EvidenceRules
CHECK_DEADLOCK FALSE
