SPECIFICATION Spec
CONSTANTS
  Savers = {"sqlite", "memory"}
  Fan = 2
  Keep = 2
  Cancels = TRUE
  Faults = TRUE
  MaxPuts = 10
INVARIANTS IndexSound HistoryWhole
CHECK_DEADLOCK FALSE
