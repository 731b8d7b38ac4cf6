SPECIFICATION Spec
CONSTANTS
  Savers = {"sqlite", "memory"}
  Fan = 2
  Keep = 0
  Cancels = FALSE
  Faults = FALSE
  MaxPuts = 20
INVARIANTS RewindShowsThread
PROPERTIES ThreadIsConversation
CHECK_DEADLOCK FALSE
