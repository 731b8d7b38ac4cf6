CONSTANTS
  Servers = {a, b}
  Procs = {p, q}
  None = None
  MaxCalls = 3
  Faults = {"open", "crash", "exit"}
  Overlap = TRUE
  Cancels = TRUE

SPECIFICATION FairSpec

INVARIANTS PooledSessionIsHeld TrackedIsNotShutDown OneCreator

PROPERTIES CloseEnds GetEnds
