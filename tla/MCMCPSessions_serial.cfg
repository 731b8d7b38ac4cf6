CONSTANTS
  Servers = {a, b}
  Procs = {p, q}
  None = None
  MaxCalls = 5
  Faults = {"open"}
  Overlap = FALSE
  Cancels = FALSE

SPECIFICATION Spec
SYMMETRY Symmetry

INVARIANTS SingleRunner NoOrphan

PROPERTIES CloseAllClosesAll PoolSpec
