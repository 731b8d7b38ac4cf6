SPECIFICATION FairSpec
CONSTANTS
  Callers = {p, q}
  Size = 2
  Burst = 2
  Rate <- Rates
  Inputs = {0, 3, 4}
  MaxRequests = 6
  Horizon = 3
  MaxPeriod = 4
INVARIANTS TypeOK WithinRate
PROPERTIES Served
CHECK_DEADLOCK FALSE
