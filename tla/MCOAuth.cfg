SPECIFICATION FairSpec
CONSTANTS
  a = a
  None = None
  Providers = {a}
  NumPorts = 2
  MaxConns = 1
  MaxFaults = 2
INVARIANTS FlowHeard
PROPERTIES TokensSurvive AnswerReturned
CHECK_DEADLOCK FALSE
