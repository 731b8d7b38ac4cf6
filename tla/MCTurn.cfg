SPECIFICATION Spec
CONSTANTS
  Main = Main
  Subs = {s1}
  MaxRetries = 1
  Threshold = 2
  Limit = 2
  Costly = {2}
  s1 = s1
  MaxCalls <- MCCalls
  MaxParts = 2
  MaxTurns = 1
  MaxAsks = 1
  MaxFaults = 1
  MaxIds = 12
  MaxQueue = 1
INVARIANTS ShownOnce AllShown
PROPERTIES TurnEnds
CHECK_DEADLOCK FALSE
