SPECIFICATION Spec
CONSTANTS
  a1 = a1
  a2 = a2
  s1 = s1
  m1 = m1
  m2 = m2
  m3 = m3
  v1 = v1
  None = None
  Agents = {a1, a2}
  Subs = {s1}
  Models = {m1, m2, m3}
  Servers = {v1}
  Default = m1
  Template <- MCTemplate
  MaxSessions = 2
  MaxRuns = 2
  MaxTimers = 1
  MaxFaults = 1
INVARIANTS InterruptReaches GraphIsContexts SwitchPersists
CHECK_DEADLOCK FALSE
