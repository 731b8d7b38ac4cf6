SPECIFICATION FairSpec
CONSTANTS
  w = w
  f = f
  g = g
  h = h
  l = l
  x = x
  y = y
  n1 = n1
  n2 = n2
  box = box
  shut = shut
  s1 = s1
  s2 = s2
  k1 = k1
  Dir = Dir
  Denied = Denied
  None = None
  Absent = Absent
  Paths <- MCPaths
  WorkDir = w
  Lines = {x, y}
  Up <- MCUp
  Links <- MCLinks
  Trees <- MCTrees
  Tools <- MCTools
  Category <- MCCategory
  Skills = {k1}
  Configs <- MCConfigs
  Profiles <- MCProfiles
  Forms <- MCForms
  MaxCalls = 2
  MaxTask <- MCMaxTask
  MaxBatch = 2
  MaxFaults = 1
  Timed = TRUE
  MaxRetries = 1
INVARIANTS AnsweredIsOver OutputsStay
PROPERTIES RunsAsBound EditsSurvive CallsAnswered
CHECK_DEADLOCK FALSE
