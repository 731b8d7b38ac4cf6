SPECIFICATION FairSpec
CONSTANTS
  kept = kept
  plain = plain
  t1 = t1
  t2 = t2
  bound = bound
  box = box
  c1 = c1
  c2 = c2
  None = None
  Servers <- TwoServers
  Tools = {t1, t2}
  Offers <- OffersAll
  Callers = {c1, c2}
  Configs <- AllConfigs
  Agents <- OneAgent
  MaxSessions = 2
CHECK_DEADLOCK FALSE
INVARIANTS OneCallPerServer ToolsComplete RepairSpares
PROPERTIES CallsEnd
