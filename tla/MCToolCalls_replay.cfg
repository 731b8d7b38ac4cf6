SPECIFICATION Spec
CONSTANTS
  c1 = c1
  c2 = c2
  byName = byName
  pattern = pattern
  Calls <- TwoCalls
  Rules <- TwoRules
  Covers <- OwnRules
  Own <- SavesOwn
  Trusted = {}
  Blocked = {}
  Retried <- TwoCalls
  MaxRetries = 1
  Timed = TRUE
  Switch = FALSE
  Rerun = TRUE
PROPERTIES RefusedNeverRuns
