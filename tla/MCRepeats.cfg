SPECIFICATION RFairSpec
CONSTANTS
  c1 = c1
  c2 = c2
  byName = byName
  pattern = pattern
  Calls <- TwoCalls
  Rules <- TwoRules
  Covers <- ByNameAndPattern
  Own <- SavesByName
  Trusted = {}
  Blocked = {}
  Retried = {c1}
  MaxRetries = 1
  Timed = TRUE
  Switch = TRUE
  Rerun = TRUE
INVARIANTS TypeOK QuestionsBounded RepeatsBounded
PROPERTIES DenyRuleHolds DenyPersists TurnEnds
