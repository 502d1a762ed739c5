SPECIFICATION Spec
CONSTANTS
  RuleFile <- MCRuleFile
  SubDir = {"disabled"}
  LogFile <- MCLogFile
  Glob <- MCGlob
  Unreadable <- MCUnreadable
  Broken <- MCBroken
  Faults = {}
  MaxLoads = 2
  MaxEdits = 0
INVARIANTS FreedLeavesList
