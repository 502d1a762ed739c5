SPECIFICATION FairSpec
CONSTANTS
  RuleFile <- MCRuleFile
  SubDir = {"disabled"}
  LogFile <- MCLogFile
  Glob <- MCGlob
  Unreadable <- MCUnreadable
  Broken <- MCBroken
  Faults = {"listing", "mmap"}
  MaxLoads = 2
  MaxEdits = 1
INVARIANTS TypeOK OneSpy PausedOnlyWhileListing RulesAlive RulesReach
PROPERTIES RulesArrive
