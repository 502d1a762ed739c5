SPECIFICATION LineSpec
CONSTANTS
  RuleFile <- MCRuleFile
  SubDir = {}
  LogFile <- MCLogFile
  Glob <- MCGlob
  Unreadable = {}
  Broken = {}
  Faults = {}
  MaxLoads = 1
  MaxEdits = 0
  Kind <- MCKind
  Matching <- MCMatching
  Deleting = {"drop"}
  Hosting = {}
  Given = {"server"}
  MaxLines = 1
INVARIANTS HostOptional
