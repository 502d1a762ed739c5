SPECIFICATION FairLineSpec
CONSTANTS
  RuleFile <- MCRuleFile
  SubDir = {}
  LogFile <- MCLogFile
  Glob <- MCGlob
  Unreadable = {}
  Broken = {}
  Faults = {"mmap"}
  MaxLoads = 2
  MaxEdits = 0
  Kind <- MCKind
  Matching <- MCMatching
  Deleting = {"drop"}
  Hosting = {}
  Given = {"server", "host"}
  MaxLines = 2
INVARIANTS LineTypeOK ReadOnce DefinedOnceConfigured
PROPERTIES DeletedNotSent LinesHandled
