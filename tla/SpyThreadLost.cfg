SPECIFICATION FairSpec
CONSTANTS
  Text = {a}
  NL = NL
  NUL = NUL
  Threads = {t1}
  Faults = {"thread"}
  MaxLen = 2
  MaxInc = 1
  MaxFaults = 1
PROPERTIES EveryLineReported
