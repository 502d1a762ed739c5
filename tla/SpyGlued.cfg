SPECIFICATION Spec
CONSTANTS
  Text = {a}
  NL = NL
  NUL = NUL
  Threads = {t1}
  Faults = {}
  MaxLen = 2
  MaxInc = 2
  MaxFaults = 0
INVARIANTS NoGluedLine
