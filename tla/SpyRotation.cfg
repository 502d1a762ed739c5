SPECIFICATION Spec
CONSTANTS
  Text = {a}
  NL = NL
  NUL = NUL
  Threads = {t1, t2}
  Faults = {"thread", "read", "memory"}
  MaxLen = 3
  MaxInc = 2
  MaxFaults = 1
SYMMETRY Symmetry
INVARIANTS TypeOK OneReader InOrderOnce
PROPERTIES FeedSafety
