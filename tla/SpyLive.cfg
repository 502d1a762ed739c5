SPECIFICATION FairSpec
CONSTANTS
  Text = {a}
  NL = NL
  NUL = NUL
  Threads = {t1}
  Faults = {"read"}
  MaxLen = 3
  MaxInc = 2
  MaxFaults = 1
INVARIANTS NothingHeldBack
PROPERTIES CatchesUp FeedLiveness
