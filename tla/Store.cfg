SPECIFICATION FairSpec
CONSTANTS
  Request = {r1, r2, r3}
  Addr = {a1, a2}
  Code <- MCCode
  Success <- MCSuccess
  MaxBlocks = 2
INVARIANTS TypeOK NoStaleHandler OnlySentLeft
PROPERTIES PromiseSafety PromiseLiveness
