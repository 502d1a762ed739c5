SPECIFICATION FairSpec
CONSTANTS
  a = a
  SP = SP
  NL = NL
  NUL = NUL
  CR = CR
  EQ = EQ
  HASH = HASH
  Char <- MCChar
  Space <- MCSpace
  MaxLen = 5
CHECK_DEADLOCK FALSE
INVARIANTS TypeOK AsWritten
PROPERTIES Ends
