SPECIFICATION MainSpec
CONSTANT MaxHeld = 1
INVARIANTS CountTypeOK Balanced UpWhileHeld CleanExit
PROPERTIES CallsAreLegal
