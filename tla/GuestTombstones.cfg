SPECIFICATION GuestSpec
CONSTANTS
  Members = {m, n}
  Guests = {g, h}
  Names = {a, b}
  Old = a
  Nobody = Nobody
  MaxWriteAttempts = 2
  MaxCommands = 5
  MaxTrouble = 0
PROPERTIES
  TombstonesKept
CHECK_DEADLOCK FALSE
