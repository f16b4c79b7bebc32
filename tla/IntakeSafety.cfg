SPECIFICATION IntakeSpec
CONSTANTS
  Procs = {p, q}
  Members = {m, o}
  Names = {1, 2}
  Texts = {a, b}
  Junk = {x}
  None = None
  Contact = Contact
  Dead = Dead
  MaxDrops = 2
  MaxPerScan = 1
  MaxTrouble = 3
INVARIANTS
  OneRecipient
  PersistedFirst
  NoFileLost
SYMMETRY Symmetry
CONSTRAINT LocksRespected
CHECK_DEADLOCK FALSE
