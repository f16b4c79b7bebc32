SPECIFICATION Spec
CONSTANTS
  p = p
  q = q
  Sessions = {p, q, r}
  Endpoints = {e, f}
  None = None
  MaxCrashes = 1
  MaxMissed = 1
  Members = {p, q}
  Guests = {e, f}
  Names = {a, b}
  Old = a
  Nobody = Nobody
  MaxWriteAttempts = 2
  MaxCommands = 5
  MaxTrouble = 1
INVARIANTS
  MemberPublished
  NoStrayEndpoint
  EntriesWereDecided
  BelievesOnlyApproved
SYMMETRY Symmetry
VIEW View
CHECK_DEADLOCK FALSE
