SPECIFICATION FlowSpec
CONSTANTS
  RequestIds = {r1, r2, r3}
  MaxOutbound = 2
  MaxBuffered = 2
  MaxTombstones = 1
  MaxInbound = 1
  MaxChunk = 2
  MaxExits = 1
  WaitOnListed = TRUE
INVARIANTS
  CallAgreesWithRegistry
  OutcomeKept
  NoSupersededNotice
  ResponseWins
PROPERTIES
  PromiseKept
SYMMETRY Symmetry
CHECK_DEADLOCK FALSE
