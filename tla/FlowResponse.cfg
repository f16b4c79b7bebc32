SPECIFICATION FlowSpec
CONSTANTS
  RequestIds = {r1, r2}
  MaxOutbound = 2
  MaxBuffered = 2
  MaxTombstones = 1
  MaxInbound = 1
  MaxChunk = 2
  MaxExits = 0
  WaitOnListed = FALSE
INVARIANTS
  ResponseAlwaysWins
SYMMETRY Symmetry
CHECK_DEADLOCK FALSE
