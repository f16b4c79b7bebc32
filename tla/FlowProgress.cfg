SPECIFICATION FairFlowSpec
CONSTANTS
  RequestIds = {r1, r2}
  MaxOutbound = 2
  MaxBuffered = 2
  MaxTombstones = 1
  MaxInbound = 2
  MaxChunk = 2
  MaxExits = 1
  WaitOnListed = FALSE
PROPERTIES
  AcceptedSettles
  ParkedCallerServed
  InboundSlotFreed
CHECK_DEADLOCK FALSE
