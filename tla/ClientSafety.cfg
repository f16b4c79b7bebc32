SPECIFICATION CallSpec
CONSTANTS
  c1 = c1
  c2 = c2
  m1 = m1
  m2 = m2
  Calls <- TwoCalls
  Roster <- TwoMembers
  Kinds <- MixedKinds
  Messages <- ManyMessages
  Limit = 10
  WorstOrigin = 3
  Origins = {1, 3}
  MaxTrouble = 1
INVARIANTS
  OneAtATime
  OnlyEmptyListsRefused
PROPERTIES
  NothingSentAfterCancel
  PromiseKept
  CallsEnd
CHECK_DEADLOCK FALSE
