SPECIFICATION CallSpec
CONSTANTS
  c1 = c1
  c2 = c2
  m1 = m1
  m2 = m2
  Calls <- TwoCalls
  Roster <- OneMember
  Kinds <- AskKinds
  Messages <- PlainMessages
  Limit = 10
  WorstOrigin = 3
  Origins = {1, 3}
  MaxTrouble = 1
INVARIANTS
  AskIsHeard
CHECK_DEADLOCK FALSE
