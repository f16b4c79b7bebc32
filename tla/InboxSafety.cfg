SPECIFICATION InboxSpec
CONSTANTS
  Messages = {m1, m2, m3}
  Twins = {}
  Sessions = {s1, s2}
  MaxItems = 2
  MaxListed = 1
  MaxOps = 2
  MaxCrashes = 1
  MaxCommands = 1
INVARIANTS
  NoMessageLost
  CancelIsFinal
  NoLostWakeup
  CopiesBounded
PROPERTIES
  MailboxKept
SYMMETRY Symmetry
CHECK_DEADLOCK FALSE
