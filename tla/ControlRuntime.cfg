SPECIFICATION Spec
CONSTANTS
  mia = mia
  noa = noa
  Senders <- TwoSenders
  Interrupts <- ThreeCalls
  MaxCrashes = 2
  Sessions = {a, b}
  Clients = {c}
  Sockets = {k1, k2}
  None = None
  Capacity = 1
  MaxAsks = 2
  MaxMessages = 1
  MaxTrouble = 1
INVARIANTS
  HandedOffIsFinal
  AnswerTruthful
  LatestRecovered
  SettledIsObserved
  SlotsHeld
PROPERTIES
  IdleWasTrue
SYMMETRY Sym
VIEW View
CHECK_DEADLOCK FALSE
