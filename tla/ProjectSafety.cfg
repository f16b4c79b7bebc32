SPECIFICATION Spec
CONSTANTS
  None = None
  Bad = Bad
  Refused = Refused
  Names = {"ann", "bob"}
  Sockets = {"a", "b"}
  Ids = {"x", "y", "x y"}
  Selectors = {"x", "y"}
  Procs = {"p", "q"}
  Sources = {"s1", "s2"}
  Template <- Scaffold
  Foreign <- Sound
  Drafts <- Edits
  Scenes <- AllScenes
  Callers <- AllCallers
  Targets <- AllTargets
  MaxMoves = 2
INVARIANTS
  VerdictIsTrue
  ListAgrees
PROPERTIES
  NothingOverwritten
CHECK_DEADLOCK FALSE
