SPECIFICATION Spec
CONSTANTS
  s1 = s1
  s2 = s2
  s3 = s3
  None = None
  Elsewhere = Elsewhere
  Free = Free
  Sessions = {s1, s2}
  Members <- TwoMembers
  Config <- TwoRevs
  Ops = {"c", "a", "b"}
  KindsOf <- MixKinds
  TargetOf <- MixTarget
  Ids = {"new"}
  RecordOf <- MixRecord
  NameOf <- OneName
  Earlier <- NoneEarlier
  MaxMoves = 3
INVARIANTS
  LinkWasJoined
  CaptureIsTruth
  ResolvedIsTheMembers
SYMMETRY Sym
CHECK_DEADLOCK FALSE
