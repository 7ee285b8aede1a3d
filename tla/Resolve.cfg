SPECIFICATION ResolverSpec
CONSTANTS
  DepLines <- MCDepLines
  MaxDeps = 3
  Root = "root"
  OldLock = OldLock
  Garbage = Garbage
  MayCrash = TRUE
INVARIANTS
  LockIsAdmitted OptionalAgrees FailureKeepsLock CyclesAreFound
PROPERTIES
  ResolveEnds
CHECK_DEADLOCK FALSE
