SPECIFICATION FairSpec
CONSTANTS
  root = root  a = a  b = b  x = x
  Names = {root, a, b}
  Extras = {x}
  Root = root
  Locks <- SmallLocks
  AllowDev = FALSE
INVARIANTS ResolvesClosure SuccessIsFaultless
PROPERTIES WalkEnds
CHECK_DEADLOCK FALSE
