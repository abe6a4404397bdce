SPECIFICATION FairSpec
CONSTANTS
  Argvs <- Lines
  FdOf <- Numbers
  Timeouts = {"5"}
  MaxFd = 8
  Tables <- Runtimes
  Files <- Delivered
  Cap = 2
  Chunk = 2
  PipeSize = 2
  MaxSent = 4
  MaxMoves = 3
INVARIANTS BundleBounded BundleWhole NoNameLeft ChildAsAsked
PROPERTIES ShimEnds
CHECK_DEADLOCK FALSE
