SPECIFICATION Spec
CONSTANTS
  p1 = p1  p2 = p2  p3 = p3
  script = script  wheel = wheel
  Procs = {p1, p2}
  Files <- TwoFiles
  Embeds <- ScriptSet
  SealFile = SealFile
  NoProc = NoProc  Gone = Gone  Junk = Junk  NoSeal = NoSeal  BadSeal = BadSeal
  InitRoots <- Absent
  MaxCalls = 1
  MaxBuilds = 4
  Mishaps <- NoFaults
CHECK_DEADLOCK FALSE
INVARIANTS ConcurrentBindsSucceed
