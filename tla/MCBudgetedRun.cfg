SPECIFICATION FairSpec
CONSTANTS
  leader = leader  kid = kid
  Leader = leader
  Kids = {kid}
  OutputCap = 2
  PipeSize = 2
  InputSize = 1
  MaxWrites = 4
INVARIANTS OutputBounded OutputComplete BreachKillsGroup
PROPERTIES RunEnds
CHECK_DEADLOCK FALSE
