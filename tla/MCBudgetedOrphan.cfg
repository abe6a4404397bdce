SPECIFICATION Spec
CONSTANTS
  leader = leader  kid = kid
  Leader = leader
  Kids = {kid}
  OutputCap = 2
  PipeSize = 2
  InputSize = 1
  MaxWrites = 4
INVARIANTS BreachLeavesNoOrphan
CHECK_DEADLOCK FALSE
