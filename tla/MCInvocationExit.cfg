SPECIFICATION JointSpec
CONSTANTS
  declared = declared  stray = stray  ref1 = ref1  ref2 = ref2
  Endpoints = {declared, stray}
  Declared = {declared}
  Dynamic = FALSE
  Refs = {ref1, ref2}
  Spelled = {}
  Words <- NoWord
  None = None
  MaxBundle = 5
  PipeSize = 2
  Sizes <- BundleSizes
INVARIANTS EgressReadOnEveryExit
CHECK_DEADLOCK FALSE
