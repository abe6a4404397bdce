SPECIFICATION JointFairSpec
CONSTANTS
  declared = declared  stray = stray  ref1 = ref1  ref2 = ref2
  Endpoints = {declared, stray}
  Declared = {declared}
  Dynamic = FALSE
  Refs = {ref1, ref2}
  Spelled = {ref2}
  Words <- ErrorWord
  None = None
  MaxBundle = 5
  PipeSize = 2
  Sizes <- BundleSizes
INVARIANTS EgressHeld ScrubbedNotRefused RefusalArrives BundleReachesProvider
PROPERTIES InvocationReturns WriterEnds
CHECK_DEADLOCK FALSE
