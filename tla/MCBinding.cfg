SPECIFICATION Spec
CONSTANTS
  r1 = r1  r2 = r2  a1 = a1  a2 = a2  m1 = m1  m2 = m2
  i1 = i1  i2 = i2  f1 = f1  f2 = f2  c1 = c1  gone = gone
  Runs = {r1, r2}
  Artifacts = {a1, a2}
  Manifests = {m1, m2}
  Interfaces = {i1, i2}
  Files = {f1, f2}
  Contents = {c1, gone}
  Gone = gone
  Backends <- Both
  ManifestOf <- ArtifactManifests
  InterfaceOf <- ManifestInterfaces
  None = None  Vanished = Vanished
  MaxChanges = 4
  MaxQuiet = 1
SYMMETRY Symmetry
INVARIANTS RunsUnderAcceptance RunsSealedFiles WatchVouches BoundAsAccepted
CHECK_DEADLOCK FALSE
