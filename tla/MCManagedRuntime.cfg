SPECIFICATION Spec
CONSTANTS
  m1 = m1
  m2 = m2
  g1 = g1
  g2 = g2
  g3 = g3
  None = None
  Manifest = {m1, m2}
  ManifestOf <- MCManifestOf
  w1 = w1
  w2 = w2
  Writer = {w1, w2}
  Generation = {g1, g2, g3}
INVARIANTS
  TypeOK
  NeverAmbiguous
  RollbackTargetKept
  ReturnConverged
  NeverStale
PROPERTY
  ImplementsContract
