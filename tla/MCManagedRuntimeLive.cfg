SPECIFICATION LiveSpec
CONSTANTS
  m1 = m1
  m2 = m2
  g1 = g1
  g2 = g2
  g3 = g3
  None = None
  Manifest = {m1, m2}
  ManifestOf <- MCManifestOf
  w1 = w1
  Writer = {w1}
  Generation = {g1, g2}
  MaxInterrupts = 2
PROPERTY
  Resolved
  Converges
