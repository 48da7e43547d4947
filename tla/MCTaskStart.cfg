SPECIFICATION Spec
CONSTANTS
  w1 = w1 w2 = w2 t1 = t1 t2 = t2 s1 = s1 s2 = s2
  first = first moved = moved key = key branch = branch None = None
  Starter = {w1, w2}
  Task = {t1, t2}
  Session = {s1, s2}
  Request <- MCRequest
  BranchOf <- MCBranchOf
  KeyOf <- MCKeyOf
SYMMETRY Symmetric
INVARIANTS TypeOK ActiveIsLive NoLeak OneSession
