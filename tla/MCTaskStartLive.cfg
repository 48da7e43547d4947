SPECIFICATION LiveSpec
CONSTANTS
  w1 = w1 t1 = t1 t2 = t2 t3 = t3 s1 = s1 s2 = s2 s3 = s3
  first = first key = key branch = branch None = None
  MaxFaults = 4
  Starter = {w1}
  Task = {t1, t2, t3}
  Session = {s1, s2, s3}
  Request = {first}
  BranchOf <- MCBranchOf
  KeyOf <- MCKeyOf
PROPERTIES NothingStranded
CHECK_DEADLOCK FALSE
