SPECIFICATION Spec
CONSTANTS
  Worker = {w1, w2}
  Intent = {a, b}
  MaxHead = 2
  Foreign = Foreign
  None = None
SYMMETRY Symmetry
INVARIANTS TypeOK CommittedIsReported PushedIsProven
PROPERTIES  NoSecondCommit RetryNeverOverwrites
CHECK_DEADLOCK FALSE
