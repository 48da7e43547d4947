SPECIFICATION MCSpec
CONSTANTS
  Worker = {w1, w2}
  MaxRev = 1
INVARIANTS TypeOK EndsAreProven
PROPERTIES ImplementsRelease IntegrationIsFinished PullRequestIsAdopted
CHECK_DEADLOCK FALSE
