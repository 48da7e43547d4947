SPECIFICATION Spec
CONSTANTS
    Procs = {p1, p2, p3}
    NoProc = NoProc
    Files <- TwoFiles
    Plans <- TwoPlans
    MaxTries = 1
    MaxFailures = 2
SYMMETRY Symmetry
INVARIANTS TypeOK MutualExclusion
PROPERTIES AtomicCommits
CHECK_DEADLOCK FALSE
