SPECIFICATION Spec
CONSTANTS
    Procs = {p1, p2}
    NoProc = NoProc
    Files <- TwoFiles
    Plans <- TwoPlans
    MaxTries = 2
    MaxFailures = 0
SYMMETRY Symmetry
PROPERTIES NeverTorn
CHECK_DEADLOCK FALSE
