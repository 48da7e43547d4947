SPECIFICATION Spec
CONSTANTS
    Threads = {t1, t2}
    Sessions = {s1, s2}
    Keys = {k}
    NoKey = NoKey
    Kinds = {"zellij", "run"}
    Notes = {n1}
    MaxAttempt = 1
    MaxFaults = 1
    MaxCrashes = 1
SYMMETRY Symmetry
INVARIANTS TypeOK OneAgent OneSessionPerKey 
CHECK_DEADLOCK FALSE
