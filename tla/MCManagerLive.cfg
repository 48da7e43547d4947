SPECIFICATION LiveSpec
CONSTANTS
    Threads = {t1, t2}
    Sessions = {s1}
    Keys = {k}
    NoKey = NoKey
    Kinds = {"zellij"}
    Notes = {n1, n2}
    MaxAttempt = 1
    MaxFaults = 0
    MaxCrashes = 0
PROPERTIES FollowUpsKept CallsReturn DeadIsNoticed
CHECK_DEADLOCK FALSE
