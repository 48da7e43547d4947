SPECIFICATION Spec
CONSTANTS
    Handles = {h1, h2}
    MaxActive = 1
    MaxRetained = 1
    Providers = {p, q}
    Conns = {k1, k2}
    NoConn = NoConn
    NoHandle = NoHandle
    NoProvider = NoProvider
    Fits = 1
    MaxRoster = 3
    Calls = {c1, c2}
SYMMETRY Symmetry
CONSTRAINT OneSide
INVARIANTS TypeOK CapacityHeld ResultKept NoneStranded BurstHolds
CHECK_DEADLOCK FALSE
